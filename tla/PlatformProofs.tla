--------------------------- MODULE PlatformProofs ---------------------------
(***************************************************************************)
(* Proofs about what every handler rests on: the sessions RequireAuth      *)
(* checks, for any number of logins and calls, any TTL and any bound on    *)
(* the clock; and the connections of the pool, for any number of calls and *)
(* any size.                                                               *)
(***************************************************************************)
EXTENDS Identity, ConnPool, FiniteSetTheorems, TLAPS

-----------------------------------------------------------------------------
\* Sessions.


\* A session belongs to a login whose handler is past its INSERT, and expires
\* when the login said, rounded.
SessionsIssued ==
  \A l \in Logins :
    /\ l \in session => /\ pc[l] \in {"audit", "done"}
                        /\ issued[l] # Unset
                        /\ expires[l] = Stored(issued[l] + TTL)
    /\ pc[l] = "session" => issued[l] # Unset

\* A call that was let in is past the check, which found its token's login past
\* its INSERT too.
AdmittedLater ==
  \A c \in Calls : Admitted(c) =>
    /\ pc[c] \notin {"idle", "session"}
    /\ pc[token[c]] \in {"audit", "done"}
    /\ issued[token[c]] # Unset

\* Nothing undoes a revocation.
BarredRevoked == \A c \in Calls : barred[c] \subseteq revoked

IdentityInv ==
  /\ TypeOK /\ SessionsIssued /\ AdmittedLater /\ BarredRevoked
  /\ RevocationHolds /\ AdmittedWithinTTL

\* Rounding to the second gives a time at most half a second later.
LEMMA StoredBounds == \A t \in Nat : Stored(t) \in Nat /\ Stored(t) <= t + 1
<1>1. ASSUME NEW n \in Nat PROVE n \div 2 \in Nat /\ 2 * (n \div 2) <= n
  OBVIOUS
<1>2. \A t \in Nat : 2 * ((t + 1) \div 2) \in Nat /\ 2 * ((t + 1) \div 2) <= t + 1
  <2> TAKE t \in Nat
  <2>1. t + 1 \in Nat
    OBVIOUS
  <2>2. (t + 1) \div 2 \in Nat /\ 2 * ((t + 1) \div 2) <= t + 1
    BY <1>1, <2>1
  <2> QED BY <2>2
<1> QED BY <1>2 DEF Stored

LEMMA IdentityInit == Init => IdentityInv
<1> SUFFICES ASSUME Init PROVE IdentityInv
  OBVIOUS
<1>1. TypeOK
  BY ConstantsAssumption DEF Init, TypeOK, Times, BootSteps, Steps, Ops
<1>2. \A c \in Calls : ~ Admitted(c)
  BY DEF Init, Admitted
<1>3. SessionsIssued /\ BarredRevoked
  BY DEF Init, SessionsIssued, BarredRevoked, Requests
<1> QED
  BY <1>1, <1>2, <1>3 DEF IdentityInv, AdmittedLater, RevocationHolds, AdmittedWithinTTL

-----------------------------------------------------------------------------
\* A step of a handler that keeps what the invariant is about: it moves on from
\* neither a check nor an INSERT, and leaves issued, admittedAt and barred alone.
LEMMA ControlKeeps ==
  ASSUME IdentityInv, TypeOK', revoked \subseteq revoked', session' \subseteq session,
         UNCHANGED <<token, expires, issued, admittedAt, barred>>,
         \A r \in Requests : pc'[r] # pc[r] =>
           /\ pc'[r] \in {"user", "run", "audit", "done"}
           /\ pc'[r] \in {"audit", "done"} \/ r \in Calls
           /\ pc[r] \in {"user", "run", "audit"} => pc'[r] # "user"
  PROVE  IdentityInv'
<1> USE DEF IdentityInv
<1>1. \A c \in Calls : c \in Requests /\ token[c] \in Logins
  BY DEF TypeOK, Requests
<1>2. \A l \in Logins : l \in Requests /\ l \notin Calls
  BY ConstantsAssumption DEF Requests
<1>3. SessionsIssued'
  BY <1>2 DEF SessionsIssued
<1>4. AdmittedLater'
  BY <1>1, <1>2 DEF AdmittedLater, Admitted
<1>5. BarredRevoked'
  BY DEF BarredRevoked
<1>6. RevocationHolds' /\ AdmittedWithinTTL'
  BY DEF RevocationHolds, AdmittedWithinTTL, Admitted
<1> QED BY <1>3, <1>4, <1>5, <1>6

\* Every step of start-up, of every handler and of the clock keeps it.
LEMMA IdentityStep == IdentityInv /\ [Next]_vars => IdentityInv'
<1> SUFFICES ASSUME IdentityInv, [Next]_vars PROVE IdentityInv'
  OBVIOUS
<1> USE DEF IdentityInv
<1>0. /\ \A c \in Calls : c \in Requests /\ c \notin Logins /\ token[c] \in Logins
      /\ \A l \in Logins : l \in Requests /\ l \notin Calls
  BY ConstantsAssumption DEF TypeOK, Requests
<1>1. CASE Boot \/ CrashWhileStarting
  <2>1. TypeOK'
    BY <1>1 DEF Boot, SeedRole, SeedUser, SeedUserRole, CleanupSessions, CrashWhileStarting,
                unbooted, history, TypeOK, BootSteps
  <2>2. /\ session' \subseteq session
        /\ UNCHANGED <<token, expires, issued, admittedAt, barred, pc, revoked>>
    BY <1>1 DEF Boot, SeedRole, SeedUser, SeedUserRole, CleanupSessions, CrashWhileStarting,
                unbooted, history
  <2> QED BY <2>1, <2>2, ControlKeeps
<1>2. CASE Restart
  <2>1. \A r \in Requests : pc'[r] \in {pc[r], "done"}
    BY <1>2 DEF Restart
  <2>2. TypeOK'
    BY <1>2 DEF Restart, tables, history, TypeOK, BootSteps, Steps
  <2> QED BY <1>2, <2>1, <2>2, ControlKeeps DEF Restart, tables, history
<1>3. CASE Tick
  <2>1. TypeOK'
    BY <1>3, ConstantsAssumption DEF Tick, tables, history, TypeOK, Times
  <2> QED BY <1>3, <2>1, ControlKeeps DEF Tick, tables, history
<1>4. ASSUME NEW l \in Logins, VerifyPassword(l) PROVE IdentityInv'
  <2>1. /\ pc[l] = "idle"
        /\ UNCHANGED <<tables, token, admittedAt, barred>>
        /\ pc' = [pc EXCEPT ![l] = "session"]
        /\ issued' = [issued EXCEPT ![l] = now]
    BY <1>4 DEF VerifyPassword, Goto
  <2>2. TypeOK'
    BY <1>0, <1>4 DEF VerifyPassword, Goto, tables, TypeOK, Steps
  <2>3. now # Unset
    BY ConstantsAssumption DEF TypeOK, Times, Unset
  <2>4. l \notin session
    BY <2>1 DEF SessionsIssued
  <2>5. SessionsIssued'
    BY <1>0, <2>1, <2>3, <2>4 DEF SessionsIssued, TypeOK, tables
  <2>6. \A c \in Calls : Admitted(c) => token[c] # l
    BY <2>1 DEF AdmittedLater
  <2>7. AdmittedLater'
    BY <1>0, <2>1, <2>6 DEF AdmittedLater, Admitted, TypeOK
  <2>8. BarredRevoked' /\ RevocationHolds'
    BY <2>1 DEF BarredRevoked, RevocationHolds, Admitted, tables
  <2>9. AdmittedWithinTTL'
    BY <1>0, <2>1, <2>6 DEF AdmittedWithinTTL, Admitted, TypeOK
  <2> QED BY <2>2, <2>5, <2>7, <2>8, <2>9
<1>5. ASSUME NEW l \in Logins, RejectLogin(l) PROVE IdentityInv'
  <2>1. TypeOK'
    BY <1>0, <1>5 DEF RejectLogin, Answer, Goto, tables, history, TypeOK, Steps
  <2>2. pc' = [pc EXCEPT ![l] = "done"]
    BY <1>5 DEF RejectLogin, Answer, Goto
  <2> QED
    BY <1>0, <1>5, <2>1, <2>2, ControlKeeps DEF RejectLogin, tables, history, TypeOK
<1>6. ASSUME NEW l \in Logins, CreateSession(l) PROVE IdentityInv'
  <2>0. /\ pc[l] = "session"
        /\ UNCHANGED <<now, boot, seeded, token, op, audited, issued, admittedAt, loggedOut,
                       barred, revoked>>
    BY <1>6 DEF CreateSession, history
  <2>1. CASE /\ session' = session \cup {l}
             /\ expires' = [expires EXCEPT ![l] = Stored(issued[l] + TTL)]
             /\ Goto(l, "audit")
             /\ UNCHANGED reply
    <3>1. issued[l] \in Times /\ issued[l] # Unset
      BY <2>0 DEF SessionsIssued, TypeOK
    <3>2. issued[l] + TTL \in Nat
      BY <3>1, ConstantsAssumption DEF Times
    <3>3. Stored(issued[l] + TTL) \in Nat
      BY <3>2, StoredBounds
    <3>4. TypeOK'
      BY <1>0, <2>0, <2>1, <3>3 DEF Goto, TypeOK, Steps
    <3>5. SessionsIssued'
      BY <1>0, <2>0, <2>1, <3>1 DEF Goto, SessionsIssued, TypeOK
    <3>6. \A c \in Calls : Admitted(c) => token[c] # l
      BY <2>0 DEF AdmittedLater
    <3>7. AdmittedLater'
      BY <1>0, <2>0, <2>1, <3>6 DEF Goto, AdmittedLater, Admitted, TypeOK
    <3>8. BarredRevoked' /\ RevocationHolds' /\ AdmittedWithinTTL'
      BY <2>0 DEF BarredRevoked, RevocationHolds, AdmittedWithinTTL, Admitted
    <3> QED BY <3>4, <3>5, <3>7, <3>8
  <2>2. CASE Answer(l, "500") /\ UNCHANGED <<session, expires>>
    <3>1. TypeOK'
      BY <1>0, <2>0, <2>2 DEF Answer, Goto, TypeOK, Steps
    <3>2. pc' = [pc EXCEPT ![l] = "done"]
      BY <2>2 DEF Answer, Goto
    <3> QED BY <1>0, <2>0, <2>2, <3>1, <3>2, ControlKeeps DEF TypeOK
  <2> QED BY <1>6, <2>1, <2>2 DEF CreateSession
<1>7. ASSUME NEW r \in Requests, NEW code \in {"200", "204"}, AppendAudit(r, code)
      PROVE  IdentityInv'
  <2>1. TypeOK'
    BY <1>7 DEF AppendAudit, Answer, Goto, tables, history, TypeOK, Steps
  <2>2. pc' = [pc EXCEPT ![r] = "done"]
    BY <1>7 DEF AppendAudit, Answer, Goto
  <2> QED BY <1>7, <2>1, <2>2, ControlKeeps DEF AppendAudit, tables, history, TypeOK
<1>8. ASSUME NEW c \in Calls, Arrive(c) PROVE IdentityInv'
  <2>1. /\ pc[c] = "idle" /\ pc' = [pc EXCEPT ![c] = "session"]
        /\ barred' = [barred EXCEPT ![c] = revoked]
        /\ UNCHANGED <<session, expires, revoked, token, issued, admittedAt>>
    BY <1>8 DEF Arrive, Goto, tables
  <2>2. TypeOK'
    BY <1>0, <1>8 DEF Arrive, Goto, LogoutAnswered, tables, TypeOK, Steps
  <2>3. SessionsIssued'
    BY <1>0, <2>1 DEF SessionsIssued, TypeOK
  <2>4. ~ Admitted(c)
    BY <2>1 DEF AdmittedLater
  <2>5. AdmittedLater'
    BY <1>0, <2>1, <2>4 DEF AdmittedLater, Admitted, TypeOK
  <2>6. BarredRevoked' /\ RevocationHolds' /\ AdmittedWithinTTL'
    BY <2>1, <2>4 DEF BarredRevoked, RevocationHolds, AdmittedWithinTTL, Admitted, TypeOK
  <2> QED BY <2>2, <2>3, <2>5, <2>6
<1>9. ASSUME NEW c \in Calls, PassSession(c) PROVE IdentityInv'
  <2> DEFINE l == token[c]
  <2>1. /\ pc[c] = "session" /\ pc' = [pc EXCEPT ![c] = "user"]
        /\ admittedAt' = [admittedAt EXCEPT ![c] = now]
        /\ UNCHANGED <<session, expires, revoked, token, issued, barred>>
        /\ l \in session /\ l \notin revoked /\ now <= expires[l]
    BY <1>9 DEF PassSession, SessionValid, Goto, tables
  <2>2. TypeOK'
    BY <1>0, <1>9 DEF PassSession, Goto, tables, TypeOK, Steps
  <2>3. /\ l \in Logins /\ pc[l] \in {"audit", "done"}
        /\ issued[l] # Unset /\ expires[l] = Stored(issued[l] + TTL)
    BY <1>0, <2>1 DEF SessionsIssued
  <2>4. SessionsIssued'
    BY <1>0, <2>1 DEF SessionsIssued, TypeOK
  <2>5. AdmittedLater'
    BY <1>0, <2>1, <2>3 DEF AdmittedLater, Admitted, TypeOK
  <2>6. BarredRevoked' /\ RevocationHolds'
    BY <2>1 DEF BarredRevoked, RevocationHolds, Admitted, TypeOK
  <2>7. now <= issued[l] + TTL + 1
    <3>1. now \in Nat /\ issued[l] \in Nat /\ TTL \in Nat
      BY <2>3, ConstantsAssumption DEF TypeOK, Times
    <3>2. issued[l] + TTL \in Nat
      BY <3>1
    <3>3. expires[l] \in Nat /\ expires[l] <= issued[l] + TTL + 1
      BY <2>3, <3>2, StoredBounds
    <3> QED BY <2>1, <3>1, <3>3
  <2>8. AdmittedWithinTTL'
    BY <2>1, <2>7 DEF AdmittedWithinTTL, Admitted, TypeOK
  <2> QED BY <2>2, <2>4, <2>5, <2>6, <2>8
<1>10. ASSUME NEW c \in Calls, RefuseSession(c) PROVE IdentityInv'
  <2>1. TypeOK'
    BY <1>0, <1>10 DEF RefuseSession, Answer, Goto, tables, history, TypeOK, Steps
  <2>2. pc' = [pc EXCEPT ![c] = "done"]
    BY <1>10 DEF RefuseSession, Answer, Goto
  <2> QED
    BY <1>0, <1>10, <2>1, <2>2, ControlKeeps DEF RefuseSession, tables, history, TypeOK
<1>11. ASSUME NEW c \in Calls, LoadUser(c) PROVE IdentityInv'
  <2>1. TypeOK'
    BY <1>0, <1>11 DEF LoadUser, Answer, Goto, tables, history, TypeOK, Steps
  <2>2. pc' = [pc EXCEPT ![c] = "run"] \/ pc' = [pc EXCEPT ![c] = "done"]
    BY <1>11 DEF LoadUser, Answer, Goto
  <2> QED BY <1>0, <1>11, <2>1, <2>2, ControlKeeps DEF LoadUser, tables, history, TypeOK
<1>12. ASSUME NEW c \in Calls, RunHandler(c) PROVE IdentityInv'
  <2>1. TypeOK'
    BY <1>0, <1>12 DEF RunHandler, Answer, Goto, tables, history, TypeOK, Steps
  <2>2. pc' = [pc EXCEPT ![c] = "done"]
    BY <1>12 DEF RunHandler, Answer, Goto
  <2> QED BY <1>0, <1>12, <2>1, <2>2, ControlKeeps DEF RunHandler, tables, history, TypeOK
<1>13. ASSUME NEW c \in Calls, Logout(c) PROVE IdentityInv'
  <2>1. TypeOK'
    BY <1>0, <1>13 DEF Logout, Goto, history, TypeOK, Steps
  <2>2. pc' = [pc EXCEPT ![c] = "audit"]
    BY <1>13 DEF Logout, Goto
  <2>3. revoked \subseteq revoked'
    BY <1>13 DEF Logout
  <2> QED BY <1>0, <1>13, <2>1, <2>2, <2>3, ControlKeeps DEF Logout, history, TypeOK
<1>14. CASE UNCHANGED vars
  <2>1. TypeOK'
    BY <1>14 DEF vars, TypeOK
  <2> QED BY <1>14, <2>1, ControlKeeps DEF vars
<1>15. ASSUME NEW r \in Requests, Handle(r) PROVE IdentityInv'
  BY <1>4, <1>5, <1>6, <1>7, <1>8, <1>9, <1>10, <1>11, <1>12, <1>13, <1>15 DEF Handle
<1> QED BY <1>1, <1>2, <1>3, <1>14, <1>15 DEF Next

-----------------------------------------------------------------------------
\* The invariant holds in every state of every behaviour, restarts included.
THEOREM IdentityInvariant == Spec => []IdentityInv
  BY IdentityInit, IdentityStep, PTL DEF Spec

\* The variables keep their types.
THEOREM IdentityTypeCorrect == Spec => []TypeOK
<1>1. IdentityInv => TypeOK
  BY DEF IdentityInv
<1> QED BY <1>1, IdentityInvariant, PTL

\* RequireAuth lets no call in that came after its token was revoked.
THEOREM RevocationIsFinal == Spec => []RevocationHolds
<1>1. IdentityInv => RevocationHolds
  BY DEF IdentityInv
<1> QED BY <1>1, IdentityInvariant, PTL

\* RequireAuth lets no call in later than the TTL and the rounding of expires_at
\* after its login.
THEOREM SessionsEnd == Spec => []AdmittedWithinTTL
<1>1. IdentityInv => AdmittedWithinTTL
  BY DEF IdentityInv
<1> QED BY <1>1, IdentityInvariant, PTL

\* The clean-up at start removes only sessions that RequireAuth would refuse, and
\* nothing else removes any.
THEOREM CleanupSpares == Spec => RestartKeepsSessions
<1> DEFINE Kept == \A l \in session : now <= expires[l] => l \in session'
<1>1. ASSUME TypeOK, CleanupSessions PROVE Kept
  <2> SUFFICES ASSUME NEW l \in session, now <= expires[l] PROVE l \in session'
    OBVIOUS
  <2>1. now \in Nat /\ expires[l] \in Nat
    BY <1>1, ConstantsAssumption DEF TypeOK, Times
  <2>2. ~ Expired(l)
    BY <2>1 DEF Expired
  <2> QED BY <1>1, <2>2 DEF CleanupSessions
<1>2. ASSUME Next, ~ CleanupSessions PROVE Kept
  <2>1. session \subseteq session'
    BY <1>2 DEF Next, Boot, SeedRole, SeedUser, SeedUserRole, CrashWhileStarting, unbooted,
       Restart, Tick, Handle, VerifyPassword, RejectLogin, CreateSession, AppendAudit,
       Arrive, PassSession, RefuseSession, LoadUser, RunHandler, Logout, tables
  <2> QED BY <2>1
<1>3. TypeOK /\ [Next]_vars => Kept
  BY <1>1, <1>2 DEF vars
<1>4. TypeOK /\ [Next]_vars => [Kept]_vars
  BY <1>3
<1> QED BY <1>4, IdentityTypeCorrect, PTL DEF Spec, RestartKeepsSessions

-----------------------------------------------------------------------------
\* Connections.


Running == {r \in Callers : phase[r] = "running"}

-----------------------------------------------------------------------------
\* The invariant.

\* A request holds a connection for the operation it runs, and one for its
\* transaction.
HoldsItsOwn ==
  \A r \in Callers :
    held[r] = (IF r \in inTx THEN 1 ELSE 0) + (IF r \in Running THEN 1 ELSE 0)

\* Every connection is free, in an operation or in a transaction.
Accounted ==
  /\ IsFiniteSet(inTx) /\ IsFiniteSet(Running)
  /\ free + Cardinality(inTx) + Cardinality(Running) = Size

\* Nobody waits while a connection is free.
WaitersMeetNone == Waiting # {} => free = 0

\* Where a handler stands, by what it serves and what it holds.
Stand ==
  \A r \in Callers :
    /\ phase[r] # "ready" => at[r] \in {"statement", "begin", "audit"}
    /\ r \in inTx => at[r] \in {"audit", "commit"}
    /\ at[r] = "statement" => r \notin Assigns
    /\ at[r] \in {"begin", "commit"} => r \notin Plains
    /\ at[r] = "audit" => r \notin Assigns

PoolInv == PoolTypeOK /\ HoldsItsOwn /\ Accounted /\ WaitersMeetNone /\ Stand

-----------------------------------------------------------------------------
\* What the steps do to the connections.

LEMMA Counts ==
  ASSUME NEW S, IsFiniteSet(S), NEW x
  PROVE  /\ Cardinality(S) \in Nat
         /\ IsFiniteSet(S \cup {x}) /\ IsFiniteSet(S \ {x})
         /\ x \notin S => Cardinality(S \cup {x}) = Cardinality(S) + 1
         /\ x \in S => Cardinality(S \ {x}) = Cardinality(S) - 1
  BY FS_CardinalityType, FS_AddElement, FS_RemoveElement

Connections == HoldsItsOwn /\ Accounted /\ WaitersMeetNone

Phases == phase \in [Callers -> {"ready", "waiting", "running"}]

\* Of the requests other than r, only those who waited have begun to run.
OnlyWaitersRun(r) ==
  \A s \in Callers \ {r} : phase'[s] # "ready" => phase[s] # "ready"

LEMMA ReturnOfOperation ==
  ASSUME PoolInv, NEW r \in Running, GiveBack(r, "ready"), UNCHANGED inTx
  PROVE  Connections' /\ Phases' /\ free' \in Nat /\ phase'[r] = "ready" /\ OnlyWaitersRun(r)
<1> USE DEF PoolInv, PoolTypeOK, Connections, Phases, OnlyWaitersRun
<1>0. r \in Callers /\ phase[r] = "running" /\ r \notin Waiting
  BY DEF Running, Waiting
<1>1. /\ Cardinality(inTx) \in Nat /\ Cardinality(Running) \in Nat
      /\ IsFiniteSet(Running \ {r}) /\ Cardinality(Running \ {r}) = Cardinality(Running) - 1
  BY Counts DEF Accounted
<1>2. CASE /\ Waiting = {}
           /\ free' = free + 1
           /\ held' = [held EXCEPT ![r] = @ - 1]
           /\ phase' = [phase EXCEPT ![r] = "ready"]
  <2>1. Running' = Running \ {r} /\ Waiting' = {}
    BY <1>0, <1>2 DEF Running, Waiting
  <2>2. HoldsItsOwn'
    BY <1>0, <1>2, <2>1 DEF HoldsItsOwn
  <2>3. Accounted' /\ WaitersMeetNone'
    BY <1>1, <1>2, <2>1, PoolAssumption DEF Accounted, WaitersMeetNone
  <2> QED BY <1>0, <1>2, <2>2, <2>3
<1>3. ASSUME NEW w \in Waiting,
             held' = [held EXCEPT ![r] = @ - 1, ![w] = @ + 1],
             phase' = [phase EXCEPT ![r] = "ready", ![w] = "running"],
             UNCHANGED free
      PROVE  Connections' /\ Phases' /\ free' \in Nat /\ phase'[r] = "ready" /\ OnlyWaitersRun(r)
  <2>0. w \in Callers /\ phase[w] = "waiting" /\ w # r /\ w \notin Running
    BY <1>0 DEF Waiting, Running
  <2>1. Running' = (Running \ {r}) \cup {w} /\ Waiting' \subseteq Waiting
    BY <1>0, <1>3, <2>0 DEF Running, Waiting
  <2>2. HoldsItsOwn'
    BY <1>0, <1>3, <2>0, <2>1 DEF HoldsItsOwn
  <2>3. IsFiniteSet(Running') /\ Cardinality(Running') = Cardinality(Running)
    <3>1. w \notin Running \ {r}
      BY <2>0
    <3>2. /\ IsFiniteSet((Running \ {r}) \cup {w})
          /\ Cardinality((Running \ {r}) \cup {w}) = Cardinality(Running \ {r}) + 1
      BY <1>1, <3>1, Counts
    <3> QED BY <1>1, <2>1, <3>2
  <2>4. Accounted' /\ WaitersMeetNone'
    BY <1>3, <2>1, <2>3 DEF Accounted, WaitersMeetNone
  <2> QED BY <1>0, <1>3, <2>0, <2>2, <2>4
<1> QED BY <1>2, <1>3 DEF GiveBack

LEMMA ReturnOfTransaction ==
  ASSUME PoolInv, NEW r \in inTx, GiveBack(r, phase[r]), inTx' = inTx \ {r}
  PROVE  /\ Connections' /\ Phases' /\ free' \in Nat /\ OnlyWaitersRun(r)
         /\ phase'[r] # "ready" => phase[r] # "ready"
<1> USE DEF PoolInv, PoolTypeOK, Connections, Phases, OnlyWaitersRun
<1>0. r \in Callers
  BY DEF Callers
<1>1. /\ Cardinality(inTx) \in Nat /\ Cardinality(Running) \in Nat
      /\ IsFiniteSet(inTx \ {r}) /\ Cardinality(inTx \ {r}) = Cardinality(inTx) - 1
  BY Counts DEF Accounted
<1>2. CASE /\ Waiting = {}
           /\ free' = free + 1
           /\ held' = [held EXCEPT ![r] = @ - 1]
           /\ phase' = [phase EXCEPT ![r] = phase[r]]
  <2>1. phase' = phase /\ Running' = Running /\ Waiting' = Waiting
    BY <1>2 DEF Running, Waiting
  <2>2. HoldsItsOwn'
    BY <1>0, <1>2, <2>1 DEF HoldsItsOwn
  <2>3. Accounted' /\ WaitersMeetNone'
    BY <1>1, <1>2, <2>1, PoolAssumption DEF Accounted, WaitersMeetNone
  <2>4. Connections' /\ free' \in Nat
    BY <1>2, <2>2, <2>3, PoolAssumption
  <2>5. Phases' /\ OnlyWaitersRun(r) /\ phase'[r] = phase[r]
    BY <2>1
  <2> QED BY <2>4, <2>5
<1>3. ASSUME NEW w \in Waiting,
             held' = [held EXCEPT ![r] = @ - 1, ![w] = @ + 1],
             phase' = [phase EXCEPT ![r] = phase[r], ![w] = "running"],
             UNCHANGED free
      PROVE  /\ Connections' /\ Phases' /\ free' \in Nat /\ OnlyWaitersRun(r)
             /\ phase'[r] # "ready" => phase[r] # "ready"
  <2>0. w \in Callers /\ phase[w] = "waiting" /\ w \notin Running
    BY DEF Waiting, Running
  <2>p. phase' = [phase EXCEPT ![w] = "running"]
    BY <1>0, <1>3, <2>0
  <2>1. Running' = Running \cup {w} /\ Waiting' \subseteq Waiting
    BY <2>p, <2>0 DEF Running, Waiting
  <2>2. HoldsItsOwn'
    BY <1>0, <1>3, <2>0, <2>1 DEF HoldsItsOwn
  <2>3. IsFiniteSet(Running') /\ Cardinality(Running') = Cardinality(Running) + 1
    BY <2>0, <2>1, Counts DEF Accounted
  <2>4. Accounted' /\ WaitersMeetNone'
    BY <1>1, <1>3, <2>1, <2>3 DEF Accounted, WaitersMeetNone
  <2> QED BY <1>0, <1>3, <2>0, <2>p, <2>2, <2>4
<1> QED BY <1>2, <1>3 DEF GiveBack

\* Steps that leave the connections alone.
LEMMA ConnectionsKept ==
  ASSUME PoolInv, UNCHANGED <<phase, held, free, inTx>>
  PROVE  Connections' /\ Phases'
  BY DEF PoolInv, Connections, Phases, PoolTypeOK, HoldsItsOwn, Accounted, WaitersMeetNone, Running,
         Waiting

-----------------------------------------------------------------------------
LEMMA PoolInvariantInit == PoolInit => PoolInv
<1> SUFFICES ASSUME PoolInit PROVE PoolInv
  OBVIOUS
<1>1. Running = {} /\ Waiting = {} /\ inTx = {}
  BY DEF PoolInit, Running, Waiting
<1>2. PoolTypeOK
  BY PoolAssumption DEF PoolInit, PoolTypeOK
<1>3. Accounted
  BY <1>1, FS_EmptySet, PoolAssumption DEF PoolInit, Accounted
<1>4. HoldsItsOwn /\ WaitersMeetNone /\ Stand
  BY <1>1 DEF PoolInit, HoldsItsOwn, WaitersMeetNone, Stand
<1> QED BY <1>2, <1>3, <1>4 DEF PoolInv

LEMMA PoolInvariantStep ==
  PoolInv /\ [PoolNext]_poolVars => PoolInv'
<1> SUFFICES ASSUME PoolInv, [PoolNext]_poolVars PROVE PoolInv'
  OBVIOUS
<1>t. PoolTypeOK /\ HoldsItsOwn /\ Accounted /\ WaitersMeetNone /\ Stand
  BY DEF PoolInv
<1>d. Plains \cap Completions = {} /\ Plains \cap Assigns = {} /\ Completions \cap Assigns = {}
  BY PoolAssumption
<1> DEFINE Codes == /\ at \in [Callers -> {"idle", "statement", "begin", "audit", "commit", "done"}]
                    /\ inTx \subseteq Completions \cup Assigns
                    /\ recorded \subseteq Plains \cup Completions
                    /\ result \in [Callers -> {"none", "ok", "500"}]
           Goal == Connections' /\ Phases' /\ free' \in Nat /\ Codes' /\ Stand'
<1>1. ASSUME NEW r \in Callers, Enter(r) PROVE Goal
  BY <1>1, <1>t, <1>d, ConnectionsKept DEF Enter, First, PoolTypeOK, Stand, Callers
<1>2. ASSUME NEW r \in Callers, Take(r) PROVE Goal
  <2>1. Running' = Running \cup {r} /\ r \notin Running /\ Waiting' = Waiting
    BY <1>2, <1>t DEF Take, NeedsConnection, Running, Waiting, PoolTypeOK
  <2>2. IsFiniteSet(Running') /\ Cardinality(Running') = Cardinality(Running) + 1
    BY <1>t, <2>1, Counts DEF Accounted
  <2>3. Cardinality(Running) \in Nat /\ Cardinality(inTx) \in Nat
    BY <1>t, Counts DEF Accounted
  <2>4. Accounted' /\ WaitersMeetNone'
    BY <1>2, <1>t, <2>1, <2>2, <2>3 DEF Take, PoolTypeOK, Accounted, WaitersMeetNone
  <2>5. HoldsItsOwn'
    BY <1>2, <1>t, <2>1 DEF Take, PoolTypeOK, HoldsItsOwn
  <2>6. Phases' /\ free' \in Nat /\ Codes' /\ Stand'
    BY <1>2, <1>t DEF Take, NeedsConnection, PoolTypeOK, Phases, Stand
  <2> QED BY <2>4, <2>5, <2>6 DEF Connections
<1>3. ASSUME NEW r \in Callers, Wait(r) PROVE Goal
  <2>1. Running' = Running
    BY <1>3, <1>t DEF Wait, NeedsConnection, Running, PoolTypeOK
  <2>2. Connections'
    BY <1>3, <1>t, <2>1 DEF Wait, Connections, Accounted, WaitersMeetNone, HoldsItsOwn
  <2>3. Phases' /\ free' \in Nat /\ Codes' /\ Stand'
    BY <1>3, <1>t DEF Wait, NeedsConnection, PoolTypeOK, Phases, Stand
  <2> QED BY <2>2, <2>3
<1>4. ASSUME NEW r \in Callers, Finish(r) \/ Audit(r) PROVE Goal
  <2>0. r \in Running /\ GiveBack(r, "ready") /\ UNCHANGED inTx
    BY <1>4 DEF Finish, Audit, Running
  <2>1. Connections' /\ Phases' /\ free' \in Nat /\ phase'[r] = "ready" /\ OnlyWaitersRun(r)
    BY <2>0, ReturnOfOperation
  <2>2. at' = [at EXCEPT ![r] = Following(r)] /\ at[r] \in {"statement", "audit"}
    BY <1>4 DEF Finish, Audit, Proceed
  <2>3. /\ at[r] = "statement" => Following(r) = IF r \in Completions THEN "begin" ELSE "audit"
        /\ at[r] = "audit" => Following(r) = IF r \in Completions THEN "commit" ELSE "done"
    BY DEF Following
  <2>4. Codes'
    BY <1>4, <1>t, <2>0, <2>2, <2>3 DEF Finish, Audit, Proceed, PoolTypeOK, Stand, Callers
  <2>5. Stand'
    BY <1>t, <1>d, <2>0, <2>1, <2>2, <2>3 DEF Stand, PoolTypeOK, OnlyWaitersRun, Callers
  <2> QED BY <2>1, <2>4, <2>5
<1>5. ASSUME NEW r \in Callers, OpenTx(r) PROVE Goal
  <2>0. r \in Running /\ r \notin inTx /\ r \in Completions \cup Assigns
    BY <1>5, <1>t DEF OpenTx, Running, Stand, Callers
  <2>1. Running' = Running \ {r} /\ Waiting' = Waiting /\ inTx' = inTx \cup {r}
    BY <1>5, <1>t DEF OpenTx, Running, Waiting, PoolTypeOK
  <2>2. /\ IsFiniteSet(Running') /\ Cardinality(Running') = Cardinality(Running) - 1
        /\ IsFiniteSet(inTx') /\ Cardinality(inTx') = Cardinality(inTx) + 1
        /\ Cardinality(Running) \in Nat /\ Cardinality(inTx) \in Nat
    BY <1>t, <2>0, <2>1, Counts DEF Accounted
  <2>3. Accounted' /\ WaitersMeetNone'
    BY <1>5, <1>t, <2>1, <2>2 DEF OpenTx, PoolTypeOK, Accounted, WaitersMeetNone
  <2>4. HoldsItsOwn'
    BY <1>5, <1>t, <2>0, <2>1 DEF OpenTx, HoldsItsOwn
  <2>5. at' = [at EXCEPT ![r] = IF r \in Completions THEN "audit" ELSE "commit"]
    BY <1>5 DEF OpenTx, Proceed, Following
  <2>6. Phases' /\ free' \in Nat /\ Codes'
    BY <1>5, <1>t, <2>0, <2>1, <2>5 DEF OpenTx, Proceed, PoolTypeOK, Phases
  <2>7. Stand'
    BY <1>5, <1>t, <1>d, <2>0, <2>1, <2>5 DEF OpenTx, Stand, PoolTypeOK
  <2> QED BY <2>3, <2>4, <2>6, <2>7 DEF Connections
<1>6. ASSUME NEW r \in Callers, Fail(r) PROVE Goal
  <2>0. r \in Running /\ GiveBack(r, "ready") /\ UNCHANGED inTx
    BY <1>6 DEF Fail, Running
  <2>1. Connections' /\ Phases' /\ free' \in Nat /\ phase'[r] = "ready" /\ OnlyWaitersRun(r)
    BY <2>0, ReturnOfOperation
  <2>2. Codes'
    BY <1>6, <1>t DEF Fail, Abort, PoolTypeOK
  <2>3. Stand'
    BY <1>6, <1>t, <2>0, <2>1 DEF Fail, Abort, Stand, PoolTypeOK, OnlyWaitersRun
  <2> QED BY <2>1, <2>2, <2>3
<1>7. ASSUME NEW r \in Callers, WaitEnds(r) PROVE Goal
  <2>1. Running' = Running /\ Waiting' \subseteq Waiting
    BY <1>7, <1>t DEF WaitEnds, Running, Waiting, PoolTypeOK
  <2>2. Connections'
    BY <1>7, <1>t, <2>1 DEF WaitEnds, Connections, Accounted, WaitersMeetNone, HoldsItsOwn
  <2>3. at[r] \in {"statement", "begin", "audit"}
    BY <1>7, <1>t DEF WaitEnds, Stand
  <2>4. at[r] = "audit" => Following(r) = IF r \in Completions THEN "commit" ELSE "done"
    BY DEF Following
  <2>5. \/ /\ at[r] = "audit"
           /\ at' = [at EXCEPT ![r] = IF r \in Completions THEN "commit" ELSE "done"]
           /\ result' = [result EXCEPT ![r] = IF Following(r) = "done" THEN "ok" ELSE @]
        \/ /\ at[r] # "audit"
           /\ at' = [at EXCEPT ![r] = "done"] /\ result' = [result EXCEPT ![r] = "500"]
    BY <1>7, <2>4 DEF WaitEnds, Proceed, Abort
  <2>6. Phases' /\ free' \in Nat /\ Codes'
    BY <1>7, <1>t, <2>5 DEF WaitEnds, PoolTypeOK, Phases
  <2>7. Stand'
    BY <1>7, <1>t, <1>d, <2>3, <2>5 DEF WaitEnds, Stand, PoolTypeOK, Callers
  <2> QED BY <2>2, <2>6, <2>7
<1>8. ASSUME NEW r \in Callers, TxExpires(r) PROVE Goal
  <2>1. /\ Connections' /\ Phases' /\ free' \in Nat /\ OnlyWaitersRun(r)
        /\ phase'[r] # "ready" => phase[r] # "ready"
    BY <1>8, ReturnOfTransaction DEF TxExpires
  <2>2. Codes'
    BY <1>8, <1>t DEF TxExpires, PoolTypeOK
  <2>3. Stand'
    BY <1>8, <1>t, <2>1 DEF TxExpires, Stand, OnlyWaitersRun
  <2> QED BY <2>1, <2>2, <2>3
<1>9. ASSUME NEW r \in Callers, Commit(r) PROVE Goal
  <2>0. r \in inTx /\ phase[r] = "ready"
    BY <1>9, <1>t DEF Commit, Stand
  <2>1. /\ Connections' /\ Phases' /\ free' \in Nat /\ OnlyWaitersRun(r)
        /\ phase'[r] # "ready" => phase[r] # "ready"
    BY <1>9, <2>0, ReturnOfTransaction DEF Commit
  <2>2. at' = [at EXCEPT ![r] = "done"]
    BY <1>9 DEF Commit, Proceed, Abort
  <2>3. Codes'
    BY <1>9, <1>t, <2>2 DEF Commit, Proceed, Abort, PoolTypeOK
  <2>4. Stand'
    BY <1>9, <1>t, <2>0, <2>1, <2>2 DEF Commit, Stand, PoolTypeOK, OnlyWaitersRun
  <2> QED BY <2>1, <2>3, <2>4
<1>10. ASSUME NEW r \in Callers, CommitTooLate(r) PROVE Goal
  <2>1. Codes' /\ Stand'
    BY <1>10, <1>t DEF CommitTooLate, Abort, PoolTypeOK, Stand
  <2> QED BY <1>10, <1>t, <2>1, ConnectionsKept DEF CommitTooLate, PoolTypeOK
<1>11. ASSUME UNCHANGED poolVars PROVE Goal
  <2>1. Codes' /\ Stand'
    BY <1>11, <1>t DEF poolVars, PoolTypeOK, Stand
  <2> QED BY <1>11, <1>t, <2>1, ConnectionsKept DEF poolVars, PoolTypeOK
<1> HIDE DEF Goal
<1>g. Goal
  BY <1>1, <1>2, <1>3, <1>4, <1>5, <1>6, <1>7, <1>8, <1>9, <1>10, <1>11 DEF PoolNext, Serve
<1>h. free' \in 0 .. Size
  <2>1. Cardinality(inTx)' \in Nat /\ Cardinality(Running)' \in Nat
    BY <1>g, FS_CardinalityType DEF Goal, Connections, Accounted
  <2> QED BY <1>g, <2>1, PoolAssumption DEF Goal, Connections, Accounted
<1>i. held' \in [Callers -> 0 .. 2]
  <2>1. \A r \in Callers : held'[r] \in 0 .. 2
    BY <1>g DEF Goal, Connections, HoldsItsOwn
  <2>2. held' = [r \in Callers |-> held'[r]]
    BY <1>t DEF PoolTypeOK, PoolNext, Serve, Enter, Take, Wait, Finish, OpenTx, Fail, Audit, WaitEnds,
                TxExpires, Commit, CommitTooLate, GiveBack, poolVars
  <2> QED BY <2>1, <2>2
<1> QED BY <1>g, <1>h, <1>i DEF Goal, PoolInv, PoolTypeOK, Connections, Phases

-----------------------------------------------------------------------------
THEOREM PoolInvariant == PoolSpec => []PoolInv
  BY PoolInvariantInit, PoolInvariantStep, PTL DEF PoolSpec

\* No request ever holds more than two connections, and no more are free than
\* the pool has (OpenMySQL).
THEOREM PoolTypeCorrect == PoolSpec => []PoolTypeOK
<1>1. PoolInv => PoolTypeOK
  BY DEF PoolInv
<1> QED BY <1>1, PoolInvariant, PTL

\* The handlers stall only when completions have taken the whole pool
\* (attachmentsComplete, which audits inside its transaction).
THEOREM OnlyCompletionsStall == PoolSpec => []StallTakesPool
<1>1. PoolInv => StallTakesPool
  <2> SUFFICES ASSUME PoolInv, Open # {}, Open \subseteq Waiting
               PROVE  Cardinality({r \in Completions : r \in inTx /\ at[r] = "audit"}) = Size
    BY DEF StallTakesPool
  <2>1. free = 0 /\ Size \in Nat
    BY PoolAssumption DEF PoolInv, WaitersMeetNone
  <2>2. Running = {}
    BY DEF PoolInv, PoolTypeOK, Stand, Running, Open, Waiting
  <2>3. \A r \in inTx : r \in Completions /\ at[r] = "audit"
    BY DEF PoolInv, PoolTypeOK, Stand, Open, Waiting, Callers
  <2>4. {r \in Completions : r \in inTx /\ at[r] = "audit"} = inTx
    BY <2>3
  <2>5. Cardinality(inTx) \in Nat /\ Cardinality(Running) = 0
    BY <2>2, FS_EmptySet, FS_CardinalityType DEF PoolInv, Accounted
  <2>6. Cardinality(inTx) = Size
    BY <2>1, <2>5 DEF PoolInv, Accounted
  <2> QED BY <2>4, <2>6
<1> QED BY <1>1, PoolInvariant, PTL
=============================================================================
