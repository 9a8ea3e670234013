------------------------- MODULE CaseCreationProofs -------------------------
(***************************************************************************)
(* Proofs about CaseCreation, for any number of requests, institutions,    *)
(* keys and days, with faults and crashes.                                 *)
(***************************************************************************)
EXTENDS CaseCreation, FiniteSetTheorems, TLAPS

\* The operators of generateCaseNumber on whole numbers give whole numbers: the
\* day of a time,
LEMMA DayOfType == ASSUME NEW t \in Int PROVE DayOf(t) \in Int
  BY ConstantsAssumption DEF DayOf

\* the second a TIMESTAMP column keeps of it,
LEMMA StoredType == ASSUME NEW t \in Int PROVE Stored(t) \in Int
  BY DEF Stored

\* and the last six digits of a serial.
LEMMA RightSixType == ASSUME NEW n \in Int PROVE RightSix(n) \in Int
  BY ConstantsAssumption DEF RightSix

\* RIGHT(case_number, 6) gives back a serial below the modulus whole.
LEMMA RightSixSmall ==
  ASSUME NEW n \in Nat, n < SeqModulus
  PROVE  RightSix(n) = n
  BY ConstantsAssumption, SMT DEF RightSix

-----------------------------------------------------------------------------
\* Before the first request the variables have their types.
LEMMA TypeInit == Init => TypeOK
  BY ConstantsAssumption DEF Init, TypeOK, Times, Steps, Replies

\* Every statement of the handler, and a crash or tick between two of them,
\* keeps the types.
LEMMA TypeStep == TypeOK /\ [Next]_vars => TypeOK'
<1> SUFFICES ASSUME TypeOK, [Next]_vars PROVE TypeOK'
  OBVIOUS
<1> USE DEF TypeOK, Times, Steps, Replies, number
<1>1. CASE Tick
  BY <1>1, ConstantsAssumption DEF Tick
<1>2. CASE Crash
  BY <1>2 DEF Crash, InFlight
<1>3. ASSUME NEW r \in Requests, Handle(r) PROVE TypeOK'
  <2>1. CASE QueryDuplicates(r)
    BY <2>1 DEF QueryDuplicates
  <2>2. CASE QueryDuplicatesFails(r)
    BY <2>2 DEF QueryDuplicatesFails
  <2>3. CASE RefuseDuplicate(r)
    BY <2>3 DEF RefuseDuplicate
  <2>4. CASE PassDuplicateCheck(r)
    BY <2>4 DEF PassDuplicateCheck
  <2>5. CASE GenerateCaseNumber(r)
    <3>1. PICK t \in Times :
            /\ date' = [date EXCEPT ![r] = DayOf(t)]
            /\ \E m \in Serials(body[r].inst, DayOf(t)) \cup {0} :
                 seq' = [seq EXCEPT ![r] = NextSerial(m)]
      BY <2>5 DEF GenerateCaseNumber
    <3>a. PICK m \in Serials(body[r].inst, DayOf(t)) \cup {0} :
            seq' = [seq EXCEPT ![r] = NextSerial(m)]
      BY <3>1
    <3>2. DayOf(t) \in Int
      BY <3>1, DayOfType, ConstantsAssumption
    <3>3. m \in Int
      BY <3>a, RightSixType DEF Serials
    <3>4. date' \in [Requests -> Int] /\ seq' \in [Requests -> Int]
      BY <3>1, <3>a, <3>2, <3>3 DEF NextSerial
    <3> QED BY <2>5, <3>4 DEF GenerateCaseNumber
  <2>6. CASE GenerateCaseNumberFails(r)
    BY <2>6 DEF GenerateCaseNumberFails
  <2>7. CASE ReadClock(r)
    BY <2>7 DEF ReadClock
  <2>8. CASE InsertCase(r)
    BY <2>8 DEF InsertCase
  <2>9. CASE InsertCaseFails(r)
    BY <2>9 DEF InsertCaseFails
  <2>10. CASE InsertCaseTimesOut(r)
    BY <2>10 DEF InsertCaseTimesOut
  <2>11. CASE CommitLate(r)
    BY <2>11 DEF CommitLate
  <2>12. CASE AppendAudit(r)
    BY <2>12 DEF AppendAudit
  <2>13. CASE AppendAuditFails(r)
    BY <2>13 DEF AppendAuditFails
  <2> QED BY <1>3, <2>1, <2>2, <2>3, <2>4, <2>5, <2>6, <2>7, <2>8, <2>9,
             <2>10, <2>11, <2>12, <2>13 DEF Handle
<1>4. CASE UNCHANGED vars
  BY <1>4 DEF vars
<1> QED BY <1>1, <1>2, <1>3, <1>4 DEF Next

\* The state of the handlers, the table and the trail is well formed.
THEOREM TypeCorrect == Spec => []TypeOK
<1>1. Init => TypeOK BY TypeInit
<1>2. TypeOK /\ [Next]_vars => TypeOK' BY TypeStep
<1> QED BY <1>1, <1>2, PTL DEF Spec

-----------------------------------------------------------------------------
\* The inductive invariant behind the case numbers.  A row never changes its
\* number or its day once committed, so what MAX saw stays true of it.
RowsSettled ==
  \A r \in Requests :
    /\ r \in cases => pc[r] \in {"audit", "done"}
    /\ numberedFrom[r] \subseteq cases
    /\ pc[r] \in {"idle", "evaluate", "number"} => numberedFrom[r] = {}

SerialAboveSeen ==
  \A d \in Requests : \A c \in numberedFrom[d] :
    body[c].inst = body[d].inst /\ DayOf(Stored(stamp[c])) = date[d]
      => RightSix(seq[c]) < seq[d]

SerialFollows ==
  \A d \in Requests : seq[d] > 1 =>
    \E c \in numberedFrom[d] :
      /\ body[c].inst = body[d].inst
      /\ DayOf(Stored(stamp[c])) = date[d]
      /\ RightSix(seq[c]) = seq[d] - 1

SerialsPositive == \A d \in Requests : seq[d] \in Nat

NumberingInv == TypeOK /\ RowsSettled /\ SerialAboveSeen /\ SerialFollows /\ SerialsPositive

\* An empty table satisfies the numbering invariant.
LEMMA NumberingInit == Init => NumberingInv
  BY TypeInit DEF Init, NumberingInv, RowsSettled, SerialAboveSeen, SerialFollows,
     SerialsPositive

\* A step that leaves the serials, the times of committed rows and the
\* snapshots alone cannot disturb the three facts about serials.
LEMMA NumbersUntouched ==
  ASSUME NumberingInv, TypeOK', RowsSettled',
         UNCHANGED <<body, date, seq, numberedFrom>>,
         \A c \in cases : stamp'[c] = stamp[c]
  PROVE  NumberingInv'
<1>1. \A d \in Requests : \A c \in numberedFrom[d] : stamp'[c] = stamp[c]
  BY DEF NumberingInv, RowsSettled
<1>2. SerialAboveSeen'
  BY <1>1 DEF NumberingInv, SerialAboveSeen
<1>3. SerialFollows'
  BY <1>1 DEF NumberingInv, SerialFollows
<1> QED BY <1>2, <1>3 DEF NumberingInv, SerialsPositive

\* Every step keeps the numbering invariant; only generateCaseNumber changes
\* what it is about.
LEMMA NumberingStep == NumberingInv /\ [Next]_vars => NumberingInv'
<1> SUFFICES ASSUME NumberingInv, [Next]_vars PROVE NumberingInv'
  OBVIOUS
<1>0. TypeOK /\ TypeOK'
  BY TypeStep DEF NumberingInv
<1>1. CASE Tick
  BY <1>0, <1>1, NumbersUntouched DEF Tick, number, NumberingInv, RowsSettled
<1>2. CASE Crash
  BY <1>0, <1>2, NumbersUntouched
     DEF Crash, InFlight, number, NumberingInv, RowsSettled, TypeOK, Steps
<1>3. ASSUME NEW r \in Requests, Handle(r) PROVE NumberingInv'
  <2> USE <1>0 DEF number
  <2>1. CASE QueryDuplicates(r)
    BY <2>1, NumbersUntouched DEF QueryDuplicates, NumberingInv, RowsSettled, TypeOK
  <2>2. CASE QueryDuplicatesFails(r)
    BY <2>2, NumbersUntouched DEF QueryDuplicatesFails, NumberingInv, RowsSettled, TypeOK
  <2>3. CASE RefuseDuplicate(r)
    BY <2>3, NumbersUntouched DEF RefuseDuplicate, NumberingInv, RowsSettled, TypeOK
  <2>4. CASE PassDuplicateCheck(r)
    BY <2>4, NumbersUntouched DEF PassDuplicateCheck, NumberingInv, RowsSettled, TypeOK
  <2>5. CASE GenerateCaseNumber(r)
    <3>1. PICK t \in Times :
            /\ date' = [date EXCEPT ![r] = DayOf(t)]
            /\ \E m \in Serials(body[r].inst, DayOf(t)) \cup {0} :
                 /\ IsCoalescedMax(m, Serials(body[r].inst, DayOf(t)))
                 /\ seq' = [seq EXCEPT ![r] = NextSerial(m)]
      BY <2>5 DEF GenerateCaseNumber
    <3>2. PICK m \in Serials(body[r].inst, DayOf(t)) \cup {0} :
            /\ IsCoalescedMax(m, Serials(body[r].inst, DayOf(t)))
            /\ seq' = [seq EXCEPT ![r] = NextSerial(m)]
      BY <3>1
    <3>3. /\ pc[r] = "number" /\ r \notin cases
          /\ pc' = [pc EXCEPT ![r] = "stamp"]
          /\ numberedFrom' = [numberedFrom EXCEPT ![r] = cases]
          /\ UNCHANGED <<body, stamp, cases>>
      BY <2>5 DEF GenerateCaseNumber, NumberingInv, RowsSettled
    <3>4. RowsSettled'
      BY <3>3 DEF NumberingInv, RowsSettled, TypeOK
    <3>5. \A c \in cases : seq'[c] = seq[c]
      BY <3>2, <3>3 DEF TypeOK
    <3>6. \A c \in Requests : RightSix(seq[c]) \in Int
      BY RightSixType DEF TypeOK
    <3>7. m \in Nat
      <4>1. m \in Int
        BY <3>2, <3>6 DEF Serials, TypeOK
      <4>2. m = 0 \/ \E c \in cases : m = seq[c] % SeqModulus
        BY <3>2 DEF Serials, RightSix
      <4> QED BY <4>1, <4>2, ConstantsAssumption DEF NumberingInv, SerialsPositive, TypeOK
    <3>8. SerialsPositive'
      BY <3>2, <3>7 DEF NextSerial, SerialsPositive, NumberingInv, TypeOK
    <3>9. SerialAboveSeen'
      <4> SUFFICES ASSUME NEW d \in Requests, NEW c \in numberedFrom'[d],
                          body[c].inst = body[d].inst,
                          DayOf(Stored(stamp[c])) = date'[d]
                   PROVE  RightSix(seq'[c]) < seq'[d]
        BY <3>3 DEF SerialAboveSeen
      <4>1. c \in cases /\ seq'[c] = seq[c]
        BY <3>3, <3>5 DEF NumberingInv, RowsSettled, TypeOK
      <4>2. CASE d = r
        <5>1. RightSix(seq[c]) \in Serials(body[r].inst, DayOf(t))
          BY <4>1, <4>2, <3>1 DEF Serials, TypeOK
        <5>2. RightSix(seq[c]) <= m
          BY <5>1, <3>2 DEF IsCoalescedMax
        <5>3. seq'[d] = m + 1
          BY <4>2, <3>2 DEF NextSerial, TypeOK
        <5>4. RightSix(seq[c]) \in Int
          BY <4>1, <3>6 DEF TypeOK
        <5> QED BY <4>1, <5>2, <5>3, <5>4, <3>7
      <4>3. CASE d # r
        <5>1. c \in numberedFrom[d] /\ date'[d] = date[d] /\ seq'[d] = seq[d]
          BY <4>3, <3>1, <3>2, <3>3 DEF TypeOK
        <5> QED BY <5>1, <4>1 DEF NumberingInv, SerialAboveSeen
      <4> QED BY <4>2, <4>3
    <3>10. SerialFollows'
      <4> SUFFICES ASSUME NEW d \in Requests, seq'[d] > 1
                   PROVE  \E c \in numberedFrom'[d] :
                            /\ body[c].inst = body[d].inst
                            /\ DayOf(Stored(stamp[c])) = date'[d]
                            /\ RightSix(seq'[c]) = seq'[d] - 1
        BY <3>3 DEF SerialFollows
      <4>1. CASE d = r
        <5>1. seq'[d] = m + 1 /\ date'[d] = DayOf(t) /\ numberedFrom'[d] = cases
          BY <4>1, <3>1, <3>2, <3>3 DEF NextSerial, TypeOK
        <5>2. m \in Serials(body[r].inst, DayOf(t))
          BY <5>1, <3>2, <3>7
        <5>3. PICK c \in cases : /\ m = RightSix(seq[c])
                                 /\ body[c].inst = body[r].inst
                                 /\ DayOf(Stored(stamp[c])) = DayOf(t)
          BY <5>2 DEF Serials
        <5> QED BY <5>1, <5>3, <4>1, <3>5, <3>7
      <4>2. CASE d # r
        <5>1. /\ numberedFrom'[d] = numberedFrom[d]
              /\ date'[d] = date[d] /\ seq'[d] = seq[d]
          BY <4>2, <3>1, <3>2, <3>3 DEF TypeOK
        <5>2. \A c \in numberedFrom[d] : seq'[c] = seq[c]
          BY <3>5 DEF NumberingInv, RowsSettled
        <5> QED BY <5>1, <5>2 DEF NumberingInv, SerialFollows
      <4> QED BY <4>1, <4>2
    <3> QED BY <3>4, <3>8, <3>9, <3>10 DEF NumberingInv
  <2>6. CASE GenerateCaseNumberFails(r)
    BY <2>6, NumbersUntouched DEF GenerateCaseNumberFails, NumberingInv, RowsSettled, TypeOK
  <2>7. CASE ReadClock(r)
    <3>1. r \notin cases
      BY <2>7 DEF ReadClock, NumberingInv, RowsSettled
    <3> QED BY <3>1, <2>7, NumbersUntouched DEF ReadClock, NumberingInv, RowsSettled, TypeOK
  <2>8. CASE InsertCase(r)
    BY <2>8, NumbersUntouched DEF InsertCase, NumberingInv, RowsSettled, TypeOK
  <2>9. CASE InsertCaseFails(r)
    BY <2>9, NumbersUntouched DEF InsertCaseFails, NumberingInv, RowsSettled, TypeOK
  <2>10. CASE InsertCaseTimesOut(r)
    BY <2>10, NumbersUntouched DEF InsertCaseTimesOut, NumberingInv, RowsSettled, TypeOK
  <2>11. CASE CommitLate(r)
    BY <2>11, NumbersUntouched DEF CommitLate, NumberingInv, RowsSettled, TypeOK
  <2>12. CASE AppendAudit(r)
    BY <2>12, NumbersUntouched DEF AppendAudit, NumberingInv, RowsSettled, TypeOK
  <2>13. CASE AppendAuditFails(r)
    BY <2>13, NumbersUntouched DEF AppendAuditFails, NumberingInv, RowsSettled, TypeOK
  <2> QED BY <1>3, <2>1, <2>2, <2>3, <2>4, <2>5, <2>6, <2>7, <2>8, <2>9,
             <2>10, <2>11, <2>12, <2>13 DEF Handle
<1>4. CASE UNCHANGED vars
  BY <1>0, <1>4, NumbersUntouched DEF vars, NumberingInv, RowsSettled
<1> QED BY <1>1, <1>2, <1>3, <1>4 DEF Next

\* A serial lies above, and one step above some, of the rows its MAX query saw,
\* in every reachable state.
THEOREM NumberingInvariant == Spec => []NumberingInv
<1>1. Init => NumberingInv BY NumberingInit
<1>2. NumberingInv /\ [Next]_vars => NumberingInv' BY NumberingStep
<1> QED BY <1>1, <1>2, PTL DEF Spec

\* Case numbers are unique as long as the two requests saw each other's rows.
THEOREM NumbersUniqueUnlessConcurrent == Spec => []UniqueNumbers
<1>1. NumberingInv => UniqueNumbers
  <2> SUFFICES ASSUME NumberingInv, NEW c \in cases, NEW d \in cases,
                      c # d, CaseNumber(c) = CaseNumber(d),
                      NumberedOnStoredDay(c), NumberedOnStoredDay(d), seq[c] < SeqModulus
               PROVE  c \notin numberedFrom[d] /\ d \notin numberedFrom[c]
    BY ConstantsAssumption DEF UniqueNumbers, NumberingInv, SerialsPositive, TypeOK
  <2>1. /\ c \in Requests /\ d \in Requests
        /\ date[c] = date[d] /\ body[c].inst = body[d].inst /\ seq[c] = seq[d]
    BY DEF CaseNumber, NumberingInv, TypeOK
  <2>2. RightSix(seq[c]) = seq[c] /\ RightSix(seq[d]) = seq[d]
    BY <2>1, RightSixSmall DEF NumberingInv, SerialsPositive
  <2>3. seq[c] \in Int /\ seq[d] \in Int
    BY <2>1 DEF NumberingInv, TypeOK
  <2> QED BY <2>1, <2>2, <2>3
          DEF NumberingInv, SerialAboveSeen, NumberedOnStoredDay
<1> QED BY <1>1, NumberingInvariant, PTL

\* Serials leave no gap, whatever fails.
THEOREM SerialsLeaveNoGap == Spec => []NoGaps
<1>1. NumberingInv => NoGaps
  BY DEF NumberingInv, TypeOK, SerialFollows, NoGaps
<1> QED BY <1>1, NumberingInvariant, PTL

-----------------------------------------------------------------------------
\* The inductive invariant behind the duplicate window: a handler past its
\* check read the clock (at) when every case it had found was out of the
\* window, and created_at (stamp) is read later.
Past(d) == pc[d] \in {"number", "stamp", "insert", "late", "audit"} \/ d \in cases

Stamped(d) == pc[d] \in {"insert", "late", "audit"} \/ d \in cases

CheckedCases ==
  \A d \in Requests :
    /\ d \in cases => pc[d] \in {"audit", "done"}
    /\ found[d] \subseteq cases
    /\ pc[d] = "idle" => found[d] = {}
    /\ d \notin found[d]
    /\ pc[d] = "evaluate" => d \notin cases
    /\ at[d] <= now

OutOfWindow ==
  \A d \in Requests :
    Past(d) => \A c \in found[d] : SameKey(c, d) => Stored(stamp[c]) <= at[d] - Window

StampAfterCheck == \A d \in Requests : Stamped(d) => at[d] <= stamp[d]

Answered ==
  \A d \in Requests :
    /\ reply[d] = "201" \/ d \in audited \/ pc[d] = "audit" => d \in cases
    /\ reply[d] = "409" => \E c \in cases \ {d} : SameKey(c, d)

WindowInv == TypeOK /\ CheckedCases /\ OutOfWindow /\ StampAfterCheck /\ Answered

\* Before the first request the window invariant holds: nobody is past a check.
LEMMA WindowInit == Init => WindowInv
  BY TypeInit, ConstantsAssumption
     DEF Init, WindowInv, CheckedCases, OutOfWindow, StampAfterCheck, Answered, Past,
         Stamped, Times

\* Every step keeps the window invariant: the check of CheckCaseDuplicate
\* establishes it and no row changes its time afterwards.
LEMMA WindowStep == WindowInv /\ [Next]_vars => WindowInv'
<1> SUFFICES ASSUME WindowInv, [Next]_vars PROVE WindowInv'
  OBVIOUS
<1>0. TypeOK /\ TypeOK'
  BY TypeStep DEF WindowInv
<1> USE <1>0 DEF number, SameKey, WindowInv, CheckedCases, OutOfWindow, StampAfterCheck,
               Answered, Past, Stamped
<1>1. CASE Tick
  BY <1>1 DEF Tick, TypeOK, Times
<1>2. CASE Crash
  BY <1>2 DEF Crash, InFlight, TypeOK, Steps
<1>3. ASSUME NEW r \in Requests, Handle(r) PROVE WindowInv'
  <2> USE DEF TypeOK, Times
  <2>1. CASE QueryDuplicates(r)
    BY <2>1 DEF QueryDuplicates
  <2>2. CASE QueryDuplicatesFails(r)
    BY <2>2 DEF QueryDuplicatesFails
  <2>3. CASE RefuseDuplicate(r)
    <3>1. \E c \in cases \ {r} : SameKey(c, r)
      BY <2>3 DEF RefuseDuplicate, IsDuplicate
    <3>2. /\ UNCHANGED <<now, body, found, number, stamp, cases, audited>>
          /\ pc[r] = "evaluate"
          /\ \A d \in Requests : d # r => pc'[d] = pc[d] /\ reply'[d] = reply[d]
          /\ pc'[r] = "done" /\ reply'[r] = "409"
      BY <2>3 DEF RefuseDuplicate
    <3>3. CheckedCases' /\ OutOfWindow' /\ StampAfterCheck'
      BY <3>2
    <3>4. Answered'
      BY <3>1, <3>2
    <3> QED BY <3>3, <3>4
  <2>4. CASE PassDuplicateCheck(r)
    <3>1. \A c \in found[r] : SameKey(c, r) => Stored(stamp[c]) <= now - Window
      BY <2>4, StoredType, ConstantsAssumption DEF PassDuplicateCheck, IsDuplicate
    <3> QED BY <2>4, <3>1 DEF PassDuplicateCheck
  <2>5. CASE GenerateCaseNumber(r)
    BY <2>5 DEF GenerateCaseNumber
  <2>6. CASE GenerateCaseNumberFails(r)
    BY <2>6 DEF GenerateCaseNumberFails
  <2>7. CASE ReadClock(r)
    BY <2>7 DEF ReadClock
  <2>8. CASE InsertCase(r)
    BY <2>8 DEF InsertCase
  <2>9. CASE InsertCaseFails(r)
    BY <2>9 DEF InsertCaseFails
  <2>10. CASE InsertCaseTimesOut(r)
    BY <2>10 DEF InsertCaseTimesOut
  <2>11. CASE CommitLate(r)
    BY <2>11 DEF CommitLate
  <2>12. CASE AppendAudit(r)
    BY <2>12 DEF AppendAudit
  <2>13. CASE AppendAuditFails(r)
    BY <2>13 DEF AppendAuditFails
  <2> QED BY <1>3, <2>1, <2>2, <2>3, <2>4, <2>5, <2>6, <2>7, <2>8, <2>9,
             <2>10, <2>11, <2>12, <2>13 DEF Handle
<1>4. CASE UNCHANGED vars
  BY <1>4 DEF vars
<1> QED BY <1>1, <1>2, <1>3, <1>4 DEF Next

\* Whoever is past its duplicate check passed it against every row it had found,
\* and no answer is ahead of the table, in every reachable state.
THEOREM WindowInvariant == Spec => []WindowInv
<1>1. Init => WindowInv BY WindowInit
<1>2. WindowInv /\ [Next]_vars => WindowInv' BY WindowStep
<1> QED BY <1>1, <1>2, PTL DEF Spec

\* The window separates a case from every case its check could see, whatever
\* fails and however long the handler takes.
THEOREM WindowSeparatesSeenCases == Spec => []DedupeWindow
<1>1. WindowInv => DedupeWindow
  <2> SUFFICES ASSUME WindowInv, NEW d \in cases, NEW c \in found[d], SameKey(c, d)
               PROVE  stamp[d] - Stored(stamp[c]) >= Window
    BY DEF DedupeWindow
  <2>1. /\ c \in Requests /\ d \in Requests /\ stamp[c] \in Int /\ stamp[d] \in Int
        /\ at[d] \in Int
    BY DEF WindowInv, CheckedCases, TypeOK, Times
  <2>2. Stored(stamp[c]) <= at[d] - Window /\ at[d] <= stamp[d]
    BY <2>1 DEF WindowInv, OutOfWindow, StampAfterCheck, Past, Stamped
  <2> QED BY <2>1, <2>2, StoredType, ConstantsAssumption
<1> QED BY <1>1, WindowInvariant, PTL

\* 201, 409 and the CREATE records say nothing that is not in the table.
THEOREM AnswersTrue == Spec => []AnswersAreTrue
<1>1. WindowInv => AnswersAreTrue
  BY DEF WindowInv, Answered, AnswersAreTrue
<1> QED BY <1>1, WindowInvariant, PTL

-----------------------------------------------------------------------------
\* Without faults a handler that has inserted its row goes on to audit it.
AuditInv ==
  /\ TypeOK
  /\ \A r \in Requests : pc[r] # "late" /\ (r \in cases => pc[r] = "audit" \/ r \in audited)

LEMMA AuditStep ==
  ASSUME Faults = FALSE
  PROVE  AuditInv /\ [Next]_vars => AuditInv'
<1> SUFFICES ASSUME AuditInv, [Next]_vars PROVE AuditInv'
  OBVIOUS
<1>1. TypeOK /\ TypeOK'
  BY TypeStep DEF AuditInv
<1> QED BY <1>1 DEF AuditInv, TypeOK, Next, Handle, vars, number, Tick, Crash, QueryDuplicates,
           QueryDuplicatesFails, RefuseDuplicate, PassDuplicateCheck, GenerateCaseNumber,
           GenerateCaseNumberFails, ReadClock, InsertCase, InsertCaseFails, InsertCaseTimesOut,
           CommitLate, AppendAudit, AppendAuditFails

\* Whenever no handler is running, and no statement fails, every case has its
\* CREATE record, also when requests overlapped.
THEOREM AuditTrailComplete ==
  ASSUME Faults = FALSE
  PROVE  Spec => []AuditComplete
<1>1. Init => AuditInv
  BY TypeInit DEF Init, AuditInv
<1>2. AuditInv => AuditComplete
  BY DEF AuditInv, AuditComplete, InFlight, TypeOK
<1> QED BY <1>1, <1>2, AuditStep, PTL DEF Spec

-----------------------------------------------------------------------------
\* The handler implements the register: requests that do not overlap.

\* The day and the serial of a request are those its MAX query gives now.
NumberIsNext(r, t) ==
  /\ at[r] <= t /\ t <= now
  /\ date[r] = DayOf(t)
  /\ \E m \in Serials(body[r].inst, DayOf(t)) \cup {0} :
       IsCoalescedMax(m, Serials(body[r].inst, DayOf(t))) /\ seq[r] = NextSerial(m)

\* What the handler found is still all there is.
FoundIsAll ==
  \A r \in Requests :
    /\ pc[r] \in {"evaluate", "number", "stamp", "insert"} => found[r] = cases /\ r \notin cases
    /\ pc[r] = "stamp" => \E t \in Times : NumberIsNext(r, t)
    /\ pc[r] = "insert" => \E t \in Times : NumberIsNext(r, t) /\ t <= stamp[r]

Alone == IsFiniteSet(InFlight) /\ \A r, s \in InFlight : r = s

SerialInv ==
  /\ WindowInv
  /\ Alone
  /\ FoundIsAll
  /\ \A r \in Requests : stamp[r] <= now /\ pc[r] # "late"

\* Two requests in flight count as two.
LEMMA AtMostOne ==
  ASSUME NEW S, IsFiniteSet(S), Cardinality(S) <= 1
  PROVE  \A x, y \in S : x = y
<1> SUFFICES ASSUME NEW x \in S, NEW y \in S, x # y PROVE FALSE
  OBVIOUS
<1>1. IsFiniteSet({x}) /\ Cardinality({x}) = 1
  BY FS_Singleton
<1>2. IsFiniteSet({x} \cup {y}) /\ Cardinality({x} \cup {y}) = 2
  <2>1. y \notin {x}
    OBVIOUS
  <2> QED BY <1>1, <2>1, FS_AddElement
<1>3. Cardinality({x} \cup {y}) <= Cardinality(S)
  BY FS_Subset
<1>4. Cardinality(S) \in Nat
  BY FS_CardinalityType
<1> QED BY <1>2, <1>3, <1>4

\* A step brings at most one more request into flight.
LEMMA AloneStep ==
  TypeOK /\ Alone /\ [SerialNext]_vars => Alone'
<1> SUFFICES ASSUME TypeOK, Alone, [SerialNext]_vars PROVE Alone'
  OBVIOUS
<1>1. \E r : InFlight' \subseteq InFlight \cup {r}
  BY DEF TypeOK, InFlight, SerialNext, Next, Handle, vars, Tick, Crash, QueryDuplicates,
     QueryDuplicatesFails, RefuseDuplicate, PassDuplicateCheck, GenerateCaseNumber,
     GenerateCaseNumberFails, ReadClock, InsertCase, InsertCaseFails, InsertCaseTimesOut,
     CommitLate, AppendAudit, AppendAuditFails
<1>2. IsFiniteSet(InFlight')
  BY <1>1, FS_AddElement, FS_Subset DEF Alone
<1>3. CASE UNCHANGED vars
  BY <1>3 DEF vars, Alone, InFlight
<1>4. CASE SerialNext
  BY <1>2, <1>4, AtMostOne DEF SerialNext, Alone
<1> QED BY <1>3, <1>4

\* A step that leaves the table and the numbers alone leaves the next number so.
LEMMA NumberKept ==
  ASSUME NEW r \in Requests, NEW t \in Times, NumberIsNext(r, t), TypeOK, now <= now',
         UNCHANGED <<body, number, cases>>, \A c \in cases : stamp'[c] = stamp[c], now' \in Times
  PROVE  NumberIsNext(r, t)'
<1>1. Serials(body[r].inst, DayOf(t))' = Serials(body[r].inst, DayOf(t))
  BY DEF Serials, number
<1>2. t <= now'
  BY ConstantsAssumption DEF NumberIsNext, TypeOK, Times
<1> QED BY <1>1, <1>2 DEF NumberIsNext, IsCoalescedMax, number

LEMMA SerialStep ==
  ASSUME Faults = FALSE
  PROVE  SerialInv /\ [SerialNext]_vars => SerialInv'
<1> SUFFICES ASSUME SerialInv, [SerialNext]_vars PROVE SerialInv'
  OBVIOUS
<1>0. TypeOK /\ TypeOK' /\ Alone /\ Alone' /\ WindowInv /\ WindowInv' /\ [Next]_vars
  BY TypeStep, WindowStep, AloneStep DEF SerialInv, WindowInv, SerialNext
<1>n. now \in Nat
  BY <1>0, ConstantsAssumption DEF TypeOK, Times
<1> DEFINE Rest == /\ FoundIsAll
                   /\ \A r \in Requests : stamp[r] <= now /\ pc[r] # "late"
<1>r. Rest
  BY DEF SerialInv
\* Steps that leave what the handlers found, the table and the numbers alone.
<1>k. ASSUME UNCHANGED <<body, found, number, cases>>, now <= now', now' \in Times,
             UNCHANGED stamp,
             \A q \in Requests :
               /\ pc'[q] \in {"evaluate", "number"} =>
                    pc[q] \in {"evaluate", "number"}
               /\ pc'[q] = "stamp" => pc[q] = "stamp"
               /\ pc'[q] = "insert" => pc[q] = "insert"
      PROVE  FoundIsAll'
  <2>1. ASSUME NEW q \in Requests, NEW t \in Times, NumberIsNext(q, t) PROVE NumberIsNext(q, t)'
    BY <1>0, <1>k, <2>1, NumberKept
  <2> QED BY <1>0, <1>k, <1>r, <2>1 DEF FoundIsAll
<1>1. CASE Tick
  BY <1>0, <1>1, <1>k, <1>r, <1>n, ConstantsAssumption DEF Tick, SerialInv, TypeOK, Times
<1>2. CASE UNCHANGED vars
  BY <1>0, <1>2, <1>k, <1>r, <1>n, ConstantsAssumption DEF vars, number, SerialInv, TypeOK, Times
<1>3. ASSUME NEW r \in Requests, Handle(r) PROVE SerialInv'
  <2>a. \A q \in InFlight : r \in InFlight => q = r
    BY <1>0 DEF Alone
  <2>b. \A q \in InFlight' : r \in InFlight' => q = r
    BY <1>0 DEF Alone
  <2>u. UNCHANGED <<now, body>> /\ \A q \in Requests \ {r} : pc'[q] = pc[q] /\ stamp'[q] = stamp[q]
    BY <1>0, <1>3 DEF TypeOK, number, Handle, QueryDuplicates, QueryDuplicatesFails, RefuseDuplicate,
       PassDuplicateCheck, GenerateCaseNumber, GenerateCaseNumberFails, ReadClock, InsertCase,
       InsertCaseFails, InsertCaseTimesOut, CommitLate, AppendAudit, AppendAuditFails
  <2>s. (\A q \in Requests : stamp[q] <= now /\ pc[q] # "late")'
    BY <1>0, <1>3, <1>r, <1>n, <2>u DEF TypeOK, Handle, QueryDuplicates,
       QueryDuplicatesFails, RefuseDuplicate, PassDuplicateCheck, GenerateCaseNumber,
       GenerateCaseNumberFails, ReadClock, InsertCase, InsertCaseFails, InsertCaseTimesOut,
       CommitLate, AppendAudit, AppendAuditFails
  <2>1. CASE QueryDuplicates(r)
    <3>1. r \in InFlight' /\ pc'[r] = "evaluate" /\ found'[r] = cases /\ cases' = cases
      BY <1>0, <1>n, <2>1 DEF QueryDuplicates, InFlight, TypeOK
    <3>2. r \notin cases
      BY <1>0, <2>1 DEF QueryDuplicates, WindowInv, CheckedCases
    <3>3. \A q \in Requests : q # r => pc'[q] \in {"idle", "done", "late"}
      BY <2>b, <3>1 DEF InFlight
    <3>4. FoundIsAll'
      BY <3>1, <3>2, <3>3 DEF FoundIsAll
    <3> QED BY <1>0, <2>s, <3>4 DEF SerialInv
  <2>2. CASE PassDuplicateCheck(r)
    <3>1. r \in InFlight' /\ pc'[r] = "number" /\ pc[r] = "evaluate" /\ UNCHANGED <<found, cases>>
      BY <1>0, <2>2 DEF PassDuplicateCheck, InFlight, TypeOK
    <3>2. \A q \in Requests : q # r => pc'[q] \in {"idle", "done", "late"}
      BY <2>b, <3>1 DEF InFlight
    <3>3. FoundIsAll'
      BY <1>r, <3>1, <3>2 DEF FoundIsAll
    <3> QED BY <1>0, <2>s, <3>3 DEF SerialInv
  <2>3. CASE GenerateCaseNumber(r)
    <3>1. r \in InFlight' /\ pc'[r] = "stamp" /\ pc[r] = "number"
          /\ UNCHANGED <<found, cases, stamp, at>>
      BY <1>0, <2>3 DEF GenerateCaseNumber, InFlight, TypeOK
    <3>2. \A q \in Requests : q # r => pc'[q] \in {"idle", "done", "late"}
      BY <2>b, <3>1 DEF InFlight
    <3>3. r \notin cases
      BY <1>r, <3>1 DEF FoundIsAll
    <3>4. PICK t \in Times :
            /\ at[r] <= t /\ t <= now
            /\ date' = [date EXCEPT ![r] = DayOf(t)]
            /\ \E m \in Serials(body[r].inst, DayOf(t)) \cup {0} :
                 /\ IsCoalescedMax(m, Serials(body[r].inst, DayOf(t)))
                 /\ seq' = [seq EXCEPT ![r] = NextSerial(m)]
      BY <2>3 DEF GenerateCaseNumber
    <3>5. Serials(body[r].inst, DayOf(t))' = Serials(body[r].inst, DayOf(t))
      BY <1>0, <2>u, <3>1, <3>3, <3>4 DEF Serials, TypeOK
    <3>6. NumberIsNext(r, t)'
      BY <1>0, <2>u, <3>1, <3>4, <3>5 DEF NumberIsNext, IsCoalescedMax, TypeOK
    <3>7. FoundIsAll'
      BY <1>r, <3>1, <3>2, <3>6 DEF FoundIsAll
    <3> QED BY <1>0, <2>s, <3>7 DEF SerialInv
  <2>4. CASE ReadClock(r)
    <3>1. r \in InFlight' /\ pc'[r] = "insert" /\ pc[r] = "stamp"
          /\ UNCHANGED <<now, body, found, cases, number>> /\ stamp'[r] = now
      BY <1>0, <2>4 DEF ReadClock, InFlight, TypeOK
    <3>2. \A q \in Requests : q # r => pc'[q] \in {"idle", "done", "late"}
      BY <2>b, <3>1 DEF InFlight
    <3>3. r \notin cases
      BY <1>r, <3>1 DEF FoundIsAll
    <3>4. PICK t \in Times : NumberIsNext(r, t)
      BY <1>r, <3>1 DEF FoundIsAll
    <3>5. \A c \in cases : stamp'[c] = stamp[c]
      BY <1>0, <2>u, <3>3 DEF TypeOK
    <3>6. NumberIsNext(r, t)' /\ t <= stamp'[r]
      <4>1. now <= now' /\ now' \in Times
        BY <1>0, <1>n, <3>1 DEF TypeOK
      <4> QED BY <1>0, <3>1, <3>4, <3>5, <4>1, NumberKept DEF NumberIsNext
    <3>7. FoundIsAll'
      BY <1>r, <3>1, <3>2, <3>6 DEF FoundIsAll
    <3> QED BY <1>0, <2>s, <3>7 DEF SerialInv
  <2>5. CASE InsertCase(r)
    <3>1. r \in InFlight /\ pc'[r] = "audit"
      BY <1>0, <2>5 DEF InsertCase, InFlight, TypeOK
    <3>2. \A q \in Requests : q # r => pc'[q] \in {"idle", "done", "late"}
      BY <2>a, <2>u, <3>1 DEF InFlight
    <3>3. FoundIsAll'
      BY <3>1, <3>2 DEF FoundIsAll
    <3> QED BY <1>0, <2>s, <3>3 DEF SerialInv
  <2>6. CASE RefuseDuplicate(r) \/ AppendAudit(r)
    <3>1. UNCHANGED <<now, body, found, number, cases, stamp>> /\ pc'[r] = "done"
      BY <1>0, <2>6 DEF RefuseDuplicate, AppendAudit, TypeOK
    <3>2. FoundIsAll'
      <4>1. now <= now' /\ now' \in Times
        BY <1>0, <1>n, <3>1 DEF TypeOK
      <4>2. \A q \in Requests : pc'[q] \in {"done", pc[q]}
        BY <2>u, <3>1
      <4> QED BY <1>k, <3>1, <4>1, <4>2
    <3> QED BY <1>0, <2>s, <3>2 DEF SerialInv
  <2> QED BY <1>3, <1>r, <2>1, <2>2, <2>3, <2>4, <2>5, <2>6
          DEF Handle, QueryDuplicatesFails, GenerateCaseNumberFails, InsertCaseFails,
              InsertCaseTimesOut, AppendAuditFails, CommitLate
<1> QED BY <1>0, <1>1, <1>2, <1>3 DEF Next, Crash

-----------------------------------------------------------------------------
LEMMA SerialInit == Init => SerialInv
<1> SUFFICES ASSUME Init PROVE SerialInv
  OBVIOUS
<1>1. InFlight = {}
  BY DEF Init, InFlight
<1> QED BY <1>1, WindowInit, FS_EmptySet DEF Init, SerialInv, Alone, FoundIsAll

\* The row of a case as an entry of the register.
Entry(c) ==
  [id |-> c, inst |-> body[c].inst, key |-> body[c].key, date |-> date[c], seq |-> seq[c],
   created |-> Stored(stamp[c])]

Entries == {Entry(c) : c \in cases}

\* The serials the register counts are those of the MAX query.
LEMMA TakenIsSerials ==
  ASSUME NEW i, NEW d
  PROVE  Register!Taken(i, d) = Serials(i, d)
<1> DEFINE Counted == {e \in Entries : e.inst = i /\ DayOf(e.created) = d}
<1>1. Register!Taken(i, d) = {e.seq % SeqModulus : e \in Counted}
  BY DEF Register!Taken, Register!DayOf, DayOf, Entries, Entry
<1>2. ASSUME NEW c \in cases, body[c].inst = i, DayOf(Stored(stamp[c])) = d
      PROVE  Entry(c) \in Counted /\ Entry(c).seq = seq[c]
  BY <1>2 DEF Entries, Entry
<1>3. ASSUME NEW e \in Counted
      PROVE  \E c \in cases : body[c].inst = i /\ DayOf(Stored(stamp[c])) = d /\ e.seq = seq[c]
  BY DEF Entries, Entry
<1> HIDE DEF Counted
<1> QED BY <1>1, <1>2, <1>3 DEF Serials, RightSix

\* Inserting the row is the register's step.
LEMMA InsertCreates ==
  ASSUME SerialInv, NEW r \in Requests, InsertCase(r),
         NEW i, NEW k, body[r].inst = i, body[r].key = k
  PROVE  Register!Create(r, i, k)
<1>0. TypeOK /\ WindowInv /\ FoundIsAll /\ pc[r] = "insert" /\ stamp[r] <= now
  BY DEF SerialInv, WindowInv, InsertCase
<1>1. r \notin cases /\ found[r] = cases /\ cases' = cases \cup {r}
      /\ UNCHANGED <<now, body, date, seq, stamp>>
  BY <1>0 DEF FoundIsAll, InsertCase, number
<1>2. PICK t \in Times : NumberIsNext(r, t) /\ t <= stamp[r]
  BY <1>0 DEF FoundIsAll
<1>3. t \in 0 .. now /\ stamp[r] \in t .. now
  BY <1>0, <1>2, ConstantsAssumption DEF NumberIsNext, TypeOK, Times
<1>4. \A c \in cases :
        body[c].inst = body[r].inst /\ body[c].key = body[r].key
          => stamp[r] - Stored(stamp[c]) >= Window
  <2> SUFFICES ASSUME NEW c \in cases, body[c].inst = body[r].inst, body[c].key = body[r].key
               PROVE  stamp[r] - Stored(stamp[c]) >= Window
    OBVIOUS
  <2>1. body[c] = body[r]
    BY <1>0 DEF TypeOK
  <2>2. Stored(stamp[c]) <= at[r] - Window /\ at[r] <= stamp[r]
    BY <1>0, <1>1, <2>1 DEF WindowInv, OutOfWindow, StampAfterCheck, Past, Stamped, SameKey
  <2>3. stamp[c] \in Int /\ stamp[r] \in Int /\ at[r] \in Int
    BY <1>0 DEF TypeOK, Times
  <2> QED BY <2>2, <2>3, StoredType, ConstantsAssumption
<1>5. PICK m \in Serials(body[r].inst, DayOf(t)) \cup {0} :
        IsCoalescedMax(m, Serials(body[r].inst, DayOf(t))) /\ seq[r] = m + 1
  BY <1>2 DEF NumberIsNext, NextSerial
<1>6. date[r] = DayOf(t)
  BY <1>2 DEF NumberIsNext
<1> DEFINE reg == {[id |-> c, inst |-> body[c].inst, key |-> body[c].key, date |-> date[c],
                    seq |-> seq[c], created |-> Stored(stamp[c])] : c \in cases}
<1>7. \A e \in reg : e.id # r
  BY <1>1
<1>8. \A e \in reg : e.inst = body[r].inst /\ e.key = body[r].key
                       => stamp[r] - e.created >= Window
  BY <1>4
<1>9. reg' = reg \cup {[id |-> r, inst |-> body[r].inst, key |-> body[r].key,
                        date |-> DayOf(t), seq |-> m + 1, created |-> Stored(stamp[r])]}
  BY <1>1, <1>5, <1>6
<1> QED BY <1>1, <1>3, <1>5, <1>7, <1>8, <1>9, TakenIsSerials
        DEF Register!Create, Register!DayOf, Register!Stored, DayOf, Stored, IsCoalescedMax

\* Every other step but the passing of time leaves the register as it was.
LEMMA RegisterKept ==
  ASSUME UNCHANGED <<now, cases>>,
         \A c \in cases : /\ body'[c] = body[c] /\ date'[c] = date[c] /\ seq'[c] = seq[c]
                          /\ stamp'[c] = stamp[c]
  PROVE  UNCHANGED Register!vars
  BY DEF Register!vars

LEMMA RegisterStep ==
  ASSUME Faults = FALSE
  PROVE  SerialInv /\ [SerialNext]_vars => [Register!Next]_(Register!vars)
<1> SUFFICES ASSUME SerialInv, [SerialNext]_vars PROVE [Register!Next]_(Register!vars)
  OBVIOUS
<1>0. TypeOK /\ FoundIsAll /\ CheckedCases
  BY DEF SerialInv, WindowInv
<1>1. CASE UNCHANGED vars
  BY <1>1, RegisterKept DEF vars
<1>2. CASE Tick
  BY <1>2 DEF Tick, number, Register!Next, Register!Pass
<1>3. ASSUME NEW r \in Requests, Handle(r) PROVE [Register!Next]_(Register!vars)
  <2>1. CASE InsertCase(r)
    <3>1. PICK i \in Institutions, k \in Keys : body[r].inst = i /\ body[r].key = k
      BY <1>0 DEF TypeOK
    <3>2. Register!Create(r, i, k)
      BY <2>1, <3>1, InsertCreates
    <3> QED BY <3>2 DEF Register!Next
  <2>2. CASE GenerateCaseNumber(r) \/ ReadClock(r)
    <3>1. r \notin cases
      BY <1>0, <2>2 DEF FoundIsAll, CheckedCases, GenerateCaseNumber, ReadClock
    <3>2. /\ UNCHANGED <<now, body, cases>>
          /\ \A c \in Requests \ {r} : date'[c] = date[c] /\ seq'[c] = seq[c] /\ stamp'[c] = stamp[c]
      BY <1>0, <2>2 DEF GenerateCaseNumber, ReadClock, number, TypeOK
    <3> QED BY <1>0, <3>1, <3>2, RegisterKept DEF TypeOK
  <2>3. CASE QueryDuplicates(r) \/ RefuseDuplicate(r) \/ PassDuplicateCheck(r) \/ AppendAudit(r)
    BY <2>3, RegisterKept
       DEF QueryDuplicates, RefuseDuplicate, PassDuplicateCheck, AppendAudit, number
  <2> QED BY <1>3, <2>1, <2>2, <2>3
          DEF Handle, SerialInv, QueryDuplicatesFails, GenerateCaseNumberFails, InsertCaseFails,
              InsertCaseTimesOut, AppendAuditFails, CommitLate
<1> QED BY <1>1, <1>2, <1>3 DEF SerialNext, Next, Crash

\* One request at a time and without faults, caseLedgerCreateCase does in its
\* several statements what the register does in one step: no duplicate within
\* the window, and the next free serial of the institution and day.
THEOREM HandlerImplementsRegister ==
  ASSUME Faults = FALSE
  PROVE  SerialSpec => ImplementsRegister
<1>1. Init => Register!Init
  BY DEF Init, Register!Init
<1> QED BY <1>1, SerialInit, SerialStep, RegisterStep, PTL
        DEF SerialSpec, ImplementsRegister, Register!Spec
=============================================================================
