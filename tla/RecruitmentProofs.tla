-------------------------- MODULE RecruitmentProofs -------------------------
(***************************************************************************)
(* Proofs about the score of a candidate, for every candidate and search,  *)
(* and about creation, import and search of candidates, for any number of  *)
(* calls, institutions and persons and every length of an import.          *)
(***************************************************************************)
EXTENDS Recruitment, FiniteSetTheorems, TLAPS

-----------------------------------------------------------------------------
\* CalculateMatchScore

USE DEF ScoreSkillMax, ScoreExpThreshold, ScoreExpMax, ScoreEduMax

\* A score is a sum of some of 50, 30 and 20, hence between 0 and 100.
THEOREM ScoreInRange ==
  ASSUME NEW years \in Int, NEW education, NEW skills, NEW skill, NEW asked
  PROVE  /\ Score(years, education, skills, skill, asked) \in {0, 20, 30, 50, 70, 80, 100}
         /\ Score(years, education, skills, skill, asked) \in 0 .. 100
  BY DEF Score

\* The reasons given with a score add up to it (AMB-05 of design.md).
THEOREM ScoreIsExplained ==
  ASSUME NEW years \in Int, NEW education, NEW skills, NEW skill, NEW asked
  PROVE  Score(years, education, skills, skill, asked)
           = Explained(Reasons(years, education, skills, skill, asked))
<1> DEFINE reasons == Reasons(years, education, skills, skill, asked)
<1>1. "skill matched" \in reasons <=> SkillMatches(skills, skill)
  BY DEF Reasons, SkillMatches
<1>2. "experience met" \in reasons <=> years >= 3
  BY DEF Reasons
<1>3. "education matched" \in reasons <=> EducationMatches(education, asked)
  BY DEF Reasons, EducationMatches
<1> HIDE DEF reasons
<1>4. Score(years, education, skills, skill, asked) = Explained(reasons)
  BY <1>1, <1>2, <1>3 DEF Score, Explained
<1> QED BY <1>4 DEF reasons

\* What matches more scores no less: more years, more skills, and an education
\* that contains more.
THEOREM ScoreMonotone ==
  ASSUME NEW years \in Int, NEW more \in Int, years <= more,
         NEW education, NEW higher, education \subseteq higher,
         NEW skills, NEW others, skills \subseteq others, NEW skill, NEW asked
  PROVE  Score(years, education, skills, skill, asked)
           <= Score(more, higher, others, skill, asked)
<1>1. SkillMatches(skills, skill) => SkillMatches(others, skill)
  BY DEF SkillMatches
<1>2. EducationMatches(education, asked) => EducationMatches(higher, asked)
  BY DEF EducationMatches
<1>3. years >= 3 => more >= 3
  OBVIOUS
<1> QED BY <1>1, <1>2, <1>3 DEF Score

-----------------------------------------------------------------------------
\* Creation, import and search

Outcomes == {"created", "duplicate", "error"}

\* The types, with what TypeOK leaves out: the bounds of a body, and which
\* handler stands where.
TypeInv ==
  /\ inst \in [Calls -> Institutions]
  /\ people \in [Creates \cup Imports -> Bodies]
  /\ target \in [Searches -> Targets]
  /\ pc \in [Calls -> {"idle", "query", "insert", "merge", "audit", "done"}]
  /\ \A c \in Calls : pc[c] = "audit" => c \in Imports
  /\ at \in [Imports -> 1 .. MaxRows + 1]
  /\ outcome \in [Imports -> Seq(Outcomes)]
  /\ \A j \in Imports : Len(outcome[j]) = at[j] - 1
  /\ expired \subseteq Imports
  /\ rows \subseteq Candidates
  /\ DOMAIN profile = Candidates
  /\ \A b \in rows :
       /\ profile[b].experienceYears \in {p.experienceYears : p \in Persons}
       /\ profile[b].skills \subseteq UNION {p.skills : p \in Persons}
  /\ late \subseteq Imports \X (1 .. MaxRows)
  /\ trail \in [Records -> Nat]
  /\ reply \in [Calls -> {"none", "200", "201", "500"}]
  /\ DOMAIN shown = Searches
  /\ delayed \subseteq rows

\* Where an import stands in its body.
LoopInv ==
  \A j \in Imports :
    /\ at[j] <= Len(people[j]) + 1
    /\ pc[j] = "insert" => at[j] <= Len(people[j])
    /\ pc[j] = "audit" \/ reply[j] = "200" => at[j] = Len(people[j]) + 1
    /\ pc[j] = "audit" => Count(j, "created") > 0
    /\ reply[j] # "none" => pc[j] = "done"

\* An INSERT that nobody waits for is of a candidate counted as an error, or of
\* the one its import was at when its process died.
LeftBehind(b) ==
  /\ b[1] \in Imports /\ b[2] <= Len(people[b[1]])
  /\ \/ b[2] < at[b[1]] /\ outcome[b[1]][b[2]] = "error"
     \/ b[2] = at[b[1]] /\ pc[b[1]] = "done"

\* The table holds what was counted as created, and what was inserted late.
TableInv ==
  /\ late \cap rows = {}
  /\ \A b \in late \cup delayed : LeftBehind(b)
  /\ \A j \in Imports : \A i \in 1 .. MaxRows :
       <<j, i>> \in rows \ delayed <=> i < at[j] /\ outcome[j][i] = "created"

\* A record is of a handler that has ended, alone of it and there once, and counts
\* what the answer counts.
TrailInv ==
  \A rec \in Audited :
    /\ trail[rec] = 1
    /\ rec.by \in Calls /\ pc[rec.by] = "done"
    /\ \A other \in Audited : other.by = rec.by => other = rec
    /\ rec.action = "BULK_IMPORT" => rec.by \in Imports /\ rec.created = Count(rec.by, "created")

RecruitmentInv == TypeInv /\ LoopInv /\ TableInv /\ TrailInv /\ SearchExplained

\* The years of a stored profile are those of some person, hence an integer.
LEMMA YearsAreInt ==
  ASSUME TypeInv, NEW b \in rows
  PROVE  profile[b].experienceYears \in Int
<1>1. profile[b].experienceYears \in {p.experienceYears : p \in Persons}
  BY DEF TypeInv
<1>2. PICK p \in Persons : profile[b].experienceYears = p.experienceYears
  BY <1>1
<1>3. p.experienceYears \in Int
  BY ConstantsAssumption
<1> QED BY <1>2, <1>3

\* A body is a sequence of at least one person, and not more than MaxRows.
LEMMA BodyType ==
  ASSUME TypeInv, NEW c \in Creates \cup Imports
  PROVE  /\ people[c] \in Seq(Persons) /\ Len(people[c]) \in 1 .. MaxRows
         /\ \A i \in 1 .. Len(people[c]) : people[c][i] \in Persons
<1>1. PICK n \in 1 .. MaxRows : people[c] \in [1 .. n -> Persons]
  <2>1. people[c] \in Bodies
    BY DEF TypeInv
  <2> QED BY <2>1 DEF Bodies
<1>2. n \in Nat
  BY ConstantsAssumption
<1>3. people[c] \in Seq(Persons)
  BY <1>1, <1>2
<1>4. Len(people[c]) = n
  BY <1>1, <1>2, <1>3
<1> QED BY <1>1, <1>3, <1>4

\* A candidate of a body is in the table as its body has it.
LEMMA InsertedKeeps ==
  ASSUME TypeInv, NEW b \in Candidates, b[2] <= Len(people[b[1]]), Inserted(b)
  PROVE  /\ rows' = rows \cup {b} /\ rows' \subseteq Candidates
         /\ DOMAIN profile' = Candidates
         /\ \A d \in rows' :
              /\ profile'[d].experienceYears \in {p.experienceYears : p \in Persons}
              /\ profile'[d].skills \subseteq UNION {p.skills : p \in Persons}
<1>1. b[1] \in Creates \cup Imports /\ b[2] \in 1 .. Len(people[b[1]])
  BY BodyType DEF Candidates
<1>2. Body(b) \in Persons
  BY <1>1, BodyType DEF Body
<1>3. /\ Profile(b).experienceYears \in {p.experienceYears : p \in Persons}
      /\ Profile(b).skills \subseteq UNION {p.skills : p \in Persons}
  BY <1>2 DEF Profile
<1> QED BY <1>3 DEF Inserted, TypeInv

\* One more candidate is accounted for.
LEMMA RecordKeeps ==
  ASSUME TypeInv, NEW j \in Imports, NEW what \in Outcomes, Record(j, what),
         at[j] <= Len(people[j])
  PROVE  /\ at[j] \in 1 .. MaxRows /\ at'[j] = at[j] + 1 /\ pc'[j] = "query"
         /\ at' \in [Imports -> 1 .. MaxRows + 1]
         /\ outcome' \in [Imports -> Seq(Outcomes)]
         /\ \A i \in Imports : Len(outcome'[i]) = at'[i] - 1
         /\ outcome'[j][at[j]] = what
         /\ \A i \in 1 .. at[j] - 1 : outcome'[j][i] = outcome[j][i]
         /\ \A k \in Imports \ {j} : at'[k] = at[k] /\ outcome'[k] = outcome[k]
         /\ \A c \in Calls \ {j} : pc'[c] = pc[c]
<1>1. Len(people[j]) \in 1 .. MaxRows
  BY BodyType
<1>2. at[j] \in 1 .. MaxRows /\ MaxRows \in Nat
  BY <1>1, ConstantsAssumption DEF TypeInv
<1>3. at'[j] = at[j] + 1 /\ at' \in [Imports -> 1 .. MaxRows + 1]
  BY <1>2 DEF Record, TypeInv
<1>4. outcome[j] \in Seq(Outcomes) /\ Len(outcome[j]) = at[j] - 1
  BY DEF TypeInv
<1>5. /\ outcome' \in [Imports -> Seq(Outcomes)]
      /\ outcome'[j] = Append(outcome[j], what)
      /\ \A k \in Imports \ {j} : outcome'[k] = outcome[k]
  BY <1>4 DEF Record, TypeInv
<1>6. /\ Len(outcome'[j]) = at[j]
      /\ outcome'[j][at[j]] = what
      /\ \A i \in 1 .. at[j] - 1 : outcome'[j][i] = outcome[j][i]
  BY <1>2, <1>4, <1>5
<1>7. pc'[j] = "query" /\ \A c \in Calls \ {j} : pc'[c] = pc[c]
  BY DEF Record, Goto, TypeInv, Calls
<1>8. \A k \in Imports \ {j} : at'[k] = at[k]
  BY DEF Record, TypeInv
<1>9. \A i \in Imports : Len(outcome'[i]) = at'[i] - 1
  <2> TAKE i \in Imports
  <2>1. CASE i = j
    BY <1>2, <1>3, <1>6, <2>1
  <2>2. CASE i # j
    BY <1>5, <1>8, <2>2 DEF TypeInv
  <2> QED BY <2>1, <2>2
<1> QED BY <1>2, <1>3, <1>5, <1>6, <1>7, <1>8, <1>9

\* What a count depends on.
LEMMA CountKept ==
  ASSUME NEW j, outcome'[j] = outcome[j], NEW what PROVE Count(j, what)' = Count(j, what)
  BY DEF Count

\* A handler that has ended stays so, with what it counted.
EndedStay ==
  /\ \A c \in Calls : pc[c] = "done" => pc'[c] = "done"
  /\ \A j \in Imports : pc[j] = "done" => at'[j] = at[j] /\ outcome'[j] = outcome[j]

\* A step that appends nothing to the trail.
LEMMA TrailKept ==
  ASSUME TypeInv, TrailInv, trail' = trail, EndedStay
  PROVE  TrailInv'
<1>1. Audited' = Audited
  BY DEF Audited
<1> SUFFICES ASSUME NEW rec \in Audited
             PROVE  /\ trail[rec] = 1
                    /\ rec.by \in Calls /\ pc'[rec.by] = "done"
                    /\ \A other \in Audited : other.by = rec.by => other = rec
                    /\ rec.action = "BULK_IMPORT" =>
                         rec.by \in Imports /\ rec.created = Count(rec.by, "created")'
  BY <1>1 DEF TrailInv
<1>2. rec.action = "BULK_IMPORT" => Count(rec.by, "created")' = Count(rec.by, "created")
  <2> HAVE rec.action = "BULK_IMPORT"
  <2>1. rec.by \in Imports /\ pc[rec.by] = "done"
    BY DEF TrailInv
  <2> QED BY <2>1, CountKept DEF EndedStay
<1> QED BY <1>2 DEF TrailInv, EndedStay

\* A step that appends the record of a handler that ends with it.
LEMMA TrailGrows ==
  ASSUME TypeInv, TrailInv, UNCHANGED outcome, NEW c \in Calls,
         pc[c] # "done", pc'[c] = "done", \A d \in Calls : pc[d] = "done" => pc'[d] = "done",
         NEW rec \in Records, AppendAudit(rec), rec.by = c,
         rec.action = "BULK_IMPORT" => c \in Imports /\ rec.created = Count(c, "created")
  PROVE  TrailInv' /\ trail' \in [Records -> Nat]
<1>1. \A other \in Audited : other.by # c
  BY DEF TrailInv
<1>2. trail[rec] = 0
  BY <1>1 DEF TypeInv, Audited
<1>3. /\ trail' \in [Records -> Nat] /\ trail'[rec] = 1
      /\ \A r \in Records \ {rec} : trail'[r] = trail[r]
  BY <1>2 DEF AppendAudit, TypeInv
<1>4. Audited' = Audited \cup {rec}
  BY <1>3 DEF Audited
<1>5. \A d : Count(d, "created")' = Count(d, "created")
  BY DEF Count
<1>6. \A r \in Audited' : trail'[r] = 1 /\ r.by \in Calls /\ pc'[r.by] = "done"
  BY <1>3, <1>4 DEF TrailInv, Audited
<1>7. \A r, other \in Audited' : other.by = r.by => other = r
  BY <1>1, <1>4 DEF TrailInv
<1>8. \A r \in Audited' :
        r.action = "BULK_IMPORT" => r.by \in Imports /\ r.created = Count(r.by, "created")
  BY <1>4 DEF TrailInv
<1> QED BY <1>3, <1>5, <1>6, <1>7, <1>8 DEF TrailInv

LEMMA SearchKept ==
  ASSUME SearchExplained, UNCHANGED <<shown, inst>>, rows \subseteq rows'
  PROVE  SearchExplained'
  BY DEF SearchExplained

\* A step that leaves the table and the loops alone.
LEMMA TableKept ==
  ASSUME TypeInv, TableInv, UNCHANGED <<people, rows, late, delayed, at, outcome>>, EndedStay
  PROVE  TableInv'
<1>1. \A b : LeftBehind(b) => LeftBehind(b)'
  BY DEF LeftBehind, EndedStay, Calls
<1> QED BY <1>1 DEF TableInv

\* A candidate that is counted otherwise than as created; its INSERT may be left
\* behind.
LEMMA TableSkips ==
  ASSUME TypeInv, TableInv, NEW j \in Imports, pc[j] # "done", at[j] <= Len(people[j]),
         NEW what \in {"duplicate", "error"}, Record(j, what),
         UNCHANGED <<people, rows, delayed>>,
         late' = late \/ (what = "error" /\ late' = late \cup {Current(j)})
  PROVE  TableInv'
<1>1. /\ at[j] \in 1 .. MaxRows /\ at'[j] = at[j] + 1
      /\ outcome'[j][at[j]] = what
      /\ \A i \in 1 .. at[j] - 1 : outcome'[j][i] = outcome[j][i]
      /\ \A k \in Imports \ {j} : at'[k] = at[k] /\ outcome'[k] = outcome[k] /\ pc'[k] = pc[k]
  BY RecordKeeps DEF Outcomes, Calls
<1>2. Current(j) \notin rows
  <2>1. Current(j) \notin delayed
    BY <1>1 DEF TableInv, LeftBehind, Current
  <2>2. Current(j) \notin rows \ delayed
    BY <1>1 DEF TableInv, Current
  <2> QED BY <2>1, <2>2
<1>3. late' \cap rows = {}
  BY <1>2 DEF TableInv
<1>4. ASSUME NEW b \in late \cup delayed PROVE LeftBehind(b)'
  <2>1. LeftBehind(b) /\ b \in Imports \X (1 .. MaxRows)
    BY <1>4 DEF TableInv, LeftBehind, TypeInv, Candidates
  <2>2. CASE b[1] = j
    <3>1. b[2] < at[j] /\ b[2] \in 1 .. at[j] - 1 /\ outcome[j][b[2]] = "error"
      BY <1>1, <2>1, <2>2 DEF LeftBehind
    <3> QED BY <1>1, <2>1, <2>2, <3>1 DEF LeftBehind
  <2>3. CASE b[1] # j
    BY <1>1, <2>1, <2>3 DEF LeftBehind
  <2> QED BY <2>2, <2>3
<1>5. ASSUME NEW b, b = Current(j), what = "error" PROVE LeftBehind(b)'
  <2>1. b[1] = j /\ b[2] = at[j]
    BY <1>5 DEF Current
  <2> QED BY <1>1, <1>5, <2>1 DEF LeftBehind
<1>6. ASSUME NEW k \in Imports, NEW i \in 1 .. MaxRows
      PROVE  <<k, i>> \in rows \ delayed <=> i < at'[k] /\ outcome'[k][i] = "created"
  <2>1. <<k, i>> \in rows \ delayed <=> i < at[k] /\ outcome[k][i] = "created"
    BY DEF TableInv
  <2>2. CASE k = j /\ i < at[j]
    <3>1. i \in 1 .. at[j] - 1 /\ i < at'[j]
      BY <1>1, <2>2
    <3> QED BY <1>1, <2>1, <2>2, <3>1
  <2>3. CASE k = j /\ ~ (i < at[j])
    BY <1>1, <2>1, <2>3
  <2>4. CASE k # j
    BY <1>1, <2>1, <2>4
  <2> QED BY <2>2, <2>3, <2>4
<1> QED BY <1>3, <1>4, <1>5, <1>6 DEF TableInv

\* A candidate that is inserted and counted as created.
LEMMA TableGrows ==
  ASSUME TypeInv, TableInv, NEW j \in Imports, pc[j] # "done", at[j] <= Len(people[j]),
         Record(j, "created"), rows' = rows \cup {Current(j)},
         UNCHANGED <<people, late, delayed>>
  PROVE  TableInv'
<1>1. /\ at[j] \in 1 .. MaxRows /\ at'[j] = at[j] + 1
      /\ outcome'[j][at[j]] = "created"
      /\ \A i \in 1 .. at[j] - 1 : outcome'[j][i] = outcome[j][i]
      /\ \A k \in Imports \ {j} : at'[k] = at[k] /\ outcome'[k] = outcome[k] /\ pc'[k] = pc[k]
  BY RecordKeeps DEF Outcomes, Calls
<1>2. Current(j) \notin late \cup delayed
  BY <1>1 DEF TableInv, LeftBehind, Current
<1>3. late \cap rows' = {}
  BY <1>2 DEF TableInv
<1>4. ASSUME NEW b \in late \cup delayed PROVE LeftBehind(b)'
  <2>1. LeftBehind(b) /\ b \in Imports \X (1 .. MaxRows)
    BY <1>4 DEF TableInv, LeftBehind, TypeInv, Candidates
  <2>2. CASE b[1] = j
    <3>1. b[2] < at[j] /\ b[2] \in 1 .. at[j] - 1 /\ outcome[j][b[2]] = "error"
      BY <1>1, <2>1, <2>2 DEF LeftBehind
    <3> QED BY <1>1, <2>1, <2>2, <3>1 DEF LeftBehind
  <2>3. CASE b[1] # j
    BY <1>1, <2>1, <2>3 DEF LeftBehind
  <2> QED BY <2>2, <2>3
<1>5. ASSUME NEW k \in Imports, NEW i \in 1 .. MaxRows
      PROVE  <<k, i>> \in rows' \ delayed <=> i < at'[k] /\ outcome'[k][i] = "created"
  <2>1. <<k, i>> \in rows \ delayed <=> i < at[k] /\ outcome[k][i] = "created"
    BY DEF TableInv
  <2>2. <<k, i>> = Current(j) <=> k = j /\ i = at[j]
    BY DEF Current
  <2>3. CASE k = j /\ i < at[j]
    <3>1. i \in 1 .. at[j] - 1 /\ i < at'[j] /\ i # at[j]
      BY <1>1, <2>3
    <3> QED BY <1>1, <2>1, <2>2, <2>3, <3>1
  <2>4. CASE k = j /\ i = at[j]
    BY <1>1, <1>2, <2>2, <2>4
  <2>5. CASE k = j /\ i > at[j]
    <3>1. ~ (i < at'[j]) /\ ~ (i < at[j]) /\ i # at[j]
      BY <1>1, <2>5
    <3> QED BY <2>1, <2>2, <2>5, <3>1
  <2>6. CASE k # j
    BY <1>1, <2>1, <2>2, <2>6
  <2> QED BY <1>1, <2>3, <2>4, <2>5, <2>6
<1> QED BY <1>3, <1>4, <1>5 DEF TableInv

\* An INSERT that takes effect behind its import.
LEMMA TableLate ==
  ASSUME TypeInv, TableInv, NEW b \in late, late' = late \ {b}, rows' = rows \cup {b},
         delayed' = delayed \cup {b}, UNCHANGED <<people, at, outcome, pc>>
  PROVE  TableInv'
<1>1. \A d : LeftBehind(d) => LeftBehind(d)'
  BY DEF LeftBehind
<1>2. late' \cap rows' = {}
  BY DEF TableInv
<1>3. \A d \in late' \cup delayed' : LeftBehind(d)'
  BY <1>1 DEF TableInv
<1>4. rows' \ delayed' = rows \ delayed
  BY DEF TableInv
<1> QED BY <1>2, <1>3, <1>4 DEF TableInv

\* The loop of an import goes on to the next candidate.
LEMMA LoopGoesOn ==
  ASSUME TypeInv, LoopInv, NEW j \in Imports, NEW what \in Outcomes, Record(j, what),
         pc[j] # "done", at[j] <= Len(people[j]), UNCHANGED <<people, reply>>
  PROVE  LoopInv' /\ EndedStay
<1>1. /\ at[j] \in 1 .. MaxRows /\ at'[j] = at[j] + 1 /\ pc'[j] = "query"
      /\ \A k \in Imports \ {j} : at'[k] = at[k] /\ outcome'[k] = outcome[k]
      /\ \A c \in Calls \ {j} : pc'[c] = pc[c]
  BY RecordKeeps
<1>2. Len(people[j]) \in Nat
  BY BodyType
<1>3. reply[j] = "none"
  BY DEF LoopInv
<1>4. \A k : k # j /\ k \in Imports => Count(k, "created")' = Count(k, "created")
  BY <1>1, CountKept
<1>5. LoopInv'
  BY <1>1, <1>2, <1>3, <1>4 DEF LoopInv, Calls
<1>6. EndedStay
  BY <1>1 DEF EndedStay, Calls
<1> QED BY <1>5, <1>6

\* A step of one handler that leaves the loops of the imports where they are.
LEMMA LoopWaits ==
  ASSUME TypeInv, LoopInv, UNCHANGED <<people, at, outcome>>, NEW c \in Calls, pc[c] # "done",
         \A d \in Calls \ {c} : pc'[d] = pc[d] /\ reply'[d] = reply[d],
         c \in Imports =>
           /\ pc'[c] = "insert" => at[c] <= Len(people[c])
           /\ pc'[c] = "audit" \/ reply'[c] = "200" => at[c] = Len(people[c]) + 1
           /\ pc'[c] = "audit" => Count(c, "created") > 0
           /\ reply'[c] # "none" => pc'[c] = "done"
  PROVE  LoopInv' /\ EndedStay
<1>1. \A j : Count(j, "created")' = Count(j, "created")
  BY DEF Count
<1>2. \A j \in Imports : j \in Calls
  BY DEF Calls
<1>3. LoopInv'
  BY <1>1, <1>2 DEF LoopInv
<1>4. EndedStay
  BY DEF EndedStay
<1> QED BY <1>3, <1>4

\* A count is of some of the candidates of a body.
LEMMA CountType ==
  ASSUME TypeInv, NEW j \in Imports, NEW what PROVE Count(j, what) \in 0 .. MaxRows
<1> DEFINE counted == {i \in DOMAIN outcome[j] : outcome[j][i] = what}
<1>1. outcome[j] \in Seq(Outcomes) /\ Len(outcome[j]) = at[j] - 1 /\ at[j] \in 1 .. MaxRows + 1
  BY DEF TypeInv
<1>2. DOMAIN outcome[j] = 1 .. at[j] - 1
  BY <1>1
<1>3. MaxRows \in Nat
  BY ConstantsAssumption
<1>4. counted \subseteq 1 .. MaxRows
  BY <1>1, <1>2, <1>3
<1>5. IsFiniteSet(1 .. MaxRows) /\ Cardinality(1 .. MaxRows) = MaxRows
  BY <1>3, ConstantsAssumption, FS_Interval
<1>6. IsFiniteSet(counted) /\ Cardinality(counted) <= MaxRows
  BY <1>4, <1>5, FS_Subset
<1>7. Cardinality(counted) \in Nat
  BY <1>6, FS_CardinalityType
<1> QED BY <1>3, <1>6, <1>7 DEF Count

\* Every step of every handler, a late INSERT, the end of a context and a crash
\* keep the invariant.
LEMMA InvStep == RecruitmentInv /\ [Next]_vars => RecruitmentInv'
<1> SUFFICES ASSUME RecruitmentInv, [Next]_vars PROVE RecruitmentInv'
  OBVIOUS
<1> USE DEF RecruitmentInv
<1>1. ASSUME NEW c \in Calls, QueryCreate(c) PROVE RecruitmentInv'
  <2>1. /\ c \in Creates /\ c \notin Imports /\ pc[c] = "idle"
        /\ pc' \in [Calls -> {"idle", "query", "insert", "merge", "audit", "done"}]
        /\ pc'[c] \in {"insert", "merge"}
        /\ \A d \in Calls \ {c} : pc'[d] = pc[d]
    BY <1>1, ConstantsAssumption DEF QueryCreate, Goto, TypeInv
  <2>2. TypeInv'
    BY <1>1, <2>1 DEF QueryCreate, given, table, imports, TypeInv
  <2>3. LoopInv' /\ EndedStay
    BY <1>1, <2>1, LoopWaits DEF QueryCreate, given, imports
  <2>4. TableInv' /\ TrailInv' /\ SearchExplained'
    BY <1>1, <2>3, TableKept, TrailKept, SearchKept DEF QueryCreate, given, table, imports
  <2> QED BY <2>2, <2>3, <2>4
<1>2. ASSUME NEW c \in Calls, FinishCreate(c) PROVE RecruitmentInv'
  <2>1. /\ c \in Creates /\ c \notin Imports /\ c \notin Searches /\ pc[c] # "done"
        /\ \E code \in {"200", "500"} : Answer(c, code)
    BY <1>2, ConstantsAssumption
       DEF FinishCreate, MergeCreate, InsertCreate, Columns, Placeholders
  <2>2. /\ pc' \in [Calls -> {"idle", "query", "insert", "merge", "audit", "done"}]
        /\ reply' \in [Calls -> {"none", "200", "201", "500"}]
        /\ pc'[c] = "done"
        /\ \A d \in Calls \ {c} : pc'[d] = pc[d] /\ reply'[d] = reply[d]
    BY <2>1 DEF Answer, Goto, TypeInv
  <2>3. UNCHANGED <<rows, late, delayed>>
    BY <1>2 DEF FinishCreate, MergeCreate, InsertCreate, Columns, Placeholders, table
  <2>4. /\ DOMAIN profile' = Candidates
        /\ \A b \in rows :
             /\ profile'[b].experienceYears \in {p.experienceYears : p \in Persons}
             /\ profile'[b].skills \subseteq UNION {p.skills : p \in Persons}
    <3>1. CASE UNCHANGED profile
      BY <3>1 DEF TypeInv
    <3>2. ASSUME NEW d \in Found(<<c, 1>>),
                 profile' = [profile EXCEPT ![d] = [Profile(<<c, 1>>) EXCEPT !.skills =
                                                      @ \cup profile[d].skills]]
          PROVE  /\ DOMAIN profile' = Candidates
                 /\ \A b \in rows :
                      /\ profile'[b].experienceYears \in {p.experienceYears : p \in Persons}
                      /\ profile'[b].skills \subseteq UNION {p.skills : p \in Persons}
      <4>1. d \in rows /\ d \in Candidates
        BY <3>2 DEF Found, TypeInv
      <4>2. Body(<<c, 1>>) \in Persons
        <5>1. 1 \in 1 .. Len(people[c])
          BY <2>1, BodyType
        <5> QED BY <2>1, <5>1, BodyType DEF Body
      <4> DEFINE new == [Profile(<<c, 1>>) EXCEPT !.skills = @ \cup profile[d].skills]
      <4>3. /\ new.experienceYears = Body(<<c, 1>>).experienceYears
            /\ new.skills = Body(<<c, 1>>).skills \cup profile[d].skills
        BY DEF Profile
      <4>4. /\ new.experienceYears \in {p.experienceYears : p \in Persons}
            /\ new.skills \subseteq UNION {p.skills : p \in Persons}
        BY <4>1, <4>2, <4>3 DEF TypeInv
      <4>5. /\ DOMAIN profile' = Candidates /\ profile'[d] = new
            /\ \A b \in rows \ {d} : profile'[b] = profile[b]
        BY <3>2, <4>1 DEF TypeInv
      <4> HIDE DEF new
      <4> QED BY <4>4, <4>5 DEF TypeInv
    <3> QED
      BY <1>2, <3>1, <3>2
         DEF FinishCreate, MergeCreate, InsertCreate, Columns, Placeholders, table
  <2> DEFINE rec == [by |-> c, action |-> "MERGE_UPDATE"]
  <2>5. trail' = trail \/ AppendAudit(rec)
    BY <1>2 DEF FinishCreate, MergeCreate, InsertCreate, Columns, Placeholders
  <2>6. rec \in Records /\ rec.by = c /\ rec.action # "BULK_IMPORT"
    BY <2>1 DEF Records
  <2>7. UNCHANGED <<people, at, outcome>>
    BY <1>2 DEF FinishCreate, given, imports
  <2> HIDE DEF rec
  <2>8. LoopInv' /\ EndedStay
    BY <2>1, <2>2, <2>7, LoopWaits
  <2>9. TableInv' /\ SearchExplained'
    BY <1>2, <2>3, <2>8, TableKept, SearchKept DEF FinishCreate, given, imports
  <2>10. TrailInv' /\ trail' \in [Records -> Nat]
    <3>1. CASE trail' = trail
      BY <2>8, <3>1, TrailKept DEF TypeInv
    <3>2. CASE AppendAudit(rec)
      BY <2>1, <2>2, <2>6, <2>7, <2>8, <3>2, TrailGrows DEF EndedStay
    <3> QED BY <2>5, <3>1, <3>2
  <2>11. TypeInv'
    BY <1>2, <2>1, <2>2, <2>3, <2>4, <2>10 DEF FinishCreate, given, imports, TypeInv
  <2> QED BY <2>8, <2>9, <2>10, <2>11
<1>3. ASSUME NEW j \in Calls, StartImport(j) PROVE RecruitmentInv'
  <2>1. /\ j \in Imports /\ pc[j] = "idle" /\ pc'[j] = "query"
        /\ pc' \in [Calls -> {"idle", "query", "insert", "merge", "audit", "done"}]
        /\ \A d \in Calls \ {j} : pc'[d] = pc[d]
    BY <1>3 DEF StartImport, Goto, TypeInv
  <2>2. TypeInv'
    BY <1>3, <2>1 DEF StartImport, given, table, imports, TypeInv
  <2>3. LoopInv' /\ EndedStay
    BY <1>3, <2>1, LoopWaits DEF StartImport, given, imports, LoopInv
  <2>4. TableInv' /\ TrailInv' /\ SearchExplained'
    BY <1>3, <2>3, TableKept, TrailKept, SearchKept DEF StartImport, given, table, imports
  <2> QED BY <2>2, <2>3, <2>4
\* A candidate that is not inserted, or whose INSERT outlives its context.
<1>4. ASSUME NEW j \in Imports, pc[j] # "done", at[j] <= Len(people[j]),
             NEW what \in {"duplicate", "error"}, Record(j, what),
             UNCHANGED <<given, rows, profile, delayed, trail, reply, shown>>,
             expired' \subseteq Imports,
             late' = late \/ (what = "error" /\ late' = late \cup {Current(j)})
      PROVE  RecruitmentInv'
  <2>1. /\ at[j] \in 1 .. MaxRows /\ pc'[j] = "query"
        /\ at' \in [Imports -> 1 .. MaxRows + 1]
        /\ outcome' \in [Imports -> Seq(Outcomes)]
        /\ \A i \in Imports : Len(outcome'[i]) = at'[i] - 1
        /\ \A c \in Calls \ {j} : pc'[c] = pc[c]
    BY <1>4, RecordKeeps DEF Outcomes
  <2>2. pc' \in [Calls -> {"idle", "query", "insert", "merge", "audit", "done"}]
    BY <1>4 DEF Record, Goto, TypeInv
  <2>3. late' \subseteq Imports \X (1 .. MaxRows)
    BY <1>4, <2>1 DEF TypeInv, Current
  <2>4. TypeInv'
    BY <1>4, <2>1, <2>2, <2>3 DEF TypeInv, given
  <2>5. LoopInv' /\ EndedStay
    BY <1>4, LoopGoesOn DEF given, Outcomes
  <2>6. TableInv'
    BY <1>4, TableSkips DEF given
  <2>7. TrailInv' /\ SearchExplained'
    BY <1>4, <2>5, TrailKept, SearchKept DEF given
  <2> QED BY <2>4, <2>5, <2>6, <2>7
<1>5. ASSUME NEW j \in Calls, SkipUnnamed(j) PROVE RecruitmentInv'
  BY <1>4, <1>5 DEF SkipUnnamed, AtCandidate, table, TypeInv
<1>6. ASSUME NEW j \in Calls, QueryImport(j) PROVE RecruitmentInv'
  <2>1. j \in Imports /\ pc[j] = "query" /\ at[j] <= Len(people[j])
    BY <1>6 DEF QueryImport, AtCandidate
  <2>2. CASE Record(j, "duplicate")
    BY <1>4, <1>6, <2>1, <2>2 DEF QueryImport, table, TypeInv
  <2>3. CASE Goto(j, "insert") /\ UNCHANGED <<at, outcome>>
    <3>1. /\ pc'[j] = "insert"
          /\ pc' \in [Calls -> {"idle", "query", "insert", "merge", "audit", "done"}]
          /\ \A d \in Calls \ {j} : pc'[d] = pc[d]
      BY <2>3 DEF Goto, TypeInv, Calls
    <3>2. TypeInv'
      BY <1>6, <2>1, <2>3, <3>1 DEF QueryImport, given, table, TypeInv
    <3>3. LoopInv' /\ EndedStay
      BY <1>6, <2>1, <2>3, <3>1, LoopWaits DEF QueryImport, given, LoopInv
    <3>4. TableInv' /\ TrailInv' /\ SearchExplained'
      BY <1>6, <2>3, <3>3, TableKept, TrailKept, SearchKept DEF QueryImport, given, table
    <3> QED BY <3>2, <3>3, <3>4
  <2> QED BY <1>6, <2>2, <2>3 DEF QueryImport
<1>7. ASSUME NEW j \in Calls, InsertImport(j) PROVE RecruitmentInv'
  <2>1. j \in Imports /\ pc[j] = "insert" /\ at[j] <= Len(people[j])
    BY <1>7 DEF InsertImport, LoopInv
  <2>2. /\ at[j] \in 1 .. MaxRows /\ pc'[j] = "query"
        /\ at' \in [Imports -> 1 .. MaxRows + 1]
        /\ outcome' \in [Imports -> Seq(Outcomes)]
        /\ \A i \in Imports : Len(outcome'[i]) = at'[i] - 1
        /\ \A c \in Calls \ {j} : pc'[c] = pc[c]
    BY <1>7, <2>1, RecordKeeps DEF InsertImport, Outcomes
  <2>3. pc' \in [Calls -> {"idle", "query", "insert", "merge", "audit", "done"}]
    BY <1>7 DEF InsertImport, Record, Goto, TypeInv
  <2>4. Current(j) \in Candidates /\ Current(j)[1] = j /\ Current(j)[2] = at[j]
    BY <2>1, <2>2 DEF Current, Candidates
  <2>5. /\ rows' = rows \cup {Current(j)} /\ rows' \subseteq Candidates
        /\ DOMAIN profile' = Candidates
        /\ \A d \in rows' :
             /\ profile'[d].experienceYears \in {p.experienceYears : p \in Persons}
             /\ profile'[d].skills \subseteq UNION {p.skills : p \in Persons}
    BY <1>7, <2>1, <2>4, InsertedKeeps DEF InsertImport
  <2>6. TypeInv'
    BY <1>7, <2>2, <2>3, <2>5 DEF InsertImport, TypeInv, given
  <2>7. LoopInv' /\ EndedStay
    BY <1>7, <2>1, LoopGoesOn DEF InsertImport, given, Outcomes
  <2>8. TableInv'
    BY <1>7, <2>1, <2>5, TableGrows DEF InsertImport, given
  <2>9. TrailInv' /\ SearchExplained'
    BY <1>7, <2>5, <2>7, TrailKept, SearchKept DEF InsertImport, given
  <2> QED BY <2>6, <2>7, <2>8, <2>9
<1>8. ASSUME NEW j \in Calls, InsertImportFails(j) PROVE RecruitmentInv'
  <2>1. j \in Imports /\ pc[j] = "insert" /\ at[j] <= Len(people[j])
    BY <1>8 DEF InsertImportFails, LoopInv
  <2> QED BY <1>4, <1>8, <2>1 DEF InsertImportFails, table, TypeInv
<1>9. ASSUME NEW j \in Calls, InsertImportUnanswered(j) PROVE RecruitmentInv'
  <2>1. j \in Imports /\ pc[j] = "insert" /\ at[j] <= Len(people[j])
    BY <1>9 DEF InsertImportUnanswered, LoopInv
  <2> QED BY <1>4, <1>9, <2>1 DEF InsertImportUnanswered, TypeInv
<1>10. ASSUME NEW j \in Calls, FinishImport(j) PROVE RecruitmentInv'
  <2>1. j \in Imports /\ pc[j] = "query" /\ at[j] = Len(people[j]) + 1
    <3>1. j \in Imports /\ pc[j] = "query" /\ at[j] > Len(people[j])
      BY <1>10 DEF FinishImport
    <3>2. at[j] <= Len(people[j]) + 1 /\ at[j] \in Int /\ Len(people[j]) \in Int
      BY <3>1, BodyType, ConstantsAssumption DEF LoopInv, TypeInv
    <3> QED BY <3>1, <3>2
  <2>2. /\ pc'[j] \in {"audit", "done"}
        /\ pc'[j] = "audit" => Count(j, "created") > 0 /\ reply' = reply
        /\ reply'[j] # "none" => pc'[j] = "done"
        /\ pc' \in [Calls -> {"idle", "query", "insert", "merge", "audit", "done"}]
        /\ reply' \in [Calls -> {"none", "200", "201", "500"}]
        /\ \A d \in Calls \ {j} : pc'[d] = pc[d] /\ reply'[d] = reply[d]
    <3>1. reply[j] = "none"
      BY <2>1 DEF LoopInv
    <3> QED BY <1>10, <3>1 DEF FinishImport, Answer, Goto, TypeInv
  <2>3. TypeInv'
    BY <1>10, <2>1, <2>2 DEF FinishImport, given, table, imports, TypeInv
  <2>4. LoopInv' /\ EndedStay
    BY <1>10, <2>1, <2>2, LoopWaits DEF FinishImport, given, imports
  <2>5. TableInv' /\ TrailInv' /\ SearchExplained'
    BY <1>10, <2>4, TableKept, TrailKept, SearchKept DEF FinishImport, given, table, imports
  <2> QED BY <2>3, <2>4, <2>5
<1>11. ASSUME NEW j \in Calls, AuditImport(j) PROVE RecruitmentInv'
  <2> DEFINE rec == AuditRecord(j)
  <2>1. /\ pc[j] = "audit" /\ j \in Imports /\ j \notin Searches
        /\ at[j] = Len(people[j]) + 1 /\ Count(j, "created") > 0
    BY <1>11, ConstantsAssumption DEF AuditImport, TypeInv, LoopInv
  <2>2. /\ pc'[j] = "done"
        /\ pc' \in [Calls -> {"idle", "query", "insert", "merge", "audit", "done"}]
        /\ reply' \in [Calls -> {"none", "200", "201", "500"}]
        /\ \A d \in Calls \ {j} : pc'[d] = pc[d] /\ reply'[d] = reply[d]
    BY <1>11 DEF AuditImport, Answer, Goto, TypeInv
  <2>3. /\ rec \in Records /\ rec.by = j /\ rec.created = Count(j, "created")
    <3>1. Count(j, "created") \in 1 .. MaxRows /\ Count(j, "duplicate") \in 0 .. MaxRows
      BY <2>1, CountType, ConstantsAssumption
    <3> QED BY <2>1, <3>1 DEF Records, AuditRecord
  <2>4. trail' = trail \/ AppendAudit(rec)
    BY <1>11 DEF AuditImport
  <2> HIDE DEF rec
  <2>5. LoopInv' /\ EndedStay
    BY <1>11, <2>1, <2>2, LoopWaits DEF AuditImport, given, imports
  <2>6. TrailInv' /\ trail' \in [Records -> Nat]
    <3>1. CASE trail' = trail
      BY <2>5, <3>1, TrailKept DEF TypeInv
    <3>2. CASE AppendAudit(rec)
      <4>1. UNCHANGED outcome
        BY <1>11 DEF AuditImport, imports
      <4> QED BY <2>1, <2>2, <2>3, <2>5, <3>2, <4>1, TrailGrows DEF EndedStay
    <3> QED BY <2>4, <3>1, <3>2
  <2>7. TypeInv'
    BY <1>11, <2>1, <2>2, <2>6 DEF AuditImport, given, table, imports, TypeInv
  <2>8. TableInv' /\ SearchExplained'
    BY <1>11, <2>5, TableKept, SearchKept DEF AuditImport, given, table, imports
  <2> QED BY <2>5, <2>6, <2>7, <2>8
<1>12. ASSUME NEW v \in Calls, Search(v) PROVE RecruitmentInv'
  <2>1. v \in Searches /\ v \notin Imports /\ pc[v] = "idle"
    BY <1>12, ConstantsAssumption DEF Search
  <2>2. /\ pc'[v] = "done"
        /\ pc' \in [Calls -> {"idle", "query", "insert", "merge", "audit", "done"}]
        /\ reply' \in [Calls -> {"none", "200", "201", "500"}]
        /\ \A d \in Calls \ {v} : pc'[d] = pc[d] /\ reply'[d] = reply[d]
    BY <1>12 DEF Search, Answer, Goto, TypeInv
  <2>3. TypeInv'
    BY <1>12, <2>1, <2>2 DEF Search, given, table, imports, TypeInv
  <2>4. LoopInv' /\ EndedStay
    BY <1>12, <2>1, <2>2, LoopWaits DEF Search, given, imports
  <2>5. TableInv' /\ TrailInv'
    BY <1>12, <2>4, TableKept, TrailKept DEF Search, given, table, imports
  <2>6. SearchExplained'
    <3>1. CASE UNCHANGED shown
      BY <1>12, <3>1, SearchKept DEF Search, given, table
    <3>2. ASSUME NEW read \in SUBSET Own(v),
                 shown' = [shown EXCEPT ![v] = {Hit(b, v) : b \in read}]
          PROVE  SearchExplained'
      <4>1. ASSUME NEW b \in Own(v)
            PROVE  /\ Hit(b, v).who = b /\ b \in rows /\ inst[b[1]] = inst[v]
                   /\ Hit(b, v).score \in 0 .. 100
                   /\ Hit(b, v).score = Explained(Hit(b, v).reasons)
        <5>1. b \in rows /\ inst[b[1]] = inst[v]
          BY DEF Own
        <5>2. profile[b].experienceYears \in Int
          BY <5>1, YearsAreInt DEF RecruitmentInv
        <5> QED BY <5>1, <5>2, ScoreInRange, ScoreIsExplained DEF Hit
      <4>2. \A w \in Searches \ {v} : shown'[w] = shown[w]
        BY <3>2 DEF TypeInv
      <4>3. shown'[v] = {Hit(b, v) : b \in read}
        BY <2>1, <3>2 DEF TypeInv
      <4>4. \A hit \in shown'[v] :
              /\ hit.who \in rows /\ inst[hit.who[1]] = inst[v]
              /\ hit.score \in 0 .. 100 /\ hit.score = Explained(hit.reasons)
        BY <4>1, <4>3
      <4>5. rows' = rows /\ inst' = inst
        BY <1>12 DEF Search, table, given
      <4> QED BY <4>2, <4>4, <4>5 DEF SearchExplained
    <3>3. UNCHANGED shown \/ \E read \in SUBSET Own(v) :
                                shown' = [shown EXCEPT ![v] = {Hit(b, v) : b \in read}]
      BY <1>12 DEF Search
    <3> QED BY <3>1, <3>2, <3>3
  <2> QED BY <2>3, <2>4, <2>5, <2>6
<1>13. ASSUME NEW j \in Imports, ContextExpires(j) PROVE RecruitmentInv'
  <2>1. TypeInv'
    BY <1>13 DEF ContextExpires, given, table, TypeInv
  <2>2. EndedStay /\ LoopInv'
    BY <1>13 DEF ContextExpires, given, EndedStay, LoopInv, Count
  <2>3. TableInv' /\ TrailInv' /\ SearchExplained'
    BY <1>13, <2>2, TableKept, TrailKept, SearchKept DEF ContextExpires, given, table
  <2> QED BY <2>1, <2>2, <2>3
<1>14. ASSUME NEW b \in late, CommitLate(b) PROVE RecruitmentInv'
  <2>1. b \in Candidates /\ b[2] <= Len(people[b[1]])
    BY DEF TableInv, LeftBehind, TypeInv, Candidates
  <2>2. /\ rows' = rows \cup {b} /\ rows' \subseteq Candidates
        /\ DOMAIN profile' = Candidates
        /\ \A d \in rows' :
             /\ profile'[d].experienceYears \in {p.experienceYears : p \in Persons}
             /\ profile'[d].skills \subseteq UNION {p.skills : p \in Persons}
    BY <1>14, <2>1, InsertedKeeps DEF CommitLate
  <2>3. TypeInv'
    BY <1>14, <2>2 DEF CommitLate, given, imports, TypeInv
  <2>4. EndedStay /\ LoopInv'
    BY <1>14 DEF CommitLate, given, imports, EndedStay, LoopInv, Count
  <2>5. TableInv'
    BY <1>14, <2>2, TableLate DEF CommitLate, given, imports
  <2>6. TrailInv' /\ SearchExplained'
    BY <1>14, <2>2, <2>4, TrailKept, SearchKept DEF CommitLate, given
  <2> QED BY <2>3, <2>4, <2>5, <2>6
<1>15. ASSUME Crash PROVE RecruitmentInv'
  <2> DEFINE cut == {i \in Imports \ expired : pc[i] = "insert" /\ Fits(Current(i))}
  <2>1. /\ pc' \in [Calls -> {"idle", "query", "insert", "merge", "audit", "done"}]
        /\ \A c \in Calls : pc'[c] = IF c \in InFlight THEN "done" ELSE pc[c]
    BY <1>15 DEF Crash, TypeInv
  <2>2. late' = late \cup {Current(j) : j \in cut}
    BY <1>15 DEF Crash
  <2>3. \A j \in cut : /\ j \in Imports /\ pc[j] = "insert" /\ pc'[j] = "done"
                       /\ at[j] <= Len(people[j]) /\ at[j] \in 1 .. MaxRows
    <3> TAKE j \in cut
    <3>1. j \in Imports /\ j \in Calls /\ pc[j] = "insert" /\ at[j] <= Len(people[j])
      BY DEF LoopInv, Calls
    <3>2. Len(people[j]) \in 1 .. MaxRows
      BY <3>1, BodyType
    <3> QED BY <2>1, <3>1, <3>2, ConstantsAssumption DEF InFlight, TypeInv
  <2>4. late' \subseteq Imports \X (1 .. MaxRows)
    <3>1. \A j \in cut : Current(j) \in Imports \X (1 .. MaxRows)
      BY <2>3 DEF Current
    <3> QED BY <2>2, <3>1 DEF TypeInv
  <2>5. \A c \in Calls : pc'[c] \in {"idle", "done"}
    BY <2>1 DEF InFlight
  <2>6. TypeInv'
    BY <1>15, <2>1, <2>4, <2>5 DEF Crash, given, imports, TypeInv
  <2>7. EndedStay
    BY <1>15, <2>1 DEF Crash, imports, EndedStay
  <2>8. LoopInv'
    BY <1>15, <2>1, <2>5 DEF Crash, given, imports, LoopInv, Calls, InFlight
  <2>9. TableInv'
    <3>1. \A b : LeftBehind(b) => LeftBehind(b)'
      BY <1>15, <2>7 DEF Crash, given, imports, LeftBehind, EndedStay, Calls
    <3>2. \A j \in cut : Current(j) \notin rows
      <4> TAKE j \in cut
      <4>1. Current(j) \notin delayed
        BY <2>3 DEF TableInv, LeftBehind, Current
      <4>2. Current(j) \notin rows \ delayed
        BY <2>3 DEF TableInv, Current
      <4> QED BY <4>1, <4>2
    <3>3. \A j \in cut : \A b : b = Current(j) => LeftBehind(b)'
      BY <1>15, <2>3 DEF Crash, given, imports, LeftBehind, Current
    <3>4. rows' = rows /\ delayed' = delayed /\ at' = at /\ outcome' = outcome
      BY <1>15 DEF Crash, imports
    <3>5. late' \cap rows' = {}
      BY <2>2, <3>2, <3>4 DEF TableInv
    <3>6. \A b \in late' \cup delayed' : LeftBehind(b)'
      BY <2>2, <3>1, <3>3, <3>4 DEF TableInv
    <3> QED BY <3>4, <3>5, <3>6 DEF TableInv
  <2>10. TrailInv' /\ SearchExplained'
    BY <1>15, <2>7, TrailKept, SearchKept DEF Crash, given
  <2> QED BY <2>6, <2>8, <2>9, <2>10
<1>16. ASSUME UNCHANGED vars PROVE RecruitmentInv'
  <2>1. TypeInv' /\ EndedStay /\ LoopInv'
    BY <1>16 DEF vars, TypeInv, EndedStay, LoopInv, Count
  <2> QED BY <1>16, <2>1, TableKept, TrailKept, SearchKept DEF vars
<1> QED
  BY <1>1, <1>2, <1>3, <1>5, <1>6, <1>7, <1>8, <1>9, <1>10, <1>11, <1>12, <1>13, <1>14, <1>15,
     <1>16 DEF Next, Handle

\* The invariant holds before any call.
LEMMA InvInit == Init => RecruitmentInv
<1> SUFFICES ASSUME Init PROVE RecruitmentInv
  OBVIOUS
<1>1. 1 \in 1 .. MaxRows + 1 /\ 1 \in 1 .. MaxRows
  BY ConstantsAssumption
<1>2. \A j \in Imports : outcome[j] = <<>> /\ Len(outcome[j]) = 0 /\ at[j] = 1
  BY DEF Init
<1>3. TypeInv
  <2>1. outcome \in [Imports -> Seq(Outcomes)]
    BY DEF Init
  <2> QED BY <1>1, <1>2, <2>1 DEF Init, TypeInv
<1>4. LoopInv
  <2>1. \A j \in Imports : Len(people[j]) \in 1 .. MaxRows
    BY <1>3, BodyType
  <2> QED BY <1>2, <2>1 DEF Init, LoopInv, Calls
<1>5. TableInv
  BY <1>2 DEF Init, TableInv
<1>6. TrailInv /\ SearchExplained
  <2>1. Audited = {}
    BY DEF Init, Audited
  <2> QED BY <2>1 DEF Init, TrailInv, SearchExplained
<1> QED BY <1>3, <1>4, <1>5, <1>6 DEF RecruitmentInv

\* The invariant holds in every state of every behaviour of the handlers.
THEOREM RecruitmentInvariant == Spec => []RecruitmentInv
  BY InvInit, InvStep, PTL DEF Spec

\* The variables keep their types: an outcome for each candidate passed, and in
\* the table only experience and skills of some body.
THEOREM TypeCorrect == Spec => []TypeOK
<1>1. TypeInv => TypeOK
  <2> HAVE TypeInv
  <2>1. \A j \in Imports :
          /\ DOMAIN outcome[j] = 1 .. at[j] - 1
          /\ \A i \in DOMAIN outcome[j] : outcome[j][i] \in {"created", "duplicate", "error"}
    BY DEF TypeInv, Outcomes
  <2> QED BY <2>1 DEF TypeInv, TypeOK
<1>2. RecruitmentInv => TypeInv
  BY DEF RecruitmentInv
<1> QED BY <1>1, <1>2, RecruitmentInvariant, PTL

\* What an import answers is true of the table, candidate by candidate, save
\* those whose INSERT outlived its context.
THEOREM ImportsAreAccounted == Spec => []ImportAccounted
<1>1. RecruitmentInv => ImportAccounted
  <2> SUFFICES ASSUME RecruitmentInv, NEW j \in Imports
               PROVE  /\ \A i \in DOMAIN outcome[j] :
                           /\ outcome[j][i] = "created" => <<j, i>> \in rows \ delayed
                           /\ <<j, i>> \in rows /\ outcome[j][i] # "created" => <<j, i>> \in delayed
                      /\ \A i \in 1 .. MaxRows : <<j, i>> \in rows \ delayed => i \in DOMAIN outcome[j]
                      /\ reply[j] = "200" => Len(outcome[j]) = Len(people[j])
    BY DEF ImportAccounted
  <2>1. /\ outcome[j] \in Seq(Outcomes) /\ Len(outcome[j]) = at[j] - 1
        /\ at[j] \in 1 .. MaxRows + 1 /\ DOMAIN outcome[j] = 1 .. at[j] - 1
    BY DEF RecruitmentInv, TypeInv
  <2>2. \A i \in 1 .. MaxRows :
          <<j, i>> \in rows \ delayed <=> i < at[j] /\ outcome[j][i] = "created"
    BY DEF RecruitmentInv, TableInv
  <2>3. \A i : i \in DOMAIN outcome[j] <=> i \in 1 .. MaxRows /\ i < at[j]
    BY <2>1, ConstantsAssumption
  <2>4. Len(people[j]) \in Nat
    BY BodyType DEF RecruitmentInv
  <2>5. reply[j] = "200" => Len(outcome[j]) = Len(people[j])
    BY <2>1, <2>4 DEF RecruitmentInv, LoopInv
  <2> QED BY <2>2, <2>3, <2>5
<1> QED BY <1>1, RecruitmentInvariant, PTL

\* No import is audited twice, and the number it is audited with is that of the
\* candidates it put into the table: the candidates counted as created and the
\* rows that no late INSERT brought are one to one.
THEOREM AuditIsTrue == Spec => []AuditTrue
<1>1. RecruitmentInv => AuditTrue
  <2> SUFFICES ASSUME RecruitmentInv, NEW rec \in Audited, rec.action = "BULK_IMPORT"
               PROVE  rec.created = Cardinality({b \in rows \ delayed : b[1] = rec.by})
    BY DEF RecruitmentInv, TrailInv, AuditTrue
  <2> DEFINE j == rec.by
             counted == {i \in DOMAIN outcome[j] : outcome[j][i] = "created"}
             mine == {b \in rows \ delayed : b[1] = j}
             f == [i \in counted |-> <<j, i>>]
  <2>1. j \in Imports /\ rec.created = Cardinality(counted)
    BY DEF RecruitmentInv, TrailInv, Count
  <2>2. /\ DOMAIN outcome[j] = 1 .. at[j] - 1 /\ at[j] \in 1 .. MaxRows + 1
        /\ MaxRows \in Nat
    BY <2>1, ConstantsAssumption DEF RecruitmentInv, TypeInv
  <2>3. \A i \in counted : i \in 1 .. MaxRows /\ <<j, i>> \in mine
    BY <2>1, <2>2 DEF RecruitmentInv, TableInv
  <2>4. \A b \in mine : \E i \in counted : b = <<j, i>>
    <3> TAKE b \in mine
    <3>1. b \in Candidates /\ b[1] = j
      BY DEF RecruitmentInv, TypeInv
    <3>2. PICK i \in 1 .. MaxRows : b = <<j, i>>
      BY <3>1 DEF Candidates
    <3>3. i < at[j] /\ outcome[j][i] = "created"
      BY <2>1, <3>2 DEF RecruitmentInv, TableInv
    <3>4. i \in counted
      BY <2>2, <3>2, <3>3
    <3> QED BY <3>2, <3>4
  <2>5. IsFiniteSet(counted)
    <3>1. IsFiniteSet(1 .. MaxRows)
      <4>1. 1 \in Int /\ MaxRows \in Int
        BY <2>2
      <4> QED BY <4>1, FS_Interval
    <3>2. counted \subseteq 1 .. MaxRows
      BY <2>3
    <3> HIDE DEF counted
    <3> QED BY <3>1, <3>2, FS_Subset
  <2>6. f \in Bijection(counted, mine)
    <3> HIDE DEF counted, mine
    <3>1. f \in Injection(counted, mine)
      BY <2>3 DEF Injection, IsInjective
    <3>2. \A b \in mine : \E i \in counted : f[i] = b
      BY <2>4
    <3>3. f \in [counted -> mine]
      BY <3>1 DEF Injection
    <3>4. f \in Surjection(counted, mine)
      BY <3>2, <3>3 DEF Surjection
    <3> QED BY <3>1, <3>4 DEF Bijection
  <2>7. Cardinality(counted) = Cardinality(mine)
    <3>1. ExistsBijection(counted, mine)
      BY <2>6 DEF ExistsBijection
    <3> HIDE DEF counted, mine, f
    <3> QED BY <2>5, <3>1, FS_Bijection
  <2> QED BY <2>1, <2>7
<1> QED BY <1>1, RecruitmentInvariant, PTL

\* A search shows candidates of the caller's institution with scores that their
\* reasons explain.
THEOREM SearchesAreExplained == Spec => []SearchExplained
<1>1. RecruitmentInv => SearchExplained
  BY DEF RecruitmentInv
<1> QED BY <1>1, RecruitmentInvariant, PTL
=============================================================================
