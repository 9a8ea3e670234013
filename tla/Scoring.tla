------------------------------ MODULE Scoring -------------------------------
(***************************************************************************)
(* CalculateMatchScore, the score of a candidate in a search.  A text      *)
(* stands for itself after TrimSpace and ToLower; an education is the set  *)
(* of the texts it contains (strings.Contains).                            *)
(***************************************************************************)
EXTENDS Integers

CONSTANT NoTarget   \* the empty text: nothing asked for

ScoreSkillMax == 50
ScoreExpThreshold == 3
ScoreExpMax == 30
ScoreEduMax == 20

SkillMatches(skills, targetSkill) == targetSkill # NoTarget /\ targetSkill \in skills

EducationMatches(education, targetEducation) ==
  targetEducation # NoTarget /\ targetEducation \in education

\* The reasons given with a score.
Reasons(experienceYears, education, skills, targetSkill, targetEducation) ==
  (IF targetSkill = NoTarget THEN {}
   ELSE {IF SkillMatches(skills, targetSkill) THEN "skill matched" ELSE "skill not matched"})
  \cup {IF experienceYears >= ScoreExpThreshold THEN "experience met" ELSE "experience below"}
  \cup (IF targetEducation = NoTarget THEN {}
        ELSE {IF EducationMatches(education, targetEducation)
              THEN "education matched" ELSE "education not matched"})

\* Mutant: years equal to the threshold do not count.
ScoreAboveThreshold(experienceYears, education, skills, targetSkill, targetEducation) ==
  (IF SkillMatches(skills, targetSkill) THEN ScoreSkillMax ELSE 0)
  + (IF experienceYears > ScoreExpThreshold THEN ScoreExpMax ELSE 0)
  + (IF EducationMatches(education, targetEducation) THEN ScoreEduMax ELSE 0)

Score(experienceYears, education, skills, targetSkill, targetEducation) ==
  (IF SkillMatches(skills, targetSkill) THEN ScoreSkillMax ELSE 0)
  + (IF experienceYears >= ScoreExpThreshold THEN ScoreExpMax ELSE 0)
  + (IF EducationMatches(education, targetEducation) THEN ScoreEduMax ELSE 0)

\* The points that the texts of the reasons add up to.
Explained(reasons) ==
  (IF "skill matched" \in reasons THEN 50 ELSE 0)
  + (IF "experience met" \in reasons THEN 30 ELSE 0)
  + (IF "education matched" \in reasons THEN 20 ELSE 0)
=============================================================================
