---------------------------- MODULE MCRecruitment ---------------------------
\* Small instances of Recruitment for TLC.
EXTENDS Recruitment, SequencesExt, Functions

\* One without a name, one whose ciphertexts no row holds, and two that differ in
\* what a search sees but have one id number.
SomePersons ==
  {[named |-> FALSE, phone |-> 0, id |-> 18, experienceYears |-> 3, education |-> {}, skills |-> {}],
   [named |-> TRUE, phone |-> 11, id |-> 21, experienceYears |-> 3, education |-> {}, skills |-> {}],
   [named |-> TRUE, phone |-> 0, id |-> 18, experienceYears |-> 3, education |-> {"b", "bsc"},
    skills |-> {"go"}],
   [named |-> TRUE, phone |-> 0, id |-> 18, experienceYears |-> 2, education |-> {"b"},
    skills |-> {}]}

SomeTargets == {[skill |-> "go", education |-> "bsc"]}

\* One import, and the creation, is of the least experienced person alone, the
\* other import of any others and of any institution; nobody without a name is last.
MCInit ==
  /\ Init
  /\ LET j == CHOOSE i \in Imports : TRUE
         one == CHOOSE p \in Persons : p.experienceYears = 2
         others == {p \in Persons \ {one} : p.named}
     IN  /\ \A c \in Creates \cup {j} : people[c] = <<one>>
         /\ \A k \in Imports \ {j} : one \notin Range(people[k]) /\ Last(people[k]) \in others
         /\ \A c \in Calls \ (Imports \ {j}) : inst[c] = CHOOSE i \in Institutions : TRUE

MCSpec == MCInit /\ [][Next]_vars /\ Fairness
=============================================================================
