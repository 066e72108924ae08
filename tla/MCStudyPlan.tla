---------------------------- MODULE MCStudyPlan ----------------------------
(***************************************************************************)
(* Instances of StudyPlan for TLC: the clock of the sessions stands still, *)
(* the calendar moves.                                                     *)
(***************************************************************************)
EXTENDS StudyPlan, TLC

CONSTANTS u1, x1

MCUserOf == [c \in Clients |-> u1]
MCGoalOwner == [g \in Goals |-> u1]
MCItems == Proposals \X Days \X Goals
MCItemGoal == [i \in MCItems |-> i[3]]
MCSubjectOf == [i \in MCItems |-> x1]

\* The availability covers every day.
MCHorizons == {Days}

MCSymmetry == Permutations(Sessions) \cup Permutations(Proposals) \cup Permutations(Goals)
=============================================================================
