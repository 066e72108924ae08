--------------------------- MODULE MCStudySession ---------------------------
(***************************************************************************)
(* Instances of StudySession for TLC: one student with two devices, two    *)
(* goals, one plan item and two sessions.                                  *)
(***************************************************************************)
EXTENDS StudySession, TLC

CONSTANTS u1, g1, i1, x1

MCUserOf == [c \in Clients |-> u1]
MCGoalOwner == [g \in Goals |-> u1]
MCItemGoal == (i1 :> g1)
MCSubjectOf == (i1 :> x1)

\* Session identifiers are interchangeable, and so are the devices.
MCSymmetry == Permutations(Sessions) \cup Permutations(Clients)
=============================================================================
