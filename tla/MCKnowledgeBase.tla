-------------------------- MODULE MCKnowledgeBase --------------------------
(***************************************************************************)
(* Instances of KnowledgeBase for TLC.                                     *)
(***************************************************************************)
EXTENDS KnowledgeBase, TLC

CONSTANTS h1, h2

MCJobs == Versions \X Keys

\* The row of the unit tests of consume_once.
TestColumns == JobColumns \cup {"source_type"}

MCSymmetry == Permutations(Workers) \cup Permutations({h1, h2}) \cup Permutations(Keys)
=============================================================================
