---------------------------- MODULE MCPlanEngine ----------------------------
(***************************************************************************)
(* Instances of PlanEngine for TLC: horizons of one to three days whose    *)
(* lengths lie on both sides of the limits of a block, with and without a  *)
(* free day.                                                               *)
(***************************************************************************)
EXTENDS PlanEngine

Lengths == {15, 20, 44, 95}
MCCapacities ==
    {<<a>> : a \in Lengths} \cup {<<a, b>> : a \in Lengths, b \in {0, 59, 120}}
        \cup {<<60, 0, 120>>, <<95, 0, 35>>}

MCPreferred == {15, 20, 29, 30, 60}

MCShares == {<<50, 25, 20, 5>>, <<20, 0, 80, 0>>, <<34, 33, 33, 0>>}

MCWeights == {<<1>>, <<3, 1>>, <<1, 2, 4>>, <<5, 1, 5>>}
=============================================================================
