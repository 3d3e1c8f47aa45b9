------------------------------ MODULE MCBoard ------------------------------
(***************************************************************************)
(* Small instances of Board for TLC.                                       *)
(***************************************************************************)
EXTENDS Board, TLC

CONSTANTS a1, a2, q1, r1

Agents == {a1, a2}
LinkedTasks == {r1}

\* Agents are interchangeable: nothing orders them.
AgentSymmetry == Permutations(Agents)
=============================================================================
