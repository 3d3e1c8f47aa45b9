------------------------------ MODULE MCViews ------------------------------
(***************************************************************************)
(* Small instances of Views for TLC.                                       *)
(***************************************************************************)
EXTENDS Views

CONSTANTS a1, a2, q1, c1, c2

OneAgent == {a1}
Agents == {a1, a2}
OneRequest == {q1}
LongSkill == {c1}
TwoSkills == {c1, c2}

NoCards == [a \in Actor |-> {}]
FirstIsSkilled == [a \in Actor |-> IF a = a1 THEN Capability ELSE {}]
=============================================================================
