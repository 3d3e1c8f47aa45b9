--------------------------- MODULE MCCycleSearch ---------------------------
(***************************************************************************)
(* All graphs over a few nodes, for TLC.                                   *)
(***************************************************************************)
EXTENDS CycleSearch

CONSTANT Size

Nodes == 1..Size
=============================================================================
