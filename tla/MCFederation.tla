---------------------------- MODULE MCFederation ----------------------------
(***************************************************************************)
(* Small instances of Federation for TLC.                                  *)
(***************************************************************************)
EXTENDS Federation

CONSTANTS web, api, w1, w2

Projects == {web, api}
Workers == {w1, w2}
WebMoves == {web}

OneEach == [p \in Worker |-> IF p = w1 THEN web ELSE api]
=============================================================================
