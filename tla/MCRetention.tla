---------------------------- MODULE MCRetention ----------------------------
(***************************************************************************)
(* Small instances of Retention for TLC.                                   *)
(***************************************************************************)
EXTENDS Retention

CONSTANTS q1, c1, f1

OneRequest == {q1}
OneReader == {c1}
Files == {f1}
=============================================================================
