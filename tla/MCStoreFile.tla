---------------------------- MODULE MCStoreFile ----------------------------
(***************************************************************************)
(* Small instances of StoreFile for TLC.                                   *)
(***************************************************************************)
EXTENDS StoreFile

CONSTANTS p1, p2

Two == {p1, p2}
=============================================================================
