----------------------------- MODULE MCRegistry -----------------------------
(***************************************************************************)
(* Small instances of Registry for TLC.                                    *)
(***************************************************************************)
EXTENDS Registry

CONSTANTS p1, p2, nobody, a1, l1, here, unlinked, go, ttl

Two == {p1, p2}

OneAgent == {a1}
OneAlias == {l1}
OnePath == {here}
OneCapability == {go}
OneKey == {ttl}
OnOff == {0, 1}
=============================================================================
