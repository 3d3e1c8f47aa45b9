------------------------------ MODULE MCWorker ------------------------------
(***************************************************************************)
(* Small instances of Worker for TLC.                                      *)
(***************************************************************************)
EXTENDS Worker, TLC

CONSTANTS p1, p2, nobody, ann, ben, anon, r1, none, fine

TwoProcs == {p1, p2}
TwoAgents == {ann, ben}
NoRemote == {}
NoCapability == {}
OneRequest == {r1}
NoFailures == {}
ZeroOne == {0, 1}

Interchangeable ==
    Permutations(Proc) \cup Permutations(Actor) \cup Permutations(RequestId)
=============================================================================
