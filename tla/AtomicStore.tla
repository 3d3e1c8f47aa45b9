---------------------------- MODULE AtomicStore ----------------------------
(***************************************************************************)
(* What store.Update and store.LoadCurrent promise their callers: one      *)
(* value, changed by one whole operation at a time, in which every         *)
(* operation that was reported as done stays for good.                     *)
(*                                                                         *)
(* A value is the set of operations that were applied to it, whether the   *)
(* one lease it started with is still held, and how many lease_expired     *)
(* events it has.                                                          *)
(***************************************************************************)
EXTENDS Naturals

CONSTANT Op    \* operations, each applied by one call of Update

VARIABLES
    value,  \* what a reader of the store would get
    acked   \* the operations whose callers were told that they succeeded

vars == <<value, acked>>

Init ==
    /\ \E held \in BOOLEAN : value = [ops |-> {}, leased |-> held, expiries |-> 0]
    /\ acked = {}

Reclaim(c) == [c EXCEPT !.leased = FALSE, !.expiries = @ + 1]

\* One transaction adds one operation to the current value, after the reclaim
\* pass if the lease has expired by then.
Apply(op) ==
    /\ op \notin value.ops
    /\ \/ value' = [value EXCEPT !.ops = @ \cup {op}]
       \/ value.leased /\ value' = [Reclaim(value) EXCEPT !.ops = @ \cup {op}]
    /\ UNCHANGED acked

Expire == value.leased /\ value' = Reclaim(value) /\ UNCHANGED acked

Ack(op) == op \in value.ops /\ acked' = acked \cup {op} /\ UNCHANGED value

\* A power loss may take back what no caller was told of.
Revert ==
    /\ acked \subseteq value'.ops
    /\ value'.ops \subseteq value.ops
    /\ value'.expiries <= value.expiries
    /\ value'.leased <=> value.leased \/ value'.expiries < value.expiries
    /\ UNCHANGED acked

Next == (\E op \in Op : Apply(op) \/ Ack(op)) \/ Expire \/ Revert

Spec == Init /\ [][Next]_vars
=============================================================================
