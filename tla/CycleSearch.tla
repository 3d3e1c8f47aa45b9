---------------------------- MODULE CycleSearch ----------------------------
(***************************************************************************)
(* The depth-first search of dag.DetectCycle, one step per iteration of    *)
(* its loops.  adj[n] are the tasks that depend on n, the new edges        *)
(* included.  Go iterates maps in an arbitrary order, so the next root and *)
(* the next neighbour are any of those left.                               *)
(*                                                                         *)
(* It justifies the operator DetectCycle of TaskStore, which only says     *)
(* whether a cycle exists.                                                 *)
(***************************************************************************)
EXTENDS Integers, Sequences

CONSTANT Node

VARIABLES
    adj,      \* the graph searched
    visited,  \* nodes the search has entered
    onStack,  \* nodes it has entered and not left
    path,     \* the nodes on the stack, the root first
    rest,     \* neighbours each node on the stack has yet to look at
    result    \* the verdict

vars == <<adj, visited, onStack, path, rest, result>>

TypeOK ==
    /\ adj \in [Node -> SUBSET Node]
    /\ visited \subseteq Node
    /\ onStack \subseteq visited
    /\ path \in Seq(Node)
    /\ rest \in [Node -> SUBSET Node]
    /\ result \in {"searching", "cycle", "acyclic"}

Init ==
    /\ adj \in [Node -> SUBSET Node]
    /\ visited = {}
    /\ onStack = {}
    /\ path = << >>
    /\ rest = adj
    /\ result = "searching"

Top == path[Len(path)]

\* The keys of the adjacency map.
Keys == {n \in Node : adj[n] # {}}

\* Wrong: the node is not marked.
FaultyMarked(n) == visited

Marked(n) == visited \cup {n}

Enter(n) ==
    /\ visited' = Marked(n)
    /\ onStack' = onStack \cup {n}
    /\ path' = Append(path, n)

\* for node := range adj
Root(n) ==
    /\ path = << >> /\ n \in Keys \ visited
    /\ Enter(n)
    /\ UNCHANGED <<adj, rest, result>>

\* Wrong: a node that was left counts as one on the stack.
FaultyClosesCycle(n) == n \in visited

ClosesCycle(n) == n \in onStack

\* for _, next := range adj[node]
Look(next) ==
    /\ path # << >> /\ next \in rest[Top]
    /\ rest' = [rest EXCEPT ![Top] = @ \ {next}]
    /\ \/ /\ next \notin visited
          /\ Enter(next)
          /\ UNCHANGED result
       \/ /\ next \in visited /\ ClosesCycle(next)
          /\ path' = Append(path, next)
          /\ result' = "cycle"
          /\ UNCHANGED <<visited, onStack>>
       \/ /\ next \in visited /\ ~ClosesCycle(next)
          /\ UNCHANGED <<visited, onStack, path, result>>
    /\ UNCHANGED adj

Popped == SubSeq(path, 1, Len(path) - 1)

Backtrack ==
    /\ path # << >> /\ rest[Top] = {}
    /\ onStack' = onStack \ {Top}
    /\ path' = Popped
    /\ UNCHANGED <<adj, visited, rest, result>>

Finish ==
    /\ path = << >> /\ Keys \subseteq visited
    /\ result' = "acyclic"
    /\ UNCHANGED <<adj, visited, onStack, path, rest>>

Next ==
    /\ result = "searching"
    /\ \/ \E n \in Node : Root(n) \/ Look(n)
       \/ Backtrack
       \/ Finish

Spec == Init /\ [][Next]_vars

\* The search is a loop of one goroutine.
FairSpec == Spec /\ WF_vars(Next)

-----------------------------------------------------------------------------

Prerequisites == [n \in Node |-> {m \in Node : n \in adj[m]}]

\* The condition DetectCycle of TaskStore states, on the same graph.
Cyclic ==
    \E S \in SUBSET Node : S # {} /\ \A x \in S : Prerequisites[x] \cap S # {}

(***************************************************************************)
(* The search reports a cycle exactly when there is one, from whatever     *)
(* root it starts and in whatever order it looks at neighbours: a diamond  *)
(* is no cycle, and a cycle behind an explored part is not missed.         *)
(***************************************************************************)
VerdictIsRight == result # "searching" => (result = "cycle" <=> Cyclic)

(***************************************************************************)
(* The search ends: no node is entered twice and every neighbour is looked *)
(* at once, so a dependency edit cannot hang with the store lock held.     *)
(***************************************************************************)
Terminates == <>(result # "searching")
=============================================================================
