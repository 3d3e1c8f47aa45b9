------------------------- MODULE CycleSearchProofs -------------------------
(***************************************************************************)
(* The verdict of the depth-first search is right for every graph over     *)
(* every set of tasks, and needs no induction over paths: what the search  *)
(* has left is closed under successors and holds no cycle, and the stack   *)
(* is a walk whose nodes have looked at nothing else.                      *)
(***************************************************************************)
EXTENDS CycleSearch, SequenceTheorems, TLAPS

\* The nodes the search entered and left.
Left == visited \ onStack

\* The neighbours n has looked at.
Looked(n) == adj[n] \ rest[n]

\* The stack is the path, without repetition.
Stacked ==
    /\ onStack = {path[i] : i \in 1..Len(path)}
    /\ \A i, j \in 1..Len(path) : path[i] = path[j] => i = j

\* Each node on the stack is a neighbour of the one below, which has otherwise
\* looked only at nodes that were left.
Walked ==
    /\ \A n \in Node : /\ rest[n] \subseteq adj[n]
                       /\ n \notin visited => rest[n] = adj[n]
    /\ \A i \in 1..Len(path) :
          i < Len(path) => /\ path[i + 1] \in adj[path[i]]
                           /\ Looked(path[i]) \subseteq Left \cup {path[i + 1]}
    /\ path # << >> => Looked(Top) \subseteq Left

\* What was left has no way out, and no set of it in which every node has a
\* prerequisite.
Settled ==
    /\ \A n \in Left : adj[n] \subseteq Left
    /\ \A S \in SUBSET Left : S # {} => \E x \in S : Prerequisites[x] \cap S = {}

IInv ==
    /\ TypeOK /\ VerdictIsRight
    /\ result = "searching" => Stacked /\ Walked /\ Settled

-----------------------------------------------------------------------------

LEMMA InitInv == Init => IInv
<1> SUFFICES ASSUME Init PROVE IInv
  OBVIOUS
<1>1. TypeOK /\ VerdictIsRight
  BY DEF Init, TypeOK, VerdictIsRight
<1>2. Len(path) = 0 /\ Left = {}
  BY DEF Init, Left
<1>3. Stacked /\ Walked /\ Settled
  BY <1>1, <1>2 DEF Init, TypeOK, Stacked, Walked, Settled
<1> QED
  BY <1>1, <1>3 DEF IInv

\* The node under the search.
LEMMA TopNode ==
    ASSUME TypeOK, Stacked, path # << >>
    PROVE  /\ Len(path) \in Nat \ {0} /\ Top = path[Len(path)] /\ Top \in Node
           /\ Top \in onStack /\ Top \notin Left
<1>1. Len(path) \in Nat \ {0}
  BY DEF TypeOK
<1>2. Top = path[Len(path)] /\ Top \in Node
  BY <1>1 DEF TypeOK, Top
<1>3. Top \in onStack
  BY <1>1, <1>2 DEF Stacked
<1> QED
  BY <1>1, <1>2, <1>3 DEF Left

\* Entering a node puts it on the top of the stack and leaves none.
LEMMA EnterStacks ==
    ASSUME TypeOK, Stacked, NEW n \in Node, n \notin visited, Enter(n)
    PROVE  /\ visited' \subseteq Node /\ onStack' \subseteq visited'
           /\ path' \in Seq(Node) /\ path' # << >>
           /\ Len(path') = Len(path) + 1 /\ path'[Len(path')] = n
           /\ \A i \in 1..Len(path) : path'[i] = path[i]
           /\ Left' = Left /\ Stacked'
<1>1. /\ path' \in Seq(Node) /\ Len(path') = Len(path) + 1 /\ Len(path) \in Nat
      /\ path'[Len(path')] = n /\ \A i \in 1..Len(path) : path'[i] = path[i]
  BY DEF TypeOK, Enter
<1>2. path' # << >>
  BY <1>1
<1>3. visited' = visited \cup {n} /\ onStack' = onStack \cup {n}
  BY DEF Enter, Marked
<1>4. Left' = Left /\ n \notin onStack /\ visited' \subseteq Node /\ onStack' \subseteq visited'
  BY <1>3 DEF TypeOK, Left
<1>5. 1..Len(path') = 1..Len(path) \cup {Len(path')}
  BY <1>1
<1>6. onStack' = {path'[i] : i \in 1..Len(path')}
  BY <1>1, <1>3, <1>5 DEF Stacked
<1>7. ASSUME NEW i \in 1..Len(path'), NEW j \in 1..Len(path'), path'[i] = path'[j]
      PROVE  i = j
  <2>1. \A k \in 1..Len(path) : path'[k] \in onStack
    BY <1>1 DEF Stacked
  <2> QED
    BY <1>1, <1>4, <1>5, <1>7, <2>1 DEF Stacked
<1> QED
  BY <1>1, <1>2, <1>4, <1>6, <1>7 DEF Stacked

\* Whether a graph has a cycle depends on the graph only.
LEMMA SameGraph ==
    ASSUME adj' = adj
    PROVE  Prerequisites' = Prerequisites /\ (Cyclic' <=> Cyclic)
<1>1. Prerequisites' = Prerequisites
  BY DEF Prerequisites
<1> QED
  BY <1>1 DEF Cyclic

LEMMA SettledStays ==
    ASSUME Settled, Left' = Left, adj' = adj
    PROVE  Settled'
<1>1. Prerequisites' = Prerequisites
  BY SameGraph
<1>2. \A n \in Left' : adj'[n] \subseteq Left'
  BY DEF Settled
<1>3. \A S \in SUBSET Left' : S # {} => \E x \in S : Prerequisites'[x] \cap S = {}
  BY <1>1 DEF Settled
<1> QED
  BY <1>2, <1>3 DEF Settled

\* A new root: the stack was empty.
LEMMA RootStep ==
    ASSUME IInv, result = "searching", NEW n \in Node, Root(n)
    PROVE  IInv'
<1>1. /\ TypeOK /\ Stacked /\ Walked /\ Settled /\ path = << >> /\ Enter(n)
      /\ UNCHANGED <<adj, rest, result>> /\ n \notin visited
  BY DEF IInv, Root
<1>2. /\ visited' \subseteq Node /\ onStack' \subseteq visited'
      /\ path' \in Seq(Node) /\ path' # << >>
      /\ Len(path') = Len(path) + 1 /\ path'[Len(path')] = n
      /\ \A i \in 1..Len(path) : path'[i] = path[i]
      /\ Left' = Left /\ Stacked'
  BY <1>1, EnterStacks
<1>3. TypeOK'
  BY <1>1, <1>2 DEF TypeOK
<1>4. Settled'
  BY <1>1, <1>2, SettledStays
<1>5. Walked'
  <2>1. Len(path') = 1 /\ Top' = n
    BY <1>1, <1>2 DEF Top
  <2>2. Looked(Top)' = {}
    BY <1>1, <2>1 DEF Walked, Looked
  <2>3. \A m \in Node : /\ rest'[m] \subseteq adj'[m]
                        /\ m \notin visited' => rest'[m] = adj'[m]
    BY <1>1 DEF Walked, Enter, Marked
  <2> QED
    BY <2>1, <2>2, <2>3 DEF Walked
<1>6. VerdictIsRight'
  BY <1>1 DEF VerdictIsRight
<1> QED
  BY <1>2, <1>3, <1>4, <1>5, <1>6 DEF IInv

\* The walk from the node found again to the top of the stack is a cycle.
LEMMA CycleFound ==
    ASSUME TypeOK, Stacked, Walked, path # << >>, NEW next \in onStack, next \in adj[Top]
    PROVE  Cyclic
<1>1. PICK k \in 1..Len(path) : path[k] = next
  BY DEF Stacked
<1> DEFINE S == {path[i] : i \in k..Len(path)}
<1>2. Len(path) \in Nat \ {0} /\ Top = path[Len(path)]
  BY TopNode
<1>3. S \subseteq Node /\ next \in S /\ Top \in S
  BY <1>1, <1>2 DEF TypeOK
<1>4. ASSUME NEW x \in S
      PROVE  Prerequisites[x] \cap S # {}
  <2>1. PICK i \in k..Len(path) : x = path[i]
    OBVIOUS
  <2>2. CASE i = k
    <3>1. Top \in Prerequisites[x]
      BY <1>1, <1>3, <2>1, <2>2 DEF Prerequisites
    <3> QED
      BY <1>3, <3>1
  <2>3. CASE i # k
    <3>1. i - 1 \in k..Len(path) /\ i - 1 \in 1..Len(path) /\ i - 1 < Len(path)
          /\ (i - 1) + 1 = i
      BY <1>1, <1>2, <2>3
    <3>2. path[i] \in adj[path[i - 1]]
      BY <3>1 DEF Walked
    <3>3. path[i - 1] \in S
      BY <3>1
    <3>4. path[i - 1] \in Prerequisites[x]
      BY <1>3, <2>1, <3>2, <3>3 DEF Prerequisites
    <3> QED
      BY <3>3, <3>4
  <2> QED
    BY <2>2, <2>3
<1> HIDE DEF S
<1> QED
  BY <1>3, <1>4 DEF Cyclic

\* The next neighbour of the top is entered, closes a cycle, or was left.
LEMMA LookStep ==
    ASSUME IInv, result = "searching", NEW next \in Node, Look(next)
    PROVE  IInv'
<1>0. /\ TypeOK /\ Stacked /\ Walked /\ Settled /\ path # << >> /\ next \in rest[Top]
      /\ rest' = [rest EXCEPT ![Top] = rest[Top] \ {next}] /\ adj' = adj
  BY DEF IInv, Look
<1>1. /\ Len(path) \in Nat \ {0} /\ Top = path[Len(path)] /\ Top \in Node
      /\ Top \in onStack /\ Top \notin Left
  BY <1>0, TopNode
<1>2. next \in adj[Top]
  BY <1>0, <1>1 DEF Walked
<1>3. /\ rest' \in [Node -> SUBSET Node] /\ rest'[Top] = rest[Top] \ {next}
      /\ \A m \in Node \ {Top} : rest'[m] = rest[m]
  BY <1>0, <1>1 DEF TypeOK
<1>4. /\ \A m \in Node : /\ rest'[m] \subseteq adj'[m]
                         /\ m \notin visited => rest'[m] = adj'[m]
      /\ Looked(Top)' \subseteq adj'[Top'] \ rest'[Top']
      /\ adj'[Top] \ rest'[Top] = Looked(Top) \cup {next}
      /\ \A m \in Node \ {Top} : adj'[m] \ rest'[m] = Looked(m)
  <2>1. Top \in visited
    BY <1>0, <1>1 DEF TypeOK
  <2> QED
    BY <1>0, <1>1, <1>2, <1>3, <2>1 DEF Walked, Looked
<1>5. \A i \in 1..Len(path) : i < Len(path) => path[i] \in Node \ {Top}
  BY <1>0, <1>1 DEF TypeOK, Stacked
<1>6. \A i \in 1..Len(path) : i < Len(path) =>
         /\ path[i + 1] \in adj'[path[i]]
         /\ adj'[path[i]] \ rest'[path[i]] \subseteq Left \cup {path[i + 1]}
  BY <1>0, <1>4, <1>5 DEF Walked
<1>7. CASE next \notin visited /\ Enter(next) /\ UNCHANGED result
  <2>1. /\ visited' \subseteq Node /\ onStack' \subseteq visited'
        /\ path' \in Seq(Node) /\ path' # << >>
        /\ Len(path') = Len(path) + 1 /\ path'[Len(path')] = next
        /\ \A i \in 1..Len(path) : path'[i] = path[i]
        /\ Left' = Left /\ Stacked'
    BY <1>0, <1>7, EnterStacks
  <2>2. TypeOK'
    BY <1>0, <1>3, <1>7, <2>1 DEF TypeOK
  <2>3. Settled'
    BY <1>0, <2>1, SettledStays
  <2>4. \A i \in 1..Len(path') : i < Len(path') =>
           /\ path'[i + 1] \in adj'[path'[i]]
           /\ adj'[path'[i]] \ rest'[path'[i]] \subseteq Left' \cup {path'[i + 1]}
    <3> SUFFICES ASSUME NEW i \in 1..Len(path'), i < Len(path')
                 PROVE  /\ path'[i + 1] \in adj'[path'[i]]
                        /\ adj'[path'[i]] \ rest'[path'[i]] \subseteq Left' \cup {path'[i + 1]}
      OBVIOUS
    <3>1. CASE i < Len(path)
      <4>1. i \in 1..Len(path) /\ i + 1 \in 1..Len(path)
        BY <1>1, <2>1, <3>1
      <4> QED
        BY <1>6, <2>1, <3>1, <4>1
    <3>2. CASE i = Len(path)
      <4>1. path'[i] = Top /\ path'[i + 1] = next
        BY <1>1, <2>1, <3>2
      <4>2. Looked(Top) \subseteq Left
        BY <1>0 DEF Walked
      <4> QED
        BY <1>0, <1>2, <1>4, <2>1, <4>1, <4>2
    <3> QED
      BY <1>1, <2>1, <3>1, <3>2
  <2>5. Looked(Top)' \subseteq Left'
    <3>1. Top' = next /\ next # Top
      BY <1>0, <1>1, <1>7, <2>1 DEF Top, TypeOK
    <3>2. rest[next] = adj[next]
      BY <1>0, <1>7 DEF Walked
    <3> QED
      BY <1>0, <1>3, <3>1, <3>2 DEF Looked
  <2>6. Walked'
    <3>1. \A m \in Node : /\ rest'[m] \subseteq adj'[m]
                          /\ m \notin visited' => rest'[m] = adj'[m]
      BY <1>4, <1>7 DEF Enter, Marked
    <3> QED
      BY <2>4, <2>5, <3>1 DEF Walked, Looked
  <2>7. VerdictIsRight'
    BY <1>7 DEF VerdictIsRight
  <2> QED
    BY <2>1, <2>2, <2>3, <2>6, <2>7 DEF IInv
<1>8. CASE /\ next \in visited /\ ClosesCycle(next) /\ path' = Append(path, next)
           /\ result' = "cycle" /\ UNCHANGED <<visited, onStack>>
  <2>1. Cyclic
    BY <1>0, <1>2, <1>8, CycleFound DEF ClosesCycle
  <2>2. Cyclic'
    BY <1>0, <2>1, SameGraph
  <2>3. TypeOK'
    BY <1>0, <1>3, <1>8 DEF TypeOK
  <2> QED
    BY <1>8, <2>2, <2>3 DEF IInv, VerdictIsRight
<1>9. CASE /\ next \in visited /\ ~ClosesCycle(next)
           /\ UNCHANGED <<visited, onStack, path, result>>
  <2>1. TypeOK'
    BY <1>0, <1>3, <1>9 DEF TypeOK
  <2>2. Left' = Left /\ next \in Left /\ Top' = Top
    BY <1>9 DEF Left, ClosesCycle, Top
  <2>3. Stacked' /\ Settled'
    BY <1>0, <1>9, <2>2, SettledStays DEF Stacked
  <2>4. Looked(Top)' \subseteq Left'
    BY <1>0, <1>4, <2>2 DEF Walked, Looked
  <2>5. Walked'
    BY <1>4, <1>6, <1>9, <2>2, <2>4 DEF Walked, Looked
  <2>6. VerdictIsRight'
    BY <1>9 DEF VerdictIsRight
  <2> QED
    BY <2>1, <2>3, <2>5, <2>6 DEF IInv
<1> QED
  BY <1>7, <1>8, <1>9 DEF Look

\* The top is left: it has looked at all of its neighbours, and they were left.
LEMMA BacktrackStep ==
    ASSUME IInv, result = "searching", Backtrack
    PROVE  IInv'
<1>0. /\ TypeOK /\ Stacked /\ Walked /\ Settled /\ path # << >> /\ rest[Top] = {}
      /\ onStack' = onStack \ {Top} /\ path' = SubSeq(path, 1, Len(path) - 1)
      /\ UNCHANGED <<adj, visited, rest, result>>
  BY DEF IInv, Backtrack, Popped
<1>1. /\ Len(path) \in Nat \ {0} /\ Top = path[Len(path)] /\ Top \in Node
      /\ Top \in onStack /\ Top \notin Left
  BY <1>0, TopNode
<1>2. /\ path' \in Seq(Node) /\ Len(path') = Len(path) - 1
      /\ \A i \in 1..Len(path') : path'[i] = path[i]
  <2> DEFINE k == Len(path) - 1
  <2>1. 1 \in Int /\ k \in Int /\ \A i \in 1..k : path[i] \in Node
    BY <1>0, <1>1 DEF TypeOK
  <2>2. path' = SubSeq(path, 1, k)
    BY <1>0
  <2>3. k \in Nat
    BY <1>1
  <2> HIDE DEF k
  <2>4. /\ SubSeq(path, 1, k) \in Seq(Node)
        /\ Len(SubSeq(path, 1, k)) = IF 1 <= k THEN k - 1 + 1 ELSE 0
        /\ \A i \in 1..(k - 1 + 1) : SubSeq(path, 1, k)[i] = path[1 + i - 1]
    BY <2>1, SubSeqProperties
  <2>5. Len(path') = k
    BY <2>2, <2>3, <2>4
  <2>6. \A i \in 1..k : path'[i] = path[i]
    BY <2>2, <2>3, <2>4
  <2> QED
    BY <2>2, <2>4, <2>5, <2>6 DEF k
<1>3. Left' = Left \cup {Top}
  BY <1>0, <1>1 DEF TypeOK, Left
<1>4. adj[Top] \subseteq Left
  BY <1>0 DEF Walked, Looked
<1>5. TypeOK'
  BY <1>0, <1>2 DEF TypeOK
<1>6. Stacked'
  <2>1. 1..Len(path) = 1..Len(path') \cup {Len(path)} /\ Len(path) \notin 1..Len(path')
    BY <1>1, <1>2
  <2>2. \A i \in 1..Len(path') : i \in 1..Len(path) /\ path'[i] = path[i] /\ path'[i] # Top
    BY <1>0, <1>1, <1>2, <2>1 DEF Stacked
  <2>3. onStack' = {path'[i] : i \in 1..Len(path')}
    <3>1. {path[i] : i \in 1..Len(path)} = {path[i] : i \in 1..Len(path')} \cup {Top}
      BY <1>1, <2>1
    <3>2. Top \notin {path[i] : i \in 1..Len(path')}
      BY <2>2
    <3>3. {path'[i] : i \in 1..Len(path')} = {path[i] : i \in 1..Len(path')}
      BY <2>2
    <3> QED
      BY <1>0, <3>1, <3>2, <3>3 DEF Stacked
  <2> QED
    BY <1>0, <2>2, <2>3 DEF Stacked
<1>7. Walked'
  <2>1. \A i \in 1..Len(path') : i < Len(path') =>
           /\ path'[i + 1] \in adj'[path'[i]]
           /\ adj'[path'[i]] \ rest'[path'[i]] \subseteq Left' \cup {path'[i + 1]}
    <3> SUFFICES ASSUME NEW i \in 1..Len(path'), i < Len(path')
                 PROVE  /\ path'[i + 1] \in adj'[path'[i]]
                        /\ adj'[path'[i]] \ rest'[path'[i]] \subseteq Left' \cup {path'[i + 1]}
      OBVIOUS
    <3>1. i \in 1..Len(path) /\ i + 1 \in 1..Len(path') /\ i < Len(path)
      BY <1>1, <1>2
    <3> QED
      BY <1>0, <1>2, <1>3, <3>1 DEF Walked, Looked
  <2>2. path' # << >> => Looked(Top)' \subseteq Left'
    <3> SUFFICES ASSUME path' # << >> PROVE Looked(Top)' \subseteq Left'
      OBVIOUS
    <3> DEFINE k == Len(path) - 1
    <3>1. k \in 1..Len(path) /\ k < Len(path) /\ k + 1 = Len(path) /\ k = Len(path')
      BY <1>1, <1>2
    <3>2. Top' = path[k]
      BY <1>2, <3>1 DEF Top
    <3>3. Looked(path[k]) \subseteq Left \cup {Top}
      BY <1>0, <1>1, <3>1 DEF Walked
    <3> HIDE DEF k
    <3> QED
      BY <1>0, <1>3, <3>2, <3>3 DEF Looked
  <2> QED
    BY <1>0, <2>1, <2>2 DEF Walked, Looked
<1>8. Settled'
  <2>1. \A n \in Left' : adj'[n] \subseteq Left'
    BY <1>0, <1>3, <1>4 DEF Settled
  <2>2. Prerequisites' = Prerequisites
    BY <1>0 DEF Prerequisites
  <2>3. ASSUME NEW S \in SUBSET (Left \cup {Top}), S # {}
        PROVE  \E x \in S : Prerequisites[x] \cap S = {}
    <3>1. CASE Top \in S
      <4>1. ASSUME NEW m \in S, m \in Prerequisites[Top] PROVE FALSE
        <5>1. Top \in adj[m]
          BY <1>1, <4>1 DEF Prerequisites
        <5>2. adj[m] \subseteq Left
          BY <1>0, <1>4, <2>3, <4>1 DEF Settled
        <5> QED
          BY <1>1, <5>1, <5>2
      <4> QED
        BY <3>1, <4>1
    <3>2. CASE Top \notin S
      <4>1. S \in SUBSET Left
        BY <2>3, <3>2
      <4> QED
        BY <1>0, <2>3, <4>1 DEF Settled
    <3> QED
      BY <3>1, <3>2
  <2> QED
    BY <1>3, <2>1, <2>2, <2>3 DEF Settled
<1>9. VerdictIsRight'
  BY <1>0 DEF VerdictIsRight
<1> QED
  BY <1>5, <1>6, <1>7, <1>8, <1>9 DEF IInv

\* The search has left every key of the map: a set in which each node has a
\* prerequisite would lie in what it left.
LEMMA FinishStep ==
    ASSUME IInv, result = "searching", Finish
    PROVE  IInv'
<1>0. /\ TypeOK /\ Stacked /\ Settled /\ path = << >> /\ Keys \subseteq visited
      /\ result' = "acyclic" /\ UNCHANGED <<adj, visited, onStack, path, rest>>
  BY DEF IInv, Finish
<1>1. Left = visited
  <2>1. 1..Len(path) = {}
    BY <1>0
  <2> QED
    BY <1>0, <2>1 DEF Stacked, Left
<1>2. ASSUME NEW S \in SUBSET Node, S # {}, \A x \in S : Prerequisites[x] \cap S # {}
      PROVE  FALSE
  <2>1. ASSUME NEW x \in S PROVE x \in Left
    <3>1. PICK m \in S : m \in Prerequisites[x]
      BY <1>2
    <3>2. m \in Node /\ x \in adj[m]
      BY <3>1 DEF Prerequisites
    <3>3. m \in Left
      BY <1>0, <1>1, <3>2 DEF Keys
    <3> QED
      BY <1>0, <3>2, <3>3 DEF Settled
  <2>2. S \in SUBSET Left
    BY <2>1
  <2> QED
    BY <1>0, <1>2, <2>2 DEF Settled
<1>3. ~Cyclic
  BY <1>2 DEF Cyclic
<1>4. ~Cyclic'
  BY <1>0, <1>3, SameGraph
<1>5. TypeOK'
  BY <1>0 DEF TypeOK
<1> QED
  BY <1>0, <1>4, <1>5 DEF IInv, VerdictIsRight

LEMMA StepInv == IInv /\ [Next]_vars => IInv'
<1> SUFFICES ASSUME IInv, [Next]_vars PROVE IInv'
  OBVIOUS
<1>1. CASE Next
  BY <1>1, RootStep, LookStep, BacktrackStep, FinishStep DEF Next
<1>2. CASE UNCHANGED vars
  <2>1. TypeOK' /\ VerdictIsRight'
    <3>1. TypeOK'
      BY <1>2 DEF vars, IInv, TypeOK
    <3>2. Cyclic' <=> Cyclic
      BY <1>2, SameGraph DEF vars
    <3> QED
      BY <1>2, <3>1, <3>2 DEF vars, IInv, VerdictIsRight
  <2>2. result' = "searching" => Stacked' /\ Walked'
    BY <1>2 DEF vars, IInv, Stacked, Walked, Looked, Left, Top
  <2>3. Left' = Left /\ adj' = adj /\ result' = result
    BY <1>2 DEF vars, Left
  <2>4. result' = "searching" => Settled'
    BY <2>3, SettledStays DEF IInv
  <2> QED
    BY <2>1, <2>2, <2>4 DEF IInv
<1> QED
  BY <1>1, <1>2

LEMMA Invariance == Spec => []IInv
<1> QED
  BY InitInv, StepInv, PTL DEF Spec

\* The stack is part of what was visited, and path, neighbours and verdict keep
\* their types (DetectCycle and its closure dfs).
THEOREM SearchTypeCorrect == Spec => []TypeOK
<1>1. IInv => TypeOK
  BY DEF IInv
<1> QED
  BY <1>1, Invariance, PTL

\* DetectCycle answers a cycle exactly when there is one, in a graph over any
\* set of tasks and whatever order Go iterates its maps in.
THEOREM SearchIsRight == Spec => []VerdictIsRight
<1>1. IInv => VerdictIsRight
  BY DEF IInv
<1> QED
  BY <1>1, Invariance, PTL
=============================================================================
