------------------------------ MODULE TaskGraph ------------------------------
(***************************************************************************)
(* The dependency graph of internal/domain/graph.go.  A dependency is an   *)
(* edge <<blocker, blocked>>.  Reachability and acyclicity are stated with *)
(* closed sets and minimal elements instead of a search, so that theorems  *)
(* about them need no induction.                                           *)
(***************************************************************************)
\* C holds every task that a task of C blocks.
Closed(C, edges) == \A e \in edges : e[1] \in C => e[2] \in C

Ends(edges) == {e[1] : e \in edges} \cup {e[2] : e \in edges}

\* `to` is in every closed set that holds `from`: the visited set of the
\* depth-first search of CyclePath is the least of them.
Reaches(edges, from, to) ==
    \A C \in SUBSET (Ends(edges) \cup {from}) : from \in C /\ Closed(C, edges) => to \in C

\* A slip one could make in CyclePath: only the edge from a task to itself.
ClosesSelfLoop(edges, blocker, blocked) == blocker = blocked

\* CyclePath finds a path: blocker -> blocked would close a cycle.
ClosesCycle(edges, blocker, blocked) ==
    blocker = blocked \/ Reaches(edges, blocked, blocker)

\* TopologicalOrder succeeds: whatever is left of the queue algorithm, some
\* task of it has no blocker in it, so the algorithm never stops early.
Acyclic(nodes, edges) ==
    \A S \in SUBSET nodes : S # {} => \E t \in S : \A u \in S : <<u, t>> \notin edges

==============================================================================
