-------------------------- MODULE MCWorkflowEngine --------------------------
(* Every wiring of a trigger, a condition, a gate, an adapter and an output, *)
(* and a few graphs of two gates.                                            *)
EXTENDS WorkflowEngine, TLC

PortsOf(t) == IF t = "branch" THEN {"true", "false"} ELSE {"default"}
EdgesOf(type) ==
  {e \in [source : DOMAIN type, target : DOMAIN type, port : Ports] :
     e.source < e.target /\ e.port \in PortsOf(type[e.source]) /\ type[e.source] # "output"}
Graph(type, edges) ==
  [type |-> type, edges |-> edges, value |-> [n \in DOMAIN type |-> "yes"], from |-> [n \in DOMAIN type |-> n],
   ready |-> DOMAIN type]
Edge(m, n, p) == [source |-> m, target |-> n, port |-> p]
Chain(type) == {Edge(n, n + 1, "default") : n \in 1 .. Len(type) - 1}

Five == <<"manual", "branch", "approval", "adapter", "output">>
Wirings == {Graph(Five, edges) : edges \in {E \in SUBSET EdgesOf(Five) : \A n \in 2 .. 5 : \E e \in E : e.target = n}}

TwoGates == <<"manual", "approval", "adapter", "approval", "output">>
Forked == <<"manual", "approval", "branch", "set", "adapter", "approval", "output">>
ForkedEdges == {Edge(1, 2, "default"), Edge(2, 3, "default"), Edge(3, 4, "true"), Edge(3, 5, "false"),
                Edge(4, 6, "default"), Edge(5, 6, "default"), Edge(6, 7, "default")}
Long == <<"manual", "set", "set", "set", "approval", "set", "output">>
Side == <<"manual", "branch", "set", "approval", "output">>
SideEdges == {Edge(1, 2, "default"), Edge(2, 3, "true"), Edge(3, 4, "default"), Edge(2, 4, "false"), Edge(4, 5, "default")}

Others == {Graph(TwoGates, Chain(TwoGates)), Graph(Forked, ForkedEdges), Graph(Long, Chain(Long)),
           [Graph(TwoGates, Chain(TwoGates)) EXCEPT !.ready = {1, 2, 3, 5}],
           [Graph(Side, SideEdges) EXCEPT !.from[5] = 3],
           [Graph(Side, SideEdges) EXCEPT !.from[3] = 0, !.value[3] = "no"]}

Symmetry == Permutations(Resumes) \cup Permutations(Runs \ Started)

MCGraphs == Wirings \cup Others
=============================================================================
