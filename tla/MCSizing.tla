------------------------------ MODULE MCSizing ------------------------------
(***************************************************************************)
(* A node of three or four units of cpu and memory and one accelerator, a  *)
(* claim that reports more, less or nothing, and Pods of every kind.       *)
(***************************************************************************)
EXTENDS Sizing

MCNames == <<"cpu", "memory", "nvidia">>

MCPod(id, requests) ==
    [id |-> id, requests |-> requests, daemonSet |-> FALSE, mirror |-> FALSE,
     selector |-> NoHost, terms |-> {}]

MCList(c, m) == [r \in {"cpu", "memory"} |-> IF r = "cpu" THEN c ELSE m]

MCPods == {
    MCPod(1, MCList(1, 2)),
    MCPod(2, Empty),
    MCPod(3, [r \in {"nvidia", "memory"} |-> 1]),
    [MCPod(4, MCList(1, 2)) EXCEPT !.daemonSet = TRUE],
    [MCPod(5, MCList(1, 0)) EXCEPT !.mirror = TRUE],
    [MCPod(6, MCList(1, 1)) EXCEPT !.selector = Candidate],
    [MCPod(7, MCList(0, 1)) EXCEPT !.terms = {{Candidate}, {Candidate, "other"}}],
    [MCPod(8, MCList(2, 0)) EXCEPT !.terms = {{Candidate}}] }

MCNode == [r \in {"cpu", "memory", "nvidia"} |-> IF r = "nvidia" THEN 1 ELSE 4]

MCClusters ==
    [nodeAllocatable: {MCNode},
     claimAllocatable: {MCNode, MCList(4, 3), MCList(1, 3), Empty},
     wholeNode: BOOLEAN,
     limits: {Empty, MCList(4, 4)},
     provisioned: {MCList(3, 3)}]

=============================================================================
