---------------------------- MODULE MCPlanEngine ----------------------------
(***************************************************************************)
(* PlanEngine for TLC: all plans of up to two nodes over every node kind,  *)
(* dependency (on an earlier, a later, the same or an unknown node) and    *)
(* Verify target, and all plans of three fresh tool or checkpoint nodes    *)
(* over every dependency graph.                                            *)
(***************************************************************************)
EXTENDS PlanEngine

Fresh(kind, deps, target) ==
    [kind |-> kind, deps |-> deps, target |-> target, status |-> "pending", output |-> "none"]

Received(s, o) ==
    [kind |-> "ToolCall", deps |-> {}, target |-> 0, status |-> s, output |-> o]

SmallNodes ==
    {Fresh(k, deps, 0) : k \in Kinds \ {"Verify"}, deps \in SUBSET {1, 2, 9}}
      \cup {Fresh("Verify", deps, t) : deps \in SUBSET {1, 2}, t \in {1, 2, 9}}
      \cup {Received(s, o) : s \in {"completed", "failed", "skipped"}, o \in {"none", "value"}}

GraphNodes == {Fresh(k, deps, 0) : k \in {"ToolCall", "Checkpoint"}, deps \in SUBSET {1, 2, 3}}

GraphPlans == [1..3 -> GraphNodes]

MCPlans == (UNION {[1..len -> SmallNodes] : len \in 0..2}) \cup GraphPlans
=============================================================================
