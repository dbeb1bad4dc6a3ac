----------------------------- MODULE PlanEngine -----------------------------
(***************************************************************************)
(* One ExecutePlanRequest inside runtimed: PlanEngine::execute             *)
(* (runtime/workflow/src/engine.rs) over the plan graph                    *)
(* (runtime/core/src/plan.rs) with RealStepExecutor                        *)
(* (runtime/runtimed/src/executor.rs), and the response process_request    *)
(* (runtime/runtimed/src/loop_io.rs) builds from the outcome.              *)
(*                                                                         *)
(* A plan arrives on the wire with the statuses and outputs its sender put *)
(* into it.  Node ids are the positions in plan.nodes (UUIDs are unique);  *)
(* an id that is no position is the id of no node.  Outputs are abstracted *)
(* to what NonEmptyVerifier tells apart.                                   *)
(***************************************************************************)
EXTENDS Integers, Sequences

CONSTANT Plans   \* the plans callers may send: sequences of Node records

Kinds == {"ToolCall", "LlmCall", "ApprovalGate", "Delegation", "Verify", "Checkpoint"}
NodeStatus == {"pending", "running", "waiting_approval", "completed", "failed", "skipped",
               "rolled_back"}
Outputs == {"none", "empty", "value"}

(* target is the target_node_id of a Verify node and 0 otherwise. *)
Node == [kind : Kinds, deps : SUBSET Nat, target : Nat,
         status : NodeStatus \ {"running"}, output : Outputs]

(* A node that is still to run carries no output yet. *)
ASSUME PlansAssumption ==
    /\ Plans \subseteq Seq(Node)
    /\ \A p \in Plans : \A n \in DOMAIN p : p[n].status = "pending" => p[n].output = "none"

VARIABLES
    plan,      \* the plan as it was received
    pc,        \* where process_request is
    cur,       \* the node being executed, 0 if none
    status,    \* status of each node
    output,    \* output of each node
    log,       \* the engine's event log
    response   \* status and output of the ExecutePlanResponse

vars == <<plan, pc, cur, status, output, log, response>>

Event(kind, n) == [kind |-> kind, node |-> n]

Nodes == DOMAIN plan

find_node(id) == id \in Nodes

Pending == {n \in Nodes : status[n] = "pending"}

IsNext(n) == n \in Pending /\ \A m \in Pending : n <= m

(* Mutant of deps_met: a dependency that was skipped or failed will do. *)
deps_settled(n) == \A d \in plan[n].deps : find_node(d) /\ status[d] # "pending"

(* A dependency on an unknown node is never met. *)
deps_met(n) == \A d \in plan[n].deps : find_node(d) /\ status[d] = "completed"

Init ==
    /\ plan \in Plans
    /\ pc = "received"
    /\ cur = 0
    /\ status = [n \in Nodes |-> plan[n].status]
    /\ output = [n \in Nodes |-> plan[n].output]
    /\ log = <<>>
    /\ response = [status |-> "none", output |-> "none"]

(* The plan becomes Running and PlanCreated is emitted. *)
Begin ==
    /\ pc = "received"
    /\ pc' = "loop"
    /\ log' = Append(log, Event("PlanCreated", 0))
    /\ UNCHANGED <<plan, cur, status, output, response>>

(* The first pending node is not ready: `continue` looks at it again.      *)
SkipNode ==
    /\ pc = "loop"
    /\ \E n \in Nodes : IsNext(n) /\ ~deps_met(n)
    /\ UNCHANGED vars

(* The first pending node is ready: mark it running, emit PlanStepStarted. *)
StartNode(n) ==
    /\ pc = "loop"
    /\ IsNext(n)
    /\ deps_met(n)
    /\ pc' = "execute"
    /\ cur' = n
    /\ status' = [status EXCEPT ![n] = "running"]
    /\ log' = Append(log, Event("PlanStepStarted", n))
    /\ UNCHANGED <<plan, output, response>>

(* Mutant of VerifyResult: an empty output passes. *)
VerifyAnyOutput(target) ==
    IF find_node(target) /\ output[target] # "none" THEN {"value"} ELSE {"error"}

(* What execute_step may return for node n: an output, or an error.        *)
VerifyResult(target) ==
    IF find_node(target) /\ output[target] = "value" THEN {"value"} ELSE {"error"}

execute_step(n) ==
    CASE plan[n].kind = "ToolCall" -> {"error", "empty", "value"}
      [] plan[n].kind = "LlmCall" -> {"error", "value"}
      [] plan[n].kind = "Verify" -> VerifyResult(plan[n].target)
      [] plan[n].kind = "Checkpoint" -> {"value"}
      [] OTHER -> {"error"}                       \* ApprovalGate, Delegation

(* Mutant of StepCompletes: the finished node is not forgotten. *)
StepCompletesKeepsCur(out) ==
    /\ pc = "execute"
    /\ out \in execute_step(cur) \ {"error"}
    /\ pc' = "loop"
    /\ status' = [status EXCEPT ![cur] = "completed"]
    /\ output' = [output EXCEPT ![cur] = out]
    /\ log' = Append(log, Event("PlanStepCompleted", cur))
    /\ UNCHANGED <<plan, cur, response>>

(* Mutant of StepCompletes: the node is not marked completed. *)
StepCompletesUnmarked(out) ==
    /\ pc = "execute"
    /\ out \in execute_step(cur) \ {"error"}
    /\ pc' = "loop"
    /\ cur' = 0
    /\ output' = [output EXCEPT ![cur] = out]
    /\ log' = Append(log, Event("PlanStepCompleted", cur))
    /\ UNCHANGED <<plan, status, response>>

StepCompletes(out) ==
    /\ pc = "execute"
    /\ out \in execute_step(cur) \ {"error"}
    /\ pc' = "loop"
    /\ cur' = 0
    /\ status' = [status EXCEPT ![cur] = "completed"]
    /\ output' = [output EXCEPT ![cur] = out]
    /\ log' = Append(log, Event("PlanStepCompleted", cur))
    /\ UNCHANGED <<plan, response>>

(* Mutant of StepFails: the plan goes on with the next node. *)
StepFailsGoesOn ==
    /\ pc = "execute"
    /\ "error" \in execute_step(cur)
    /\ pc' = "loop"
    /\ cur' = 0
    /\ status' = [status EXCEPT ![cur] = "failed"]
    /\ log' = Append(log, Event("PlanStepFailed", cur))
    /\ UNCHANGED <<plan, output, response>>

(* A failed step fails the plan at once: execute returns the error. *)
StepFails ==
    /\ pc = "execute"
    /\ "error" \in execute_step(cur)
    /\ pc' = "failed"
    /\ cur' = 0
    /\ status' = [status EXCEPT ![cur] = "failed"]
    /\ log' = Append(log, Event("PlanStepFailed", cur))
    /\ UNCHANGED <<plan, output, response>>

(* Mutant of Finish: a plan whose next node is not ready is completed. *)
FinishBlocked ==
    /\ pc = "loop"
    /\ \A n \in Pending : ~deps_met(n)
    /\ pc' = "completed"
    /\ log' = Append(log, Event("PlanCompleted", 0))
    /\ UNCHANGED <<plan, cur, status, output, response>>

(* No pending node is left: the plan is Completed. *)
Finish ==
    /\ pc = "loop"
    /\ Pending = {}
    /\ pc' = "completed"
    /\ log' = Append(log, Event("PlanCompleted", 0))
    /\ UNCHANGED <<plan, cur, status, output, response>>

(* process_request: the last node's output on success, nothing on failure. *)
LastOutput == IF plan = <<>> THEN "none" ELSE output[Len(plan)]

Respond ==
    /\ pc \in {"completed", "failed"}
    /\ pc' = "responded"
    /\ response' = [status |-> pc,
                    output |-> IF pc = "completed" THEN LastOutput ELSE "none"]
    /\ UNCHANGED <<plan, cur, status, output, log>>

Next ==
    \/ Begin
    \/ SkipNode
    \/ \E n \in Nodes : StartNode(n)
    \/ \E out \in Outputs : StepCompletes(out)
    \/ StepFails
    \/ Finish
    \/ Respond

Spec == Init /\ [][Next]_vars

(* The tokio task runs on, and every tool and model call returns. *)
FairSpec == Spec /\ WF_vars(Next)

-----------------------------------------------------------------------------
(* Properties. *)

EventKinds == {"PlanCreated", "PlanStepStarted", "PlanStepCompleted", "PlanStepFailed",
               "PlanCompleted"}

(* Every variable has its type. *)
TypeOK ==
    /\ plan \in Plans
    /\ pc \in {"received", "loop", "execute", "completed", "failed", "responded"}
    /\ cur \in Nodes \cup {0}
    /\ (pc = "execute") <=> (cur # 0)
    /\ status \in [Nodes -> NodeStatus]
    /\ output \in [Nodes -> Outputs]
    /\ log \in Seq([kind : EventKinds, node : Nat])
    /\ response \in [status : {"none", "completed", "failed"}, output : Outputs]

Logged(kind, n, before) == \E j \in 1..(before - 1) : log[j] = Event(kind, n)

(* plan.rs: dependencies are "IDs of nodes that must complete before this one *)
(* can execute".  In the event log every step's start comes after the         *)
(* completion of all its dependencies (or they came completed with the plan). *)
DependenciesFirst ==
    \A k \in DOMAIN log : log[k].kind = "PlanStepStarted" =>
        \A d \in plan[log[k].node].deps :
            \/ find_node(d) /\ plan[d].status = "completed"
            \/ Logged("PlanStepCompleted", d, k)

(* A node runs at most once, one at a time, and nothing runs after a failure: *)
(* each start in the log is the node's first and is followed by its own       *)
(* outcome, and PlanStepFailed or PlanCompleted ends the log.                 *)
StrictSequence ==
    \A k \in DOMAIN log :
        /\ log[k].kind = "PlanStepStarted" =>
             /\ ~Logged("PlanStepStarted", log[k].node, k)
             /\ k < Len(log) => /\ log[k+1].node = log[k].node
                                /\ log[k+1].kind \in {"PlanStepCompleted", "PlanStepFailed"}
        /\ log[k].kind \in {"PlanStepFailed", "PlanCompleted"} => k = Len(log)

(* The response tells the truth: Completed means every node the caller sent   *)
(* as pending ran to completion and the log ends in PlanCompleted; Failed     *)
(* means the log ends in the failure of a node that is marked failed, and     *)
(* brings no output.  When the plan's last node completed, the response has   *)
(* its output, the caller's answer.  Nothing is claimed of the output when the plan's *)
(* last node was received as skipped or failed: loop_io.rs:56 wants "the      *)
(* output of the last completed node" and its code takes that of the last     *)
(* node (README, finding 7).                                                  *)
ResponseFaithful ==
    /\ response.status = "completed" =>
         /\ \A n \in Nodes : plan[n].status = "pending" => status[n] = "completed"
         /\ log[Len(log)].kind = "PlanCompleted"
         /\ plan # <<>> /\ status[Len(plan)] = "completed" => response.output = output[Len(plan)]
    /\ response.status = "failed" =>
         /\ log[Len(log)].kind = "PlanStepFailed"
         /\ status[log[Len(log)].node] = "failed"
         /\ response.output = "none"

(* A completed Verify node vouches for its target: unless it came completed   *)
(* with the plan, the target's output exists and is not empty, and stays so.  *)
VerifiedHasOutput ==
    \A n \in Nodes : (plan[n].kind = "Verify" /\ plan[n].status = "pending"
                        /\ status[n] = "completed")
        => find_node(plan[n].target) /\ output[plan[n].target] = "value"

(* Every dependency names an earlier node that can complete. *)
Ordered(p) ==
    \A n \in DOMAIN p : p[n].status = "pending" =>
        \A d \in p[n].deps : /\ d \in 1..(n - 1)
                             /\ p[d].status \in {"pending", "completed"}

(* A plan listed in dependency order gets a response. *)
OrderedPlansTerminate == Ordered(plan) => <>(pc = "responded")

(* Some numbering of the nodes puts every dependency first. *)
Acyclic(p) ==
    \E rank \in [DOMAIN p -> DOMAIN p] :
        \A n \in DOMAIN p : \A d \in p[n].deps : d \in DOMAIN p /\ rank[d] < rank[n]

(* plan.rs: "A plan is a directed acyclic graph of steps", and engine.rs means *)
(* to "Skip nodes whose dependencies aren't met yet": an acyclic plan of fresh *)
(* nodes gets a response in whatever order its nodes are listed.               *)
AcyclicPlansTerminate ==
    (Acyclic(plan) /\ \A n \in Nodes : plan[n].status = "pending") => <>(pc = "responded")
=============================================================================
