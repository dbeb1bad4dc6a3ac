-------------------------- MODULE PlanEngineProofs --------------------------
(***************************************************************************)
(* Machine-checked proofs about PlanEngine, for plans of any length, shape *)
(* and mix of node kinds.                                                  *)
(***************************************************************************)
EXTENDS PlanEngine, SequenceTheorems, TLAPS

Events == [kind : EventKinds, node : Nat]

(* Appending an event keeps the rest of the log. *)
LEMMA LogAppend ==
    ASSUME log \in Seq(Events), NEW e \in Events, log' = Append(log, e)
    PROVE  /\ log' \in Seq(Events)
           /\ Len(log) \in Nat
           /\ Len(log') = Len(log) + 1
           /\ DOMAIN log = 1..Len(log)
           /\ DOMAIN log' = 1..(Len(log) + 1)
           /\ \A i \in 1..Len(log) : log'[i] = log[i] /\ log[i] \in Events
           /\ log'[Len(log) + 1] = e
  BY AppendProperties, LenProperties, ElementOfSeq

-----------------------------------------------------------------------------
(* Types. *)

(* A received plan is a sequence of nodes; those still to run have no output. *)
LEMMA NodesOfPlan ==
    ASSUME plan \in Plans
    PROVE  /\ Nodes = 1..Len(plan)
           /\ Len(plan) \in Nat
           /\ \A n \in Nodes : plan[n] \in Node
           /\ \A n \in Nodes : plan[n].status = "pending" => plan[n].output = "none"
<1>1. plan \in Seq(Node)
  BY PlansAssumption
<1>2. QED
  BY <1>1, PlansAssumption, LenProperties, ElementOfSeq DEF Nodes

(* process_request starts from a well-typed state. *)
LEMMA TypeInit == Init => TypeOK
<1> SUFFICES ASSUME Init PROVE TypeOK
  OBVIOUS
<1>1. plan \in Plans
  BY DEF Init
<1>2. status \in [Nodes -> NodeStatus] /\ output \in [Nodes -> Outputs]
  BY <1>1, NodesOfPlan DEF Init, Node, NodeStatus
<1>3. log \in Seq(Events)
  BY EmptySeq DEF Init
<1>4. QED
  BY <1>1, <1>2, <1>3 DEF Init, TypeOK, Outputs, Events

(* Every step of the engine keeps the types. *)
LEMMA TypeStep == TypeOK /\ [Next]_vars => TypeOK'
<1> SUFFICES ASSUME TypeOK, [Next]_vars PROVE TypeOK'
  OBVIOUS
<1>0. /\ Nodes = 1..Len(plan) /\ Len(plan) \in Nat /\ log \in Seq(Events)
      /\ \A n \in Nodes : n \in Nat \ {0}
  BY NodesOfPlan DEF TypeOK, Events
<1>e. \A k \in EventKinds, n \in Nodes \cup {0} : Event(k, n) \in Events
  BY <1>0 DEF Event, Events
<1>1. CASE Begin
  <2>1. log' \in Seq(Events)
    BY <1>0, <1>1, <1>e, LogAppend DEF Begin, EventKinds
  <2>2. QED
    BY <1>1, <2>1 DEF Begin, TypeOK, Nodes, Events
<1>2. CASE SkipNode
  BY <1>2 DEF SkipNode, vars, TypeOK, Nodes
<1>3. ASSUME NEW n \in Nodes, StartNode(n) PROVE TypeOK'
  <2>1. log' \in Seq(Events)
    BY <1>0, <1>3, <1>e, LogAppend DEF StartNode, EventKinds
  <2>2. QED
    BY <1>0, <1>3, <2>1 DEF StartNode, TypeOK, Nodes, NodeStatus, Events
<1>4. ASSUME NEW out \in Outputs, StepCompletes(out) PROVE TypeOK'
  <2>1. log' \in Seq(Events)
    BY <1>0, <1>4, <1>e, LogAppend DEF StepCompletes, EventKinds, TypeOK
  <2>2. QED
    BY <1>4, <2>1 DEF StepCompletes, TypeOK, Nodes, NodeStatus, Events
<1>5. CASE StepFails
  <2>1. log' \in Seq(Events)
    BY <1>0, <1>5, <1>e, LogAppend DEF StepFails, EventKinds, TypeOK
  <2>2. QED
    BY <1>5, <2>1 DEF StepFails, TypeOK, Nodes, NodeStatus, Events
<1>6. CASE Finish
  <2>1. log' \in Seq(Events)
    BY <1>0, <1>6, <1>e, LogAppend DEF Finish, EventKinds
  <2>2. QED
    BY <1>6, <2>1 DEF Finish, TypeOK, Nodes, Events
<1>7. CASE Respond
  <2>1. LastOutput \in Outputs
    <3>1. CASE plan = <<>>
      BY <3>1 DEF LastOutput, Outputs
    <3>2. CASE plan # <<>>
      <4>1. Len(plan) \in Nodes
        BY <1>0, <3>2, PlansAssumption, EmptySeq DEF TypeOK
      <4>2. QED
        BY <4>1, <3>2 DEF LastOutput, TypeOK
    <3>3. QED
      BY <3>1, <3>2
  <2>2. response' \in [status : {"none", "completed", "failed"}, output : Outputs]
    BY <1>7, <2>1 DEF Respond, Outputs
  <2>3. QED
    BY <1>7, <2>2 DEF Respond, TypeOK, Nodes
<1>8. CASE UNCHANGED vars
  BY <1>8 DEF vars, TypeOK, Nodes
<1>9. QED
  BY <1>1, <1>2, <1>3, <1>4, <1>5, <1>6, <1>7, <1>8 DEF Next

(* TypeOK holds of every plan execution. *)
THEOREM TypeCorrect == Spec => []TypeOK
  BY TypeInit, TypeStep, PTL DEF Spec

-----------------------------------------------------------------------------
(* The inductive invariant.  The log explains the statuses (CompletedLogged, *)
(* StartedLeft), its last event tells where execute is (LastEvent), a node   *)
(* sent as pending can only be in the places its own run puts it (Progress), *)
(* and no node has an output before its run ends (OutputLast).               *)

Last == log[Len(log)]

CompletedLogged ==
    \A n \in Nodes : status[n] = "completed" =>
        \/ plan[n].status = "completed"
        \/ \E j \in 1..Len(log) : log[j] = Event("PlanStepCompleted", n)

StartedLeft ==
    \A j \in 1..Len(log) : log[j].kind = "PlanStepStarted" =>
        log[j].node \in Nodes /\ status[log[j].node] # "pending"

FailedLast ==
    Last.kind = "PlanStepFailed" /\ Last.node \in Nodes /\ status[Last.node] = "failed"

LastEvent ==
    /\ pc = "received" => log = <<>>
    /\ pc # "received" => Len(log) > 0
    /\ pc = "loop" => Last.kind \in {"PlanCreated", "PlanStepCompleted"}
    /\ pc = "execute" => Last = Event("PlanStepStarted", cur)
    /\ pc = "completed" => Last.kind = "PlanCompleted"
    /\ pc = "failed" => FailedLast
    /\ response.status # "none" <=> pc = "responded"
    /\ response.status = "completed" => Last.kind = "PlanCompleted"
    /\ response.status = "failed" => FailedLast

Progress ==
    \A n \in Nodes : plan[n].status = "pending" =>
        \/ status[n] = "pending" /\ pc # "completed" /\ response.status # "completed"
        \/ status[n] = "completed"
        \/ status[n] = "running" /\ n = cur
        \/ status[n] = "failed" /\ (pc = "failed" \/ response.status = "failed")

OutputLast ==
    \A n \in Nodes : status[n] \in {"pending", "running"} =>
        /\ output[n] = "none"
        /\ status[n] = "running" => n = cur

CurRuns == pc = "execute" => status[cur] = "running"

IInv == TypeOK /\ CompletedLogged /\ StartedLeft /\ LastEvent /\ Progress /\ OutputLast /\ CurRuns

(* Nothing has happened yet when the plan arrives. *)
LEMMA InvInit == Init => IInv
<1> SUFFICES ASSUME Init PROVE IInv
  OBVIOUS
<1>1. TypeOK
  BY TypeInit
<1>2. Len(log) = 0 /\ plan \in Plans
  BY EmptySeq DEF Init
<1>3. CompletedLogged /\ StartedLeft /\ CurRuns
  BY <1>2 DEF Init, CompletedLogged, StartedLeft, CurRuns
<1>4. LastEvent
  BY <1>2 DEF Init, LastEvent
<1>5. Progress /\ OutputLast
  BY <1>2, NodesOfPlan DEF Init, Progress, OutputLast, Node
<1>6. QED
  BY <1>1, <1>3, <1>4, <1>5 DEF IInv

(* PlanCreated is the first event. *)
LEMMA BeginInv == ASSUME IInv, Begin PROVE IInv'
<1>1. /\ log = <<>> /\ Len(log) = 0 /\ Nodes' = Nodes /\ TypeOK'
      /\ log \in Seq(Events)
  BY TypeStep, EmptySeq DEF IInv, LastEvent, TypeOK, Begin, Nodes, Events, Next
<1>2. Event("PlanCreated", 0) \in Events /\ log' = Append(log, Event("PlanCreated", 0))
  BY DEF Begin, Event, Events, EventKinds
<1>3. Len(log') = 1 /\ log'[1] = Event("PlanCreated", 0)
  BY <1>1, <1>2, LogAppend
<1>4. CompletedLogged' /\ StartedLeft' /\ CurRuns'
  BY <1>1, <1>3 DEF IInv, Begin, CompletedLogged, StartedLeft, CurRuns, Event
<1>5. LastEvent'
  BY <1>3 DEF IInv, LastEvent, Begin, Last, Event
<1>6. Progress' /\ OutputLast'
  BY <1>1 DEF IInv, Begin, Progress, OutputLast
<1>7. QED
  BY <1>1, <1>4, <1>5, <1>6 DEF IInv

(* A node starts: it leaves pending and the log ends in its start. *)
LEMMA StartInv == ASSUME IInv, NEW n \in Nodes, StartNode(n) PROVE IInv'
<1>0. TypeOK /\ TypeOK' /\ \A m \in Nodes : m \in Nat \ {0}
  BY TypeStep, NodesOfPlan DEF IInv, TypeOK, Next
<1>1. /\ Nodes' = Nodes /\ log \in Seq(Events) /\ n \in Nat
      /\ status[n] = "pending"
  BY <1>0 DEF IInv, TypeOK, StartNode, Nodes, Events, IsNext, Pending
<1>2. Event("PlanStepStarted", n) \in Events
      /\ log' = Append(log, Event("PlanStepStarted", n))
  BY <1>0, <1>1 DEF StartNode, Event, Events, EventKinds
<1>3. /\ Len(log) \in Nat /\ Len(log') = Len(log) + 1
      /\ log'[Len(log')] = Event("PlanStepStarted", n)
      /\ \A j \in 1..Len(log) : log'[j] = log[j]
      /\ \A j \in 1..Len(log') : j \in 1..Len(log) \/ j = Len(log')
  BY <1>0, <1>1, <1>2, LogAppend
<1>4. CompletedLogged'
  BY <1>0, <1>1, <1>3 DEF IInv, StartNode, CompletedLogged, TypeOK
<1>5. StartedLeft'
  BY <1>0, <1>1, <1>3 DEF IInv, StartNode, StartedLeft, TypeOK, Event
<1>6. LastEvent' /\ CurRuns'
  BY <1>0, <1>1, <1>3 DEF IInv, LastEvent, StartNode, Last, CurRuns, TypeOK
<1>7. Progress' /\ OutputLast'
  BY <1>0, <1>1 DEF IInv, StartNode, Progress, OutputLast, TypeOK
<1>8. QED
  BY <1>0, <1>1, <1>4, <1>5, <1>6, <1>7 DEF IInv

(* The running node completes: the log says so and the output is its own. *)
LEMMA CompleteInv == ASSUME IInv, NEW out \in Outputs, StepCompletes(out) PROVE IInv'
<1>0. TypeOK /\ TypeOK' /\ \A m \in Nodes : m \in Nat \ {0}
  BY TypeStep, NodesOfPlan DEF IInv, TypeOK, Next
<1>1. /\ Nodes' = Nodes /\ log \in Seq(Events)
      /\ cur \in Nodes /\ cur \in Nat /\ status[cur] = "running"
  BY <1>0 DEF IInv, TypeOK, StepCompletes, Nodes, Events, CurRuns
<1>2. Event("PlanStepCompleted", cur) \in Events
      /\ log' = Append(log, Event("PlanStepCompleted", cur))
  BY <1>0, <1>1 DEF StepCompletes, Event, Events, EventKinds
<1>3. /\ Len(log) \in Nat /\ Len(log') = Len(log) + 1
      /\ log'[Len(log')] = Event("PlanStepCompleted", cur)
      /\ \A j \in 1..Len(log) : log'[j] = log[j]
      /\ \A j \in 1..Len(log') : j \in 1..Len(log) \/ j = Len(log')
  BY <1>0, <1>1, <1>2, LogAppend
<1>4. CompletedLogged'
  BY <1>0, <1>1, <1>3 DEF IInv, StepCompletes, CompletedLogged, TypeOK
<1>5. StartedLeft'
  BY <1>0, <1>1, <1>3 DEF IInv, StepCompletes, StartedLeft, TypeOK, Event
<1>6. LastEvent' /\ CurRuns'
  BY <1>0, <1>1, <1>3 DEF IInv, LastEvent, StepCompletes, Last, CurRuns, Event
<1>7. Progress' /\ OutputLast'
  BY <1>0, <1>1 DEF IInv, StepCompletes, Progress, OutputLast, TypeOK
<1>8. QED
  BY <1>0, <1>1, <1>4, <1>5, <1>6, <1>7 DEF IInv

(* The running node fails, and the engine stops with that event. *)
LEMMA FailInv == ASSUME IInv, StepFails PROVE IInv'
<1>0. TypeOK /\ TypeOK' /\ \A m \in Nodes : m \in Nat \ {0}
  BY TypeStep, NodesOfPlan DEF IInv, TypeOK, Next
<1>1. /\ Nodes' = Nodes /\ log \in Seq(Events)
      /\ cur \in Nodes /\ cur \in Nat /\ status[cur] = "running"
  BY <1>0 DEF IInv, TypeOK, StepFails, Nodes, Events, CurRuns
<1>2. Event("PlanStepFailed", cur) \in Events
      /\ log' = Append(log, Event("PlanStepFailed", cur))
  BY <1>0, <1>1 DEF StepFails, Event, Events, EventKinds
<1>3. /\ Len(log) \in Nat /\ Len(log') = Len(log) + 1
      /\ log'[Len(log')] = Event("PlanStepFailed", cur)
      /\ \A j \in 1..Len(log) : log'[j] = log[j]
      /\ \A j \in 1..Len(log') : j \in 1..Len(log) \/ j = Len(log')
  BY <1>0, <1>1, <1>2, LogAppend
<1>4. CompletedLogged'
  BY <1>0, <1>1, <1>3 DEF IInv, StepFails, CompletedLogged, TypeOK
<1>5. StartedLeft'
  BY <1>0, <1>1, <1>3 DEF IInv, StepFails, StartedLeft, TypeOK, Event
<1>6. LastEvent' /\ CurRuns'
  BY <1>0, <1>1, <1>3 DEF IInv, LastEvent, FailedLast, StepFails, Last, CurRuns, Event, TypeOK
<1>7. Progress' /\ OutputLast'
  BY <1>0, <1>1 DEF IInv, StepFails, Progress, OutputLast, TypeOK
<1>8. QED
  BY <1>0, <1>1, <1>4, <1>5, <1>6, <1>7 DEF IInv

(* No node is pending any more when PlanCompleted is emitted. *)
LEMMA FinishInv == ASSUME IInv, Finish PROVE IInv'
<1>1. /\ Nodes' = Nodes /\ TypeOK' /\ TypeOK /\ log \in Seq(Events)
      /\ \A n \in Nodes : status[n] # "pending"
  BY TypeStep DEF IInv, TypeOK, Finish, Nodes, Events, Next, Pending
<1>2. Event("PlanCompleted", 0) \in Events /\ log' = Append(log, Event("PlanCompleted", 0))
  BY <1>1 DEF Finish, Event, Events, EventKinds
<1>3. /\ Len(log) \in Nat /\ Len(log') = Len(log) + 1
      /\ log'[Len(log')] = Event("PlanCompleted", 0)
      /\ \A j \in 1..Len(log) : log'[j] = log[j]
      /\ \A j \in 1..Len(log') : j \in 1..Len(log) \/ j = Len(log')
  BY <1>1, <1>2, LogAppend
<1>4. CompletedLogged'
  BY <1>1, <1>3 DEF IInv, Finish, CompletedLogged
<1>5. StartedLeft'
  BY <1>1, <1>3 DEF IInv, Finish, StartedLeft, Event
<1>6. LastEvent' /\ CurRuns'
  BY <1>1, <1>3 DEF IInv, LastEvent, Finish, Last, CurRuns, Event
<1>7. Progress' /\ OutputLast'
  BY <1>1 DEF IInv, Finish, Progress, OutputLast
<1>8. QED
  BY <1>1, <1>4, <1>5, <1>6, <1>7 DEF IInv

(* The response repeats the outcome the log ends in. *)
LEMMA RespondInv == ASSUME IInv, Respond PROVE IInv'
<1>1. Nodes' = Nodes /\ TypeOK'
  BY TypeStep DEF IInv, TypeOK, Respond, Nodes, Next
<1>2. CompletedLogged' /\ StartedLeft' /\ OutputLast' /\ CurRuns'
  BY <1>1 DEF IInv, Respond, CompletedLogged, StartedLeft, OutputLast, CurRuns
<1>3. LastEvent'
  BY <1>1 DEF IInv, LastEvent, FailedLast, Respond, Last
<1>4. Progress'
  BY <1>1 DEF IInv, Respond, Progress, LastEvent
<1>5. QED
  BY <1>1, <1>2, <1>3, <1>4 DEF IInv

(* IInv is inductive. *)
LEMMA InvStep == IInv /\ [Next]_vars => IInv'
<1> SUFFICES ASSUME IInv, [Next]_vars PROVE IInv'
  OBVIOUS
<1>1. CASE UNCHANGED vars
  BY <1>1 DEF vars, IInv, TypeOK, Nodes, CompletedLogged, StartedLeft, LastEvent, FailedLast,
              Last, Progress, OutputLast, CurRuns
<1>2. CASE SkipNode
  BY <1>1, <1>2 DEF SkipNode
<1>3. QED
  BY <1>1, <1>2, BeginInv, StartInv, CompleteInv, FailInv, FinishInv, RespondInv DEF Next

(* IInv holds of every plan execution. *)
LEMMA Invariance == Spec => []IInv
  BY InvInit, InvStep, PTL DEF Spec

-----------------------------------------------------------------------------
(* The properties. *)

(* The event an action appends to the log, and nothing else changes in it. *)
LEMMA LogGrows ==
    ASSUME IInv, [Next]_vars
    PROVE  \/ log' = log /\ plan' = plan
           \/ /\ plan' = plan /\ Nodes' = Nodes
              /\ \E k \in EventKinds, n \in Nodes \cup {0} :
                   Event(k, n) \in Events /\ log' = Append(log, Event(k, n))
<1>0. TypeOK /\ \A m \in Nodes \cup {0} : m \in Nat
  BY NodesOfPlan DEF IInv, TypeOK
<1>e. \A k \in EventKinds, n \in Nodes \cup {0} : Event(k, n) \in Events
  BY <1>0 DEF Event, Events
<1>1. CASE Begin
  BY <1>1, <1>e DEF Begin, Nodes, EventKinds
<1>2. CASE SkipNode \/ UNCHANGED vars
  BY <1>2 DEF SkipNode, vars
<1>3. ASSUME NEW n \in Nodes, StartNode(n) PROVE log' = Append(log, Event("PlanStepStarted", n))
                                                /\ plan' = plan
  BY <1>3 DEF StartNode
<1>4. ASSUME NEW out \in Outputs, StepCompletes(out)
      PROVE  log' = Append(log, Event("PlanStepCompleted", cur)) /\ plan' = plan
  BY <1>4 DEF StepCompletes
<1>5. CASE StepFails
  BY <1>5, <1>0, <1>e DEF StepFails, Nodes, EventKinds, TypeOK
<1>6. CASE Finish
  BY <1>6, <1>e DEF Finish, Nodes, EventKinds
<1>7. CASE Respond
  BY <1>7 DEF Respond
<1>8. QED
  BY <1>0, <1>1, <1>2, <1>3, <1>4, <1>5, <1>6, <1>7, <1>e DEF Next, Nodes, EventKinds, TypeOK

(* A start is appended only by StartNode, and an event only while execute runs. *)
LEMMA LogGuards ==
    ASSUME IInv, [Next]_vars, NEW k, NEW n, log' = Append(log, Event(k, n)), log' # log
    PROVE  /\ k = "PlanStepStarted" => StartNode(n) /\ n \in Nodes
           /\ pc \in {"received", "loop", "execute"}
           /\ pc = "execute" => n = cur /\ k \in {"PlanStepCompleted", "PlanStepFailed"}
<1>1. /\ log \in Seq(Events)
      /\ \A e, f : Append(log, e) = Append(log, f) => e = f
      /\ TypeOK
  <2>1. log \in Seq(Events) /\ TypeOK
    BY DEF IInv, TypeOK, Events
  <2>2. QED
    BY <2>1
<1>2. QED
  BY <1>1 DEF Next, Begin, SkipNode, StartNode, StepCompletes, StepFails, Finish, Respond,
              Event, vars

(* The log after an event, in the terms the properties use. *)
LEMMA LogShape ==
    ASSUME IInv, NEW e \in Events, log' = Append(log, e)
    PROVE  /\ Len(log) \in Nat /\ Len(log') = Len(log) + 1
           /\ DOMAIN log = 1..Len(log)
           /\ DOMAIN log' = 1..(Len(log) + 1)
           /\ \A i \in 1..Len(log) : log'[i] = log[i]
           /\ log'[Len(log) + 1] = e
           /\ log' # log
<1>1. log \in Seq(Events)
  BY DEF IInv, TypeOK, Events
<1>2. QED
  BY <1>1, LogAppend

(* A step starts only once its dependencies have completed (engine.rs: deps_met), *)
(* for plans of any shape.                                                        *)
THEOREM DependenciesFirstHolds == Spec => []DependenciesFirst
<1>1. Init => DependenciesFirst
  BY DEF Init, DependenciesFirst
<1>2. ASSUME IInv, DependenciesFirst, [Next]_vars PROVE DependenciesFirst'
  <2>1. CASE log' = log /\ plan' = plan
    BY <1>2, <2>1 DEF DependenciesFirst, Logged, find_node, Nodes
  <2>2. ASSUME NEW k \in EventKinds, NEW n, Event(k, n) \in Events, plan' = plan,
               log' = Append(log, Event(k, n))
        PROVE  DependenciesFirst'
    <3>0. Nodes' = Nodes
      BY <2>2 DEF Nodes
    <3>1. /\ Len(log) \in Nat /\ log' # log
          /\ DOMAIN log = 1..Len(log) /\ DOMAIN log' = 1..(Len(log) + 1)
          /\ \A i \in 1..Len(log) : log'[i] = log[i]
          /\ log'[Len(log) + 1] = Event(k, n)
      BY <1>2, <2>2, LogShape
    <3>2. SUFFICES ASSUME NEW i \in DOMAIN log', log'[i].kind = "PlanStepStarted",
                          NEW d \in plan[log'[i].node].deps
                   PROVE  \/ d \in Nodes /\ plan[d].status = "completed"
                          \/ \E j \in 1..(i - 1) : log'[j] = Event("PlanStepCompleted", d)
      BY <2>2, <3>0 DEF DependenciesFirst, find_node, Logged
    <3>3. CASE i \in 1..Len(log)
      BY <1>2, <3>1, <3>2, <3>3 DEF DependenciesFirst, find_node, Logged
    <3>4. CASE i = Len(log) + 1
      <4>1. k = "PlanStepStarted" /\ log'[i].node = n
        BY <3>1, <3>2, <3>4 DEF Event
      <4>2. StartNode(n) /\ n \in Nodes
        BY <1>2, <2>2, <3>1, <4>1, LogGuards
      <4>3. d \in Nodes /\ status[d] = "completed"
        BY <3>2, <4>1, <4>2 DEF StartNode, deps_met, find_node
      <4>4. \/ plan[d].status = "completed"
            \/ \E j \in 1..Len(log) : log[j] = Event("PlanStepCompleted", d)
        BY <1>2, <4>3 DEF IInv, CompletedLogged
      <4>5. QED
        BY <3>1, <3>4, <4>3, <4>4
    <3>5. QED
      BY <3>1, <3>3, <3>4
  <2>3. QED
    BY <1>2, <2>1, <2>2, LogGrows
<1>3. QED
  BY <1>1, <1>2, Invariance, PTL DEF Spec

(* A node runs at most once, one at a time, and nothing follows a failure. *)
THEOREM StrictSequenceHolds == Spec => []StrictSequence
<1>1. Init => StrictSequence
  BY DEF Init, StrictSequence
<1>2. ASSUME IInv, StrictSequence, [Next]_vars PROVE StrictSequence'
  <2>1. CASE log' = log /\ plan' = plan
    BY <1>2, <2>1 DEF StrictSequence, Logged
  <2>2. ASSUME NEW k \in EventKinds, NEW n, Event(k, n) \in Events,
               log' = Append(log, Event(k, n))
        PROVE  StrictSequence'
    <3>1. /\ Len(log) \in Nat /\ log' # log /\ Len(log') = Len(log) + 1
          /\ DOMAIN log = 1..Len(log) /\ DOMAIN log' = 1..(Len(log) + 1)
          /\ \A i \in 1..Len(log) : log'[i] = log[i]
          /\ log'[Len(log) + 1] = Event(k, n)
      BY <1>2, <2>2, LogShape
    <3>2. /\ k = "PlanStepStarted" => StartNode(n) /\ n \in Nodes
          /\ pc \in {"received", "loop", "execute"}
          /\ pc = "execute" => n = cur /\ k \in {"PlanStepCompleted", "PlanStepFailed"}
      BY <1>2, <2>2, <3>1, LogGuards
    <3>3. ASSUME NEW i \in 1..Len(log), log[i].kind = "PlanStepStarted"
          PROVE  /\ ~\E j \in 1..(i - 1) : log'[j] = Event("PlanStepStarted", log[i].node)
                 /\ log'[i + 1].node = log[i].node
                 /\ log'[i + 1].kind \in {"PlanStepCompleted", "PlanStepFailed"}
      <4>1. ~\E j \in 1..(i - 1) : log'[j] = Event("PlanStepStarted", log[i].node)
        BY <1>2, <3>1, <3>3 DEF StrictSequence, Logged
      <4>2. CASE i < Len(log)
        BY <1>2, <3>1, <3>3, <4>1, <4>2 DEF StrictSequence
      <4>3. CASE i = Len(log)
        <5>1. pc = "execute" /\ log[i] = Event("PlanStepStarted", cur)
          BY <1>2, <3>1, <3>2, <3>3, <4>3, EmptySeq DEF IInv, LastEvent, Last
        <5>2. QED
          BY <3>1, <3>2, <4>1, <4>3, <5>1 DEF Event
      <4>4. i < Len(log) \/ i = Len(log)
        <5>1. Len(log) \in Nat
          BY <3>1
        <5>2. QED
          BY <5>1
      <4>5. QED
        BY <4>2, <4>3, <4>4
    <3>4. ASSUME NEW i \in 1..Len(log), log[i].kind \in {"PlanStepFailed", "PlanCompleted"}
          PROVE  FALSE
      <4>1. i = Len(log)
        BY <1>2, <3>1, <3>4 DEF StrictSequence
      <4>2. QED
        BY <1>2, <3>1, <3>2, <3>4, <4>1, EmptySeq DEF IInv, LastEvent, Last, Event
    <3>5. k = "PlanStepStarted" => ~\E j \in 1..Len(log) : log[j] = Event("PlanStepStarted", n)
      BY <1>2, <3>2 DEF IInv, StartedLeft, StartNode, IsNext, Pending, Event
    <3>6. ASSUME NEW i \in DOMAIN log'
          PROVE  /\ log'[i].kind = "PlanStepStarted" =>
                      /\ ~\E j \in 1..(i - 1) : log'[j] = Event("PlanStepStarted", log'[i].node)
                      /\ i < Len(log') => /\ log'[i+1].node = log'[i].node
                                          /\ log'[i+1].kind \in {"PlanStepCompleted", "PlanStepFailed"}
                 /\ log'[i].kind \in {"PlanStepFailed", "PlanCompleted"} => i = Len(log')
      <4>1. CASE i \in 1..Len(log)
        BY <3>1, <3>3, <3>4, <4>1
      <4>2. CASE i = Len(log) + 1
        BY <3>1, <3>5, <4>2 DEF Event
      <4>3. QED
        BY <3>1, <3>6, <4>1, <4>2
    <3>7. QED
      BY <3>6 DEF StrictSequence, Logged
  <2>3. QED
    BY <1>2, <2>1, <2>2, LogGrows
<1>3. QED
  BY <1>1, <1>2, Invariance, PTL DEF Spec

(* The ExecutePlanResponse says what happened. *)
THEOREM ResponseFaithfulHolds == Spec => []ResponseFaithful
<1>1. Init => ResponseFaithful
  BY DEF Init, ResponseFaithful
<1>2. ASSUME IInv, ResponseFaithful, [Next]_vars, IInv' PROVE ResponseFaithful'
  <2>1. CASE UNCHANGED vars
    BY <1>2, <2>1 DEF vars, ResponseFaithful, Nodes
  <2>2. CASE Respond
    <3>1. response'.status = "completed" =>
            \A n \in Nodes' : plan'[n].status = "pending" => status'[n] = "completed"
      <4>1. /\ cur \notin Nodes /\ response.status = "none" /\ Nodes' = Nodes
            /\ response'.status = pc
        BY <1>2, <2>2, NodesOfPlan DEF IInv, TypeOK, LastEvent, Respond, Nodes
      <4>2. QED
        BY <1>2, <2>2, <4>1 DEF IInv, Progress, Respond
    <3>2. response'.status = "completed" /\ plan' # <<>> => response'.output = output'[Len(plan')]
      BY <2>2 DEF Respond, LastOutput
    <3>3. QED
      BY <1>2, <2>2, <3>1, <3>2 DEF ResponseFaithful, Respond, IInv, LastEvent, FailedLast, Last
  <2>3. CASE response' = response /\ response.status = "none"
    BY <2>3 DEF ResponseFaithful
  <2>4. ASSUME ~UNCHANGED vars, ~Respond PROVE response' = response /\ response.status = "none"
    BY <1>2, <2>4 DEF Next, Begin, SkipNode, StartNode, StepCompletes, StepFails, Finish, IInv,
                      LastEvent
  <2>5. QED
    BY <2>1, <2>2, <2>3, <2>4
<1>3. QED
  BY <1>1, <1>2, InvStep, Invariance, PTL DEF Spec

(* A Verify node that completes has looked at an output that stays. *)
THEOREM VerifiedHasOutputHolds == Spec => []VerifiedHasOutput
<1>1. Init => VerifiedHasOutput
  BY DEF Init, VerifiedHasOutput
<1>2. ASSUME IInv, VerifiedHasOutput, [Next]_vars PROVE VerifiedHasOutput'
  <2>1. CASE plan' = plan /\ output' = output /\ \A n \in Nodes : status'[n] = "completed"
                                                                => status[n] = "completed"
    BY <1>2, <2>1 DEF VerifiedHasOutput, find_node, Nodes
  <2>2. ASSUME NEW out \in Outputs, StepCompletes(out) PROVE VerifiedHasOutput'
    <3>1. /\ TypeOK /\ cur \in Nodes /\ Nodes' = Nodes /\ plan' = plan
          /\ status[cur] = "running" /\ output[cur] = "none"
      BY <1>2, <2>2 DEF IInv, TypeOK, StepCompletes, OutputLast, CurRuns, Nodes
    <3>2. \A t \in Nodes : output[t] = "value" => output'[t] = "value"
      BY <2>2, <3>1 DEF StepCompletes, TypeOK
    <3>3. \A n \in Nodes : status'[n] = "completed" => status[n] = "completed" \/ n = cur
      BY <2>2, <3>1 DEF StepCompletes, TypeOK
    <3>4. plan[cur].kind = "Verify" =>
            plan[cur].target \in Nodes /\ output[plan[cur].target] = "value"
      BY <2>2 DEF StepCompletes, execute_step, VerifyResult, find_node
    <3>5. QED
      BY <1>2, <3>1, <3>2, <3>3, <3>4 DEF VerifiedHasOutput, find_node
  <2>3. ASSUME \A out \in Outputs : ~StepCompletes(out)
        PROVE  plan' = plan /\ output' = output /\ \A n \in Nodes : status'[n] = "completed"
                                                                => status[n] = "completed"
    BY <1>2, <2>3 DEF Next, Begin, SkipNode, StartNode, StepFails, Finish, Respond, vars, IInv,
                      TypeOK
  <2>4. QED
    BY <2>1, <2>2, <2>3
<1>3. QED
  BY <1>1, <1>2, Invariance, PTL DEF Spec

=============================================================================
