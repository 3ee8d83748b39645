--------------------------- MODULE RuntimeManager ---------------------------
(***************************************************************************)
(* RuntimeManager (aces_processor/manager.py): plan, apply and destroy     *)
(* over three backends, with the rollback of services that fail to start,  *)
(* and the backends as far as the manager depends on them: they perform    *)
(* the operations of a plan one by one, may stop at any of them, and may   *)
(* fail to say how far they came.                                          *)
(*                                                                         *)
(* The manager is synchronous: snapshot is what its callers see between    *)
(* two calls, call.working the snapshot it carries from phase to phase.    *)
(* Abstracted: diagnostics (only whether one is an error), the status of   *)
(* an entry, results and histories (WorkflowRuns has those of workflows).  *)
(***************************************************************************)
EXTENDS Planner

CONSTANTS
    Scenarios,  \* the resources of the scenarios callers plan
    Services,   \* the services the target has, by domain
    Faults,     \* how a backend call may go wrong
    None

ASSUME ScenariosOK ==
    /\ \A scenario \in Scenarios : AreResources(scenario)
    /\ Services \subseteq {"orchestration", "evaluation"}
    /\ Faults \subseteq {"reports", "raises", "complains"}

VARIABLES
    snapshot,   \* entries of the manager's snapshot
    plan,       \* the execution plan its caller holds
    call,       \* the backend call that is running
    world,      \* what the backends really run
    reached,    \* what the last call claims to have reached, None if it failed;
                \* a call that is refused does not count
    drifted,    \* history: domains with effects no snapshot was told of
    owed        \* history: resources a change upstream still has to refresh

vars == <<snapshot, plan, call, world, reached, drifted, owed>>

PhaseDomain ==
    [provision |-> "provisioning", evaluate |-> "evaluation",
     orchestrate |-> "orchestration",
     undo_orchestrator |-> "orchestration", undo_evaluator |-> "evaluation",
     stop_orchestrator |-> "orchestration", stop_evaluator |-> "evaluation",
     delete |-> "provisioning"]
Phases == DOMAIN PhaseDomain \cup {"idle"}
Running == {"provision", "evaluate", "orchestrate", "delete"}
Stopping == {"undo_orchestrator", "undo_evaluator",
             "stop_orchestrator", "stop_evaluator"}
Destroying == {"stop_orchestrator", "stop_evaluator", "delete"}

\* Mutated form: whether the call went well is not set.
UnsetIdle == [phase |-> "idle", todo |-> <<>>, working |-> NoResources,
              view |-> NoResources, done |-> {}, ok |-> None]
Idle == [phase |-> "idle", todo |-> <<>>, working |-> NoResources,
         view |-> NoResources, done |-> {}, ok |-> TRUE]

(***************************************************************************)
(* Everything has its type.                                                *)
(***************************************************************************)
TypeOK ==
    /\ \A rs \in {snapshot, world, call.working, call.view} : AreResources(rs)
    /\ plan # None => /\ plan.resources \in Scenarios
                      /\ AreResources(plan.base)
                      /\ plan.valid \in BOOLEAN
                      /\ \A d \in Domains : ToSet(plan.ops[d]) \subseteq Ops
    /\ call.phase \in Phases /\ call.ok \in BOOLEAN
    /\ ToSet(call.todo) \subseteq Ops /\ call.done \subseteq Addresses
    /\ reached # None => AreResources(reached)
    /\ drifted \subseteq Domains /\ owed \subseteq Addresses

Init ==
    /\ snapshot = NoResources /\ world = NoResources
    /\ plan = None /\ call = Idle /\ reached = None
    /\ drifted = {} /\ owed = {}

\* RuntimeManager.plan
MakePlan(scenario) ==
    /\ call.phase = "idle"
    /\ plan' = Plan(scenario, snapshot)
    /\ UNCHANGED <<snapshot, call, world, reached, drifted, owed>>
-----------------------------------------------------------------------------
(* The order of the phases.                                                *)

Needed(d) == Actionable(plan.ops[d])

\* The phase after one that succeeded or failed; "idle" is the return.
Following(phase, ok) ==
    CASE phase = "provision" /\ ok /\ Needed("evaluation") -> "evaluate"
      [] phase \in {"provision", "evaluate"} /\ ok /\ Needed("orchestration")
            /\ (phase = "provision" => ~Needed("evaluation")) -> "orchestrate"
      [] phase = "evaluate" /\ ~ok -> "undo_evaluator"
      [] phase = "orchestrate" /\ ~ok -> "undo_orchestrator"
      [] phase = "undo_orchestrator" /\ Needed("evaluation") -> "undo_evaluator"
      [] phase = "stop_orchestrator" /\ "evaluation" \in Services -> "stop_evaluator"
      [] phase \in {"stop_orchestrator", "stop_evaluator"}
            /\ ~(phase = "stop_orchestrator" /\ "evaluation" \in Services) -> "delete"
      [] OTHER -> "idle"

\* Backends get the unchanged resources too.
Todo(phase, working) ==
    CASE phase \in {"provision", "evaluate", "orchestrate"} -> plan.ops[PhaseDomain[phase]]
      [] phase = "delete" -> Deletions(Part(working, Of("provisioning")))
      [] OTHER -> <<>>

Enter(phase, working, done, ok) ==
    call' = [phase |-> phase, todo |-> Todo(phase, working), working |-> working,
             view |-> working, done |-> done, ok |-> ok]

\* apply does nothing but return an error unless all of this holds.
Applicable ==
    /\ plan # None
    /\ plan.base = snapshot
    /\ plan.valid
    /\ \A d \in {"orchestration", "evaluation"} : Needed(d) => d \in Services

\* The plan stays with the caller and can be applied again.  A provisioner
\* that does not validate it ends the call with nothing done.
Apply ==
    /\ call.phase = "idle"
    /\ Applicable
    /\ Enter("provision", plan.base, {}, TRUE)
    /\ UNCHANGED <<snapshot, plan, world, reached, drifted, owed>>

Destroy ==
    /\ call.phase = "idle"
    /\ LET first == CASE "orchestration" \in Services -> "stop_orchestrator"
                      [] "orchestration" \notin Services /\ "evaluation" \in Services
                            -> "stop_evaluator"
                      [] OTHER -> "delete"
       IN  Enter(first, snapshot, {}, TRUE)
    /\ UNCHANGED <<snapshot, plan, world, reached, drifted, owed>>
-----------------------------------------------------------------------------
(* Backend calls.                                                          *)

Performed(rs, op) ==
    CASE op.action = "delete" -> Part(rs, Addresses \ {op.address})
      [] OTHER -> [a \in DOMAIN rs \cup {op.address} |->
                      IF a = op.address THEN op.resource ELSE rs[a]]

\* A provisioner, or a service that starts, performs its next operation.
Perform ==
    /\ call.phase \in Running
    /\ call.todo # <<>>
    /\ LET op == Head(call.todo) IN
       /\ world' = Performed(world, op)
       /\ call' = [call EXCEPT
                    !.todo = Tail(@), !.view = Performed(@, op),
                    !.done = IF op.action \in {"delete", "unchanged"} THEN @
                             ELSE @ \cup {op.address}]
    /\ UNCHANGED <<snapshot, plan, reached, drifted, owed>>

\* Mutated form: the snapshot of a failed call is dropped.
IfSuccessful(success, reported) == IF success THEN reported ELSE call.working

\* The working snapshot after a call: the reported one, also if it failed.
Taken(success, reported) == reported

\* The manager has the answer of a call, and goes on or returns.
Answer(success, reported, ok) ==
    LET next == Following(call.phase, success)
        working == Taken(success, reported)
    IN  IF next # "idle"
        THEN /\ Enter(next, working, call.done, call.ok /\ ok)
             /\ UNCHANGED <<snapshot, plan, reached, owed>>
        ELSE /\ call' = Idle
             /\ snapshot' = working
             /\ reached' = IF ~(call.ok /\ ok) THEN None
                           ELSE IF call.phase \in Destroying THEN NoResources
                           ELSE plan.resources
             /\ owed' = LET rs == IF call.phase \in Destroying THEN NoResources
                                  ELSE plan.resources
                        IN  ((owed \cup Impacted(rs, call.done)) \ call.done)
                                \cap DOMAIN world'
             /\ UNCHANGED plan

\* The domains whose effects the manager is not told of.
Hidden == {d \in Domains : Part(call.view, Of(d)) # Part(call.working, Of(d))}

\* All operations are done.  An error diagnostic does not stop the apply, but
\* its result is not a success.
Finish ==
    /\ call.phase \in Running
    /\ call.todo = <<>>
    /\ UNCHANGED <<world, drifted>>
    /\ \E ok \in {TRUE} \cup {FALSE : f \in {"complains"} \cap Faults} :
        Answer(TRUE, call.view, ok)

\* A backend that reports its failure says how far it came.
Fail ==
    /\ "reports" \in Faults
    /\ call.phase \in Running
    /\ UNCHANGED <<world, drifted>>
    /\ Answer(FALSE, call.view, FALSE)

\* An exception, a malformed result or one against the contract: the manager
\* goes on with the snapshot it gave.
Raise ==
    /\ "raises" \in Faults
    /\ call.phase \in Running
    /\ UNCHANGED world
    /\ drifted' = drifted \cup Hidden
    /\ Answer(FALSE, call.working, FALSE)

Emptied(rs) == Part(rs, Addresses \ Of(PhaseDomain[call.phase]))

Stop ==
    /\ call.phase \in Stopping
    /\ world' = Emptied(world)
    /\ Answer(TRUE, Emptied(call.working), TRUE)
    /\ drifted' = drifted \ {PhaseDomain[call.phase]}

StopFails ==
    /\ "reports" \in Faults
    /\ call.phase \in Stopping
    /\ UNCHANGED <<world, drifted>>
    /\ Answer(FALSE, call.working, FALSE)

StopRaises ==
    /\ "raises" \in Faults
    /\ call.phase \in Stopping
    /\ world' = Emptied(world)
    /\ Answer(FALSE, call.working, FALSE)
    /\ drifted' = drifted \cup {d \in {PhaseDomain[call.phase]} :
                                  Part(call.working, Of(d)) # Part(world', Of(d))}

Next ==
    \/ \E scenario \in Scenarios : MakePlan(scenario)
    \/ Apply
    \/ Destroy
    \/ Perform
    \/ Finish
    \/ Fail
    \/ Raise
    \/ Stop
    \/ StopFails
    \/ StopRaises

Spec == Init /\ [][Next]_vars
-----------------------------------------------------------------------------
(* Properties.                                                             *)

(***************************************************************************)
(* At every step of every backend a resource that exists has the resources *)
(* of its domain it is ordered after: creations follow the order, deletes  *)
(* its reverse, also when plans are cut short and other ones follow.       *)
(***************************************************************************)
DependenciesFirst ==
    \A a \in DOMAIN world :
        \/ Domain[a] \in drifted
        \/ world[a].ordering \cap Of(Domain[a]) \subseteq DOMAIN world

(***************************************************************************)
(* Whatever failed, between two calls the snapshot is what the backends    *)
(* run, but for a domain whose backend hid what it did and has not been    *)
(* stopped since.                                                          *)
(***************************************************************************)
SnapshotIsReality ==
    call.phase = "idle" =>
        \A d \in Domains \ drifted : Part(snapshot, Of(d)) = Part(world, Of(d))

(***************************************************************************)
(* An apply that succeeds has reached the whole scenario and nothing but   *)
(* it, and a destroy that succeeds has left nothing, whatever the calls    *)
(* before had left behind.                                                 *)
(***************************************************************************)
SuccessReachesScenario ==
    reached # None /\ call.phase = "idle" =>
        /\ snapshot = reached
        /\ \A d \in Domains \ drifted : Part(world, Of(d)) = Part(reached, Of(d))

(***************************************************************************)
(* dependency-ordering.md: refresh edges define recomputation when the     *)
(* upstream state changes.  So after a success nobody waits for one.       *)
(***************************************************************************)
RefreshNotLost == reached # None /\ call.phase = "idle" => owed = {}
=============================================================================
