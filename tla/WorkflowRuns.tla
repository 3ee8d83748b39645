---------------------------- MODULE WorkflowRuns ----------------------------
(***************************************************************************)
(* Workflow runs as the control plane publishes them: what an orchestrator *)
(* reports, taken if _call_backend_apply finds it within the compiled      *)
(* contract (aces_processor/manager.py), and the two operations that end   *)
(* runs without asking the backend, cancel_workflow and                    *)
(* reconcile_workflow_timeouts, with the compensation they record          *)
(* (aces_processor/control_plane.py).                                      *)
(*                                                                         *)
(* A report is a snapshot, and the contract looks at nothing else: it has  *)
(* no memory of what was reported before, and does not compare the states  *)
(* of the steps with the history or the history with the clock.  So a      *)
(* report is any runs at all.                                              *)
(*                                                                         *)
(* Abstracted: a workflow is its observable steps, which of them name a    *)
(* compensation workflow, its trigger set and its timeout; every workflow  *)
(* has all the Steps.  Branches, calls and attempts of a step are dropped. *)
(* The durable steps of an operation are in ControlPlane, so here an       *)
(* operation is one step.                                                  *)
(***************************************************************************)
EXTENDS Integers, FiniteSets, Sequences, SequencesExt

CONSTANTS
    Workflows,
    Steps,          \* step names
    None,           \* no step
    Observable,     \* per workflow, observable_steps of its result contract
    Targets,        \* per workflow, the steps with a compensation workflow
    Triggers,       \* per workflow compensation_triggers, {} if not automatic
    Timeout,        \* per workflow timeout_seconds, 0 for none, in ticks
    TicksPerSecond, \* the resolution of timestamps
    MaxClock,       \* bound: the last instant
    Reports         \* what orchestrators may report: runs of some workflows

ASSUME ConstantsOK ==
    /\ None \notin Steps
    /\ Observable \in [Workflows -> SUBSET Steps]
    /\ Targets \in [Workflows -> SUBSET Steps]
    /\ Triggers \in [Workflows -> SUBSET {"failed", "cancelled", "timed_out"}]
    /\ Timeout \in [Workflows -> Nat]
    /\ TicksPerSecond \in Nat \ {0} /\ MaxClock \in Nat

Open == {"pending", "running"}
Terminal == {"succeeded", "failed", "cancelled", "timed_out"}

\* The compensation events that are about one step.
StepUndoing == {"compensation_registered", "compensation_workflow_started",
                "compensation_workflow_completed", "compensation_workflow_failed"}
CompensationEvents == StepUndoing \cup {"compensation_started", "compensation_completed",
                                        "compensation_failed"}
EventTypes == {"workflow_started", "step_completed"} \cup CompensationEvents
                  \cup {"workflow_completed", "workflow_failed",
                        "workflow_cancelled", "workflow_timed_out"}
StepStates == {"pending", "succeeded", "failed"}

Times == 0 .. MaxClock

\* completed_at is in the details of a registration: when what it undoes was
\* completed.  Other events have their own time there.
Events == [type : EventTypes, step : Steps \cup {None}, outcome : StepStates,
           at : Times, completed_at : Times]
Event(type, step, outcome, at) ==
    [type |-> type, step |-> step, outcome |-> outcome, at |-> at, completed_at |-> at]

Runs == [status : {"absent"} \cup Open \cup Terminal, steps : [Steps -> StepStates],
         compensation : {"not_required", "pending", "running", "succeeded", "failed"},
         started : Times, history : Seq(Events)]

ASSUME ReportsOK ==
    \A report \in Reports :
        /\ DOMAIN report \subseteq Workflows
        /\ \A w \in DOMAIN report : report[w] \in Runs

VARIABLES
    clock,
    runs,     \* per workflow, its published result and history, or Absent
    by        \* auxiliary: who published them last

vars == <<clock, runs, by>>

\* Mutated form: the compensation status is not filled in.
UnsetRun == [status |-> "absent", steps |-> [s \in Steps |-> "pending"],
             compensation |-> None, started |-> 0, history |-> <<>>]
Absent == [status |-> "absent", steps |-> [s \in Steps |-> "pending"],
           compensation |-> "not_required", started |-> 0, history |-> <<>>]

(***************************************************************************)
(* Everything has its type.                                                *)
(***************************************************************************)
TypeOK ==
    /\ clock \in Times
    /\ runs \in [Workflows -> Runs]
    /\ by \in {"orchestrator", "control plane"}
-----------------------------------------------------------------------------
(* Compensation: _maybe_apply_compensation.                                *)

\* Completions are ordered by their timestamps as text.  Of the instants of
\* one second the whole one is written last: "00Z" is above "00.5Z".
TextRank(t) == IF t % TicksPerSecond = 0 THEN t + TicksPerSecond - 1 ELSE t - 1

\* Mutated form: the earliest completion comes first.
EarliestFirst(history, places) ==
    LET before(i) == {j \in places :
                        \/ TextRank(history[j].at) < TextRank(history[i].at)
                        \/ /\ TextRank(history[j].at) = TextRank(history[i].at)
                           /\ j < i}
    IN  [k \in 1 .. Cardinality(places) |->
            history[CHOOSE i \in places : Cardinality(before(i)) = k - 1]]

\* The completions at these places; sorted(..., reverse=True) keeps the
\* order of equal timestamps.
LatestFirst(history, places) ==
    LET before(i) == {j \in places :
                        \/ TextRank(history[j].at) > TextRank(history[i].at)
                        \/ /\ TextRank(history[j].at) = TextRank(history[i].at)
                           /\ j < i}
    IN  [k \in 1 .. Cardinality(places) |->
            history[CHOOSE i \in places : Cardinality(before(i)) = k - 1]]

\* The history decides what is compensated, not the step states: where it has
\* a compensable step completed, each time it has.
Completed(w, history) ==
    {i \in DOMAIN history : /\ history[i].type = "step_completed"
                            /\ history[i].outcome = "succeeded"
                            /\ history[i].step \in Targets[w]}

Stages == <<"compensation_registered", "compensation_workflow_started",
            "compensation_workflow_completed">>

\* Each completion goes through the three stages before the next one does.
Undo(completions, at) ==
    LET mark(type, step, done) ==
            [Event(type, step, "pending", at) EXCEPT !.completed_at = done]
        stage(k, done) == mark(Stages[k], done.step, IF k = 1 THEN done.at ELSE at)
    IN  <<mark("compensation_started", None, at)>>
        \o [k \in 1 .. 3 * Len(completions) |->
                stage(((k - 1) % 3) + 1, completions[((k - 1) \div 3) + 1])]
        \o <<mark("compensation_completed", None, at)>>

\* Mutated form: the compensation status is not updated.
UndoOnly(w, run, at) ==
    LET completed == Completed(w, run.history) IN
    IF run.status \in Triggers[w] /\ completed # {}
    THEN [run EXCEPT !.history = @ \o Undo(LatestFirst(run.history, completed), at)]
    ELSE run

\* The policy's failure_policy is not looked at: compensation succeeds.
Compensate(w, run, at) ==
    LET completed == Completed(w, run.history) IN
    IF run.status \in Triggers[w] /\ completed # {}
    THEN [run EXCEPT !.compensation = "succeeded",
                     !.history = @ \o Undo(LatestFirst(run.history, completed), at)]
    ELSE run

TerminalEvent == [succeeded |-> "workflow_completed", failed |-> "workflow_failed",
                  cancelled |-> "workflow_cancelled",
                  timed_out |-> "workflow_timed_out"]

End(w, outcome, at) ==
    LET event == Event(TerminalEvent[outcome], None, "pending", at)
        ended == [runs[w] EXCEPT !.status = outcome, !.compensation = "not_required",
                                 !.history = Append(@, event)]
    IN  Compensate(w, ended, at)
-----------------------------------------------------------------------------
(* The contract: _workflow_result_contract_diagnostics finds nothing.  A   *)
(* history is optional; one that is there has to explain the result.       *)

Positions(history, types) == {i \in DOMAIN history : history[i].type \in types}

TimesAscend(history) ==
    \A i \in 2 .. Len(history) : history[i - 1].at <= history[i].at

CompensationDue(w, run) ==
    /\ run.status \in Triggers[w]
    /\ \E s \in Targets[w] : run.steps[s] = "succeeded"

\* The last of these events, if there is one, has this type.
LastIs(history, places, type) ==
    \A i \in places : (\A j \in places : j <= i) => history[i].type = type

\* The compensation events go with the compensation status.
UndoingExplained(run) ==
    LET h == run.history
        undoing == Positions(h, CompensationEvents)
    IN  CASE run.compensation = "not_required" -> undoing = {}
          [] run.compensation = "running" -> Positions(h, {"compensation_started"}) # {}
          [] run.compensation = "succeeded" -> LastIs(h, undoing, "compensation_completed")
          [] run.compensation = "failed" -> LastIs(h, undoing, "compensation_failed")
          [] OTHER -> TRUE

Explained(w, run) ==
    LET h == run.history
        terminal == Positions(h, {TerminalEvent[o] : o \in {run.status} \cap Terminal})
    IN  /\ h[1].type = "workflow_started"
        /\ \A i \in Positions(h, StepUndoing) : h[i].step \in Targets[w]
        /\ run.status \in Terminal => terminal # {}
        /\ \A i \in terminal, j \in Positions(h, CompensationEvents) : i < j
        /\ run.status = "running" =>
            h[Len(h)].type \notin {TerminalEvent[o] : o \in Terminal}
        /\ UndoingExplained(run)

\* A result that from_payload cannot build: an open run has no compensation.
Parses(run) == run.status \in Open => run.compensation = "not_required"

\* A result has the states of the observable steps and of no others.
StepsContracted(w, run) ==
    \A s \in Steps \ Observable[w] : run.steps[s] = "pending"

Valid(w, run) ==
    run.status # "absent" =>
        /\ Parses(run)
        /\ TimesAscend(run.history)
        /\ CompensationDue(w, run) => run.compensation # "not_required"
        /\ StepsContracted(w, run)
        /\ run.history # <<>> => Explained(w, run)
-----------------------------------------------------------------------------
Init ==
    /\ clock = 0
    /\ runs = [w \in Workflows |-> Absent]
    /\ by = "orchestrator"

Tick ==
    /\ clock < MaxClock
    /\ clock' = clock + 1
    /\ UNCHANGED <<runs, by>>

\* submit_orchestration: a report is taken if the whole snapshot with it is
\* valid, otherwise the snapshot stays as it was and the operation fails.
Orchestrate ==
    \E report \in Reports :
        LET reported == [w \in Workflows |->
                            IF w \in DOMAIN report THEN report[w] ELSE runs[w]]
        IN  IF \A w \in Workflows : Valid(w, reported[w])
            THEN runs' = reported /\ by' = "orchestrator" /\ UNCHANGED clock
            ELSE UNCHANGED vars

\* cancel_workflow; an unknown or ended run is left as it is.
Cancel(w) ==
    /\ runs[w].status \in Open
    /\ runs' = [runs EXCEPT ![w] = End(w, "cancelled", clock)]
    /\ by' = "control plane"
    /\ UNCHANGED clock

Overdue(w, now) ==
    /\ Timeout[w] # 0
    /\ runs[w].status = "running"
    /\ now >= runs[w].started + Timeout[w]

\* reconcile_workflow_timeouts: one scan over all workflows, at a time the
\* caller may name, also one that is past or still to come.
Reconcile ==
    /\ \E now \in Times :
        runs' = [w \in Workflows |->
                    IF Overdue(w, now) THEN End(w, "timed_out", now) ELSE runs[w]]
    /\ by' = "control plane"
    /\ UNCHANGED clock

Next ==
    \/ Tick
    \/ Orchestrate
    \/ \E w \in Workflows : Cancel(w)
    \/ Reconcile

Spec == Init /\ [][Next]_vars
-----------------------------------------------------------------------------
(* Properties.                                                             *)

\* What a report has to be for the control plane to end the run at a time: its
\* history has begun and is not in the future of that time, and it has a
\* completion to undo if the states of the steps say that there is one.
Coherent(w, run, outcome, at) ==
    LET h == run.history IN
    /\ h # <<>>
    /\ h[Len(h)].at <= at
    /\ CompensationDue(w, [run EXCEPT !.status = outcome]) => Completed(w, h) # {}

(***************************************************************************)
(* What an operation publishes is within the contract, with one exception: *)
(* a cancellation or a timeout of a run whose report was not coherent, and *)
(* each of those.  One run outside the contract makes _call_backend_apply  *)
(* turn down every later result of every backend, whatever workflow or     *)
(* domain it is about, that does not replace the run.                      *)
(***************************************************************************)
OnlyIncoherentBreak ==
    [][\A w \in Workflows :
        runs'[w] # runs[w] =>
            LET ended == runs'[w]
                at == ended.history[Len(runs[w].history) + 1].at
            IN  Valid(w, ended) <=> \/ by' = "orchestrator"
                                   \/ Coherent(w, runs[w], ended.status, at)]_vars

\* At their places in the history.
Done(run) ==
    LET h == run.history
    IN  [i \in {j \in DOMAIN h : h[j].type = "step_completed" /\ h[j].outcome = "succeeded"} |->
            [step |-> h[i].step, at |-> h[i].at]]

Undone(run) ==
    LET h == run.history
    IN  [i \in Positions(h, {"compensation_registered"}) |->
            [step |-> h[i].step, at |-> h[i].completed_at]]

Shown(run) == [phase |-> IF run.status \in Open THEN "open" ELSE run.status,
               done |-> Done(run), undone |-> Undone(run)]

Lifecycle == INSTANCE WorkflowLifecycle
    WITH runs <- [w \in Workflows |-> Shown(runs[w])]

(***************************************************************************)
(* Whatever is reported, coherent or not, a cancellation and a timeout end *)
(* only runs that are open, and a run that they end for a trigger has      *)
(* every compensable completion of its history undone, as often as it was  *)
(* reported: those of a later instant before those of an earlier one, and  *)
(* those of one instant in the order in which they were reported.          *)
(***************************************************************************)
ImplementsLifecycle == Lifecycle!Spec
=============================================================================
