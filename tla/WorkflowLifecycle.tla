-------------------------- MODULE WorkflowLifecycle --------------------------
(***************************************************************************)
(* What specs/formal/workflows/compensation.md promises about the runs the *)
(* control plane ends: only open ones, and if they end in a way their      *)
(* policy names, the compensable steps that completed are undone in the    *)
(* reverse order of their completion times.                                *)
(*                                                                         *)
(* Two things are as the code has them and not as lines 63-67 of that      *)
(* document do: completions of one instant are undone in the order in      *)
(* which they are in the history, not in the reverse one, and a completion *)
(* that is in the history twice is undone twice.                           *)
(***************************************************************************)
EXTENDS Naturals, Functions

CONSTANTS
    Workflows,
    Targets,    \* per workflow, the compensable steps
    Triggers    \* per workflow, the outcomes that start compensation

VARIABLES
    runs,       \* per workflow its phase and, at their places in its history,
                \* the completed steps and the undone ones
    by          \* who was the last to say so

Nowhere == [i \in {} |-> i]
NoRun == [phase |-> "absent", done |-> Nowhere, undone |-> Nowhere]

Init ==
    /\ runs = [w \in Workflows |-> NoRun]
    /\ by = "orchestrator"

\* Orchestrators answer for what they report; but nothing is undone of a run
\* that is open, and only compensable steps are undone.
Report ==
    /\ by' = "orchestrator"
    /\ \A w \in Workflows :
        runs'[w] # runs[w] =>
            /\ runs'[w].phase = "open" => runs'[w].undone = Nowhere
            /\ runs'[w].phase # "absent" =>
                \A i \in DOMAIN runs'[w].undone : runs'[w].undone[i].step \in Targets[w]

Compensable(w) == {i \in DOMAIN runs[w].done : runs[w].done[i].step \in Targets[w]}

\* The completion at i is undone before the one at j.
Before(done, i, j) ==
    \/ done[i].at > done[j].at
    \/ done[i].at = done[j].at /\ i < j

\* Every compensable completion is undone at one place, in that order.
Undoes(undone, w) ==
    \E of \in Bijection(DOMAIN undone, Compensable(w)) :
        /\ \A i \in DOMAIN undone : undone[i] = runs[w].done[of[i]]
        /\ \A i, j \in DOMAIN undone : i < j => Before(runs[w].done, of[i], of[j])

Ended(w, outcome) ==
    /\ runs[w].phase = "open"
    /\ runs'[w].phase = outcome /\ runs'[w].done = runs[w].done
    /\ IF outcome \in Triggers[w]
       THEN Undoes(runs'[w].undone, w)
       ELSE runs'[w].undone = Nowhere

\* One timeout scan may end several runs.
End(outcome) ==
    /\ by' = "control plane"
    /\ \E ended \in SUBSET Workflows :
        /\ \A w \in ended : Ended(w, outcome)
        /\ \A v \in Workflows \ ended : runs'[v] = runs[v]

Next == Report \/ End("cancelled") \/ End("timed_out")

Spec == Init /\ [][Next]_<<runs, by>>
=============================================================================
