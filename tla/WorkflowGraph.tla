---------------------------- MODULE WorkflowGraph ----------------------------
(***************************************************************************)
(* Workflow graphs (aces_sdl/validator.py _verify_workflows, orchestration *)
(* .py, semantics/workflow.py): which workflows the validator accepts, and *)
(* what an accepted one does when an engine outside the repository runs    *)
(* it: tokens that fork at a parallel step, wait for each other at its     *)
(* join, enter called workflows and fail upwards.                          *)
(*                                                                         *)
(* A step is [type, on, branches, join, reads, calls, undo]: `on` takes    *)
(* the name of each transition it has to a step, `reads` are the steps     *)
(* whose state its predicates look at, each with the outcomes they ask     *)
(* for. Abstracted: what predicates and objectives are about, placeholders *)
(* (instantiation leaves none).                                            *)
(***************************************************************************)
EXTENDS Integers, FiniteSets, Sequences, SequencesExt

CONSTANTS
    Candidates,     \* sets of workflows that may be written, each by name
    Main            \* the workflow that is run

\* Stands for no name.
NoName == ""

\* A scenario is finite.
ASSUME CandidatesOK ==
    \A ws \in Candidates :
        /\ Main \in DOMAIN ws
        /\ \A n \in DOMAIN ws : IsFiniteSet(DOMAIN ws[n].steps) /\ NoName \notin DOMAIN ws[n].steps

VARIABLES
    workflows,      \* the workflows of the scenario
    verdict,        \* "unread", "accepted" or "refused"
    tokens,         \* where control is
    done            \* the step states that were reached

graphVars == <<workflows, verdict, tokens, done>>

-----------------------------------------------------------------------------
(* Steps. *)

\* The transitions a step of a type must have and those it may have.
Shapes ==
    [objective |-> [must |-> {"success"},          may |-> {"failure"}],
     retry     |-> [must |-> {"success"},          may |-> {"exhausted"}],
     call      |-> [must |-> {"success"},          may |-> {"failure"}],
     decision  |-> [must |-> {"then", "else"},     may |-> {}],
     switch    |-> [must |-> {"case1", "default"}, may |-> {"case2"}],
     parallel  |-> [must |-> {},                   may |-> {"failure"}],
     join      |-> [must |-> {"next"},             may |-> {}],
     end       |-> [must |-> {},                   may |-> {}]]

\* WorkflowStep.validate_type_specific_fields
WellFormed(step) ==
    /\ Shapes[step.type].must \subseteq DOMAIN step.on
    /\ DOMAIN step.on \subseteq Shapes[step.type].must \cup Shapes[step.type].may
    /\ IF step.type = "parallel" THEN Cardinality(step.branches) > 1 ELSE step.branches = {}
    /\ step.reads # {} => step.type \in {"decision", "switch"}
    /\ step.undo # NoName => step.type \in {"objective", "call"}

\* The outcomes of a step that a predicate may ask for: none when its state
\* cannot be observed (workflow_step_semantic_contract).
Outcomes(type) ==
    CASE type \in {"objective", "parallel", "call"} -> {"succeeded", "failed"}
      [] type = "retry" -> {"succeeded", "exhausted"}
      [] OTHER -> {}
HasOutcomes(step) == Outcomes(step.type) # {}

-----------------------------------------------------------------------------
(* The graph of a workflow. *)

Names(w) == DOMAIN w.steps
OfType(w, type) == {s \in Names(w) : w.steps[s].type = type}
Successors(step) == {step.on[l] : l \in DOMAIN step.on} \cup step.branches
Edges(w, s) == Successors(w.steps[s]) \cap Names(w)
Predecessors(w, s) == {r \in Names(w) : s \in Edges(w, r)}

\* The steps that can be reached from some without passing one (branch_closure).
Closure(w, from, stop) ==
    LET reached[n \in 0..Cardinality(Names(w))] ==
            IF n = 0 THEN from \ {stop}
            ELSE LET before == reached[n - 1]
                 IN  before \cup ((UNION {Edges(w, s) : s \in before}) \ {stop})
    IN  reached[Cardinality(Names(w))]

\* _topological_sort: some nodes have no way out of themselves if there is a cycle.
Acyclic(edges) ==
    \A S \in (SUBSET DOMAIN edges) \ {{}} : \E s \in S : edges[s] \cap S = {}

\* Mutated form: only a step that leads to itself is a cycle.
NoSelfLoop(w) == \A s \in Names(w) : s \notin Edges(w, s)
StepsAcyclic(w) == Acyclic([s \in Names(w) |-> Edges(w, s)])

Defined(w) ==
    /\ w.start \in Names(w)
    /\ \A s \in Names(w) : /\ Successors(w.steps[s]) \subseteq Names(w)
                           /\ w.steps[s].type = "parallel" => w.steps[s].join \in Names(w)

Owners(w, j) == {p \in OfType(w, "parallel") : w.steps[p].join = j}
JoinsOwned(w) ==
    /\ \A p \in OfType(w, "parallel") : w.steps[p].join \in OfType(w, "join")
    /\ \A j \in OfType(w, "join") : Cardinality(Owners(w, j)) = 1

AllReachable(w) == Closure(w, {w.start}, NoName) = Names(w)

\* Mutated form: a join may be entered from anywhere.
JoinsEnteredFromAnywhere(w) == TRUE
JoinsEnteredFromBranches(w) ==
    \A p \in OfType(w, "parallel") :
        Predecessors(w, w.steps[p].join) \subseteq Closure(w, w.steps[p].branches, w.steps[p].join)

\* _all_paths_reach_join: every path from a step reaches the join.
AllPathsReach(w, from, j) ==
    LET reaches[s \in Names(w), visiting \in SUBSET Names(w)] ==
            \/ s = j
            \/ s \notin visiting /\ Edges(w, s) # {}
               /\ \A t \in Edges(w, s) : reaches[t, visiting \cup {s}]
    IN  reaches[from, {}]
BranchesConverge(w) ==
    \A p \in OfType(w, "parallel") : \A b \in w.steps[p].branches :
        AllPathsReach(w, b, w.steps[p].join)

-----------------------------------------------------------------------------
(* Which step states are known where. *)

Common(sets) == {s \in UNION sets : \A S \in sets : s \in S}

\* _branch_guaranteed_states. A step that is being visited gives nothing more.
Guaranteed(w, from, j) ==
    LET after[visiting \in SUBSET Names(w)] ==
            [s \in Names(w) |->
                IF s = j \/ s \in visiting THEN {}
                ELSE Common({after[visiting \cup {s}][t] : t \in Edges(w, s)})
                     \cup (IF HasOutcomes(w.steps[s]) THEN {s} ELSE {})]
    IN  after[{}][from]

\* _edge_available_state: the state that a step leaves behind on an edge.
OutOf(w, p, s) ==
    LET step == w.steps[p]
    IN  IF \/ step.type \in {"objective", "retry", "call"}
           \/ step.type = "parallel" /\ "failure" \in DOMAIN step.on /\ step.on["failure"] = s
        THEN {p} ELSE {}

\* Mutated form: the states behind any predecessor are known.
AvailableOnSome(w, at) ==
    LET known[visiting \in SUBSET Names(w)] ==
            [s \in Names(w) |->
                IF s = w.start \/ s \in visiting THEN {}
                ELSE UNION {known[visiting \cup {s}][p] \cup OutOf(w, p, s) : p \in Predecessors(w, s)}]
    IN  known[{}][at]
\* _available_step_state_before
Available(w, at) ==
    LET known[visiting \in SUBSET Names(w)] ==
            [s \in Names(w) |->
                IF s = w.start \/ s \in visiting THEN {}
                ELSE IF w.steps[s].type = "join"
                THEN LET p == CHOOSE p \in Owners(w, s) : TRUE
                     IN  known[visiting \cup {s}][p] \cup {p}
                         \cup UNION {Guaranteed(w, b, s) : b \in w.steps[p].branches}
                ELSE Common({known[visiting \cup {s}][p] \cup OutOf(w, p, s) : p \in Predecessors(w, s)})]
    IN  known[{}][at]

\* _validate_workflow_predicate
ReadsAllowed(w) ==
    \A s \in Names(w) : \A r \in w.steps[s].reads :
        /\ r.step \in Names(w) /\ r.step # s
        /\ r.outcomes # {} /\ r.outcomes \subseteq Outcomes(w.steps[r.step].type)
ReadsKnown(w) ==
    \A s \in Names(w) : \A r \in w.steps[s].reads : r.step \in Available(w, s)

-----------------------------------------------------------------------------
(* The graph between workflows. *)

Calls(ws) ==
    [n \in DOMAIN ws |-> {ws[n].steps[s].calls : s \in OfType(ws[n], "call")} \cap DOMAIN ws]
Undos(ws) ==
    [n \in DOMAIN ws |-> {ws[n].steps[s].undo : s \in Names(ws[n])} \cap DOMAIN ws]

CallsDefined(ws) ==
    \A n \in DOMAIN ws : \A s \in Names(ws[n]) :
        /\ ws[n].steps[s].type = "call" => ws[n].steps[s].calls \in DOMAIN ws
        /\ ws[n].steps[s].undo \in DOMAIN ws \cup {NoName}
CallsAccepted(ws) ==
    /\ CallsDefined(ws)
    /\ Acyclic(Calls(ws))
    /\ Acyclic([n \in DOMAIN ws |-> Calls(ws)[n] \cup Undos(ws)[n]])
    /\ \A n \in DOMAIN ws : \A m \in Undos(ws)[n] : \A s \in Names(ws[m]) : ws[m].steps[s].undo = NoName

Accepted(ws) ==
    /\ \A n \in DOMAIN ws :
        /\ \A s \in Names(ws[n]) : WellFormed(ws[n].steps[s])
        /\ Defined(ws[n])
        /\ StepsAcyclic(ws[n])
        /\ JoinsOwned(ws[n]) /\ AllReachable(ws[n])
        /\ JoinsEnteredFromBranches(ws[n]) /\ BranchesConverge(ws[n])
        /\ ReadsAllowed(ws[n]) /\ ReadsKnown(ws[n])
    /\ CallsAccepted(ws)

-----------------------------------------------------------------------------
(* Running a workflow. A token's path names the parallel steps and calls   *)
(* it is inside of, the outermost first, each with the branch it took.     *)

Token(wf, step, path) == [wf |-> wf, step |-> step, path |-> path, failing |-> FALSE]
Step(t) == workflows[t.wf].steps[t.step]
Outer(t) == t.path[Len(t.path)]
\* The run that a token belongs to: the calls it is inside of.
CallsAround(path) == {i \in DOMAIN path : path[i].branch = NoName}
Run(t) == {t.path[i] : i \in CallsAround(t.path)}
Reached(t, outcome) == [run |-> Run(t), path |-> t.path, wf |-> t.wf, step |-> t.step,
                        outcome |-> outcome]

GraphInit ==
    /\ workflows \in Candidates /\ verdict = "unread"
    /\ tokens = {} /\ done = {}

Validate ==
    /\ verdict = "unread"
    /\ IF Accepted(workflows)
       THEN verdict' = "accepted" /\ tokens' = {Token(Main, workflows[Main].start, <<>>)}
       ELSE verdict' = "refused" /\ UNCHANGED tokens
    /\ UNCHANGED <<workflows, done>>

\* Control leaves a step with an outcome, or fails where no transition is given.
Leave(t, label, path) ==
    LET step == Step(t)
    IN  IF label \in DOMAIN step.on THEN Token(t.wf, step.on[label], path)
        ELSE [t EXCEPT !.path = path, !.failing = TRUE]
Label(outcome) == CASE outcome = "succeeded" -> "success" [] outcome = "failed" -> "failure"
                    [] OTHER -> "exhausted"

Execute(t) ==
    /\ Step(t).type \in {"objective", "retry"}
    /\ \E outcome \in Outcomes(Step(t).type) :
        /\ tokens' = (tokens \ {t}) \cup {Leave(t, Label(outcome), t.path)}
        /\ done' = done \cup {Reached(t, outcome)}

Decide(t) ==
    /\ Step(t).type \in {"decision", "switch"}
    /\ \E label \in DOMAIN Step(t).on : tokens' = (tokens \ {t}) \cup {Leave(t, label, t.path)}
    /\ UNCHANGED done

Fork(t) ==
    /\ Step(t).type = "parallel"
    /\ tokens' = (tokens \ {t}) \cup
           {Token(t.wf, b, Append(t.path, [wf |-> t.wf, step |-> t.step, branch |-> b])) :
               b \in Step(t).branches}
    /\ UNCHANGED done

\* The tokens of one passage of a parallel step.
Inside(prefix, wf, step) ==
    {t \in tokens : /\ Len(t.path) > Len(prefix) /\ SubSeq(t.path, 1, Len(prefix)) = prefix
                    /\ t.path[Len(prefix) + 1].wf = wf /\ t.path[Len(prefix) + 1].step = step}

\* A join passes when every branch of its parallel step waits at it.
Converge(t) ==
    /\ Step(t).type = "join" /\ t.path # <<>> /\ Outer(t).branch # NoName
    /\ LET owner == Outer(t)
           prefix == Front(t.path)
           siblings == Inside(prefix, owner.wf, owner.step)
           p == [t EXCEPT !.step = owner.step, !.path = prefix]
       IN  /\ Step(p).join = t.step
           /\ \A b \in Step(p).branches :
                Token(t.wf, t.step, Append(prefix, [owner EXCEPT !.branch = b])) \in tokens
           /\ tokens' = (tokens \ siblings) \cup {Leave(t, "next", prefix)}
           /\ done' = done \cup {Reached(p, "succeeded")}

Call(t) ==
    /\ Step(t).type = "call"
    /\ tokens' = (tokens \ {t}) \cup
           {Token(Step(t).calls, workflows[Step(t).calls].start,
                  Append(t.path, [wf |-> t.wf, step |-> t.step, branch |-> NoName]))}
    /\ UNCHANGED done

\* The step that a token is directly inside of.
Caller(t) == [t EXCEPT !.wf = Outer(t).wf, !.step = Outer(t).step, !.path = Front(t.path)]

EndStep(t) ==
    /\ Step(t).type = "end"
    /\ \/ t.path = <<>> /\ tokens' = tokens \ {t} /\ UNCHANGED done
       \/ /\ t.path # <<>> /\ Outer(t).branch = NoName
          /\ tokens' = (tokens \ {t}) \cup {Leave(Caller(t), "success", Front(t.path))}
          /\ done' = done \cup {Reached(Caller(t), "succeeded")}

\* A failure fails the parallel step or call around it; the other branches of
\* the parallel step are abandoned.
Fail(t) ==
    IF t.path = <<>> THEN tokens' = {} /\ UNCHANGED done
    ELSE /\ tokens' = (tokens \ Inside(Front(t.path), Outer(t).wf, Outer(t).step))
                      \cup {Leave([Caller(t) EXCEPT !.failing = FALSE], "failure", Front(t.path))}
         /\ done' = done \cup {Reached(Caller(t), "failed")}

Advance(t) ==
    /\ IF t.failing THEN Fail(t)
       ELSE Execute(t) \/ Decide(t) \/ Fork(t) \/ Converge(t) \/ Call(t) \/ EndStep(t)
    /\ UNCHANGED <<workflows, verdict>>

GraphNext == Validate \/ \E t \in tokens : Advance(t)
GraphSpec == GraphInit /\ [][GraphNext]_graphVars /\ WF_graphVars(GraphNext)

-----------------------------------------------------------------------------
\* The steps of a branch are entered from that branch alone, its first one from
\* the parallel step too but not when that fails. The validator asks as much of
\* the join only.
Disciplined(w) ==
    \A p \in OfType(w, "parallel") : \A b \in w.steps[p].branches :
        LET branch == Closure(w, {b}, w.steps[p].join)
        IN  /\ \A s \in branch : Predecessors(w, s) \subseteq branch \cup {p}
            /\ "failure" \in DOMAIN w.steps[p].on => w.steps[p].on["failure"] \notin branch

AllDisciplined ==
    verdict = "accepted" /\ \A n \in DOMAIN workflows : Disciplined(workflows[n])

(***************************************************************************)
(* "Step-state predicates must reference steps whose state is guaranteed   *)
(* to be known before the predicate executes" (sections.md 604): control   *)
(* at a decision or switch has behind it every step that it reads.         *)
(***************************************************************************)
StatesKnown ==
    \A t \in tokens : \A r \in Step(t).reads :
        \E d \in done : d.run = Run(t) /\ d.wf = t.wf /\ d.step = r.step

(***************************************************************************)
(* StatesKnown holds of every workflow the validator accepts, however its  *)
(* branches interleave, fail and are abandoned, if it is disciplined.      *)
(***************************************************************************)
StatesKnownIfDisciplined == AllDisciplined => StatesKnown

(***************************************************************************)
(* An accepted and disciplined workflow reaches each step once in a run:   *)
(* "workflow-visible step state is an immutable execution history"         *)
(* (sections.md 604), and the result contract allows one attempt.          *)
(***************************************************************************)
StepsReachedOnce ==
    AllDisciplined =>
        \A d, e \in done : d.run = e.run /\ d.wf = e.wf /\ d.step = e.step => d = e

(***************************************************************************)
(* A workflow is never called from within itself, at any depth.            *)
(***************************************************************************)
NoRecursion ==
    \A t \in tokens : \A i \in CallsAround(t.path) :
        /\ t.path[i].wf # t.wf
        /\ \A k \in CallsAround(t.path) : t.path[k].wf = t.path[i].wf => k = i

(***************************************************************************)
(* Every run of an accepted and disciplined workflow ends: no branch waits *)
(* at a join that the others never reach (_all_paths_reach_join and the    *)
(* foreign predecessors of a join).                                        *)
(***************************************************************************)
RunsEnd == AllDisciplined ~> (tokens = {})
=============================================================================
