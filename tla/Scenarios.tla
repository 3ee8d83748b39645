------------------------------ MODULE Scenarios ------------------------------
(***************************************************************************)
(* A written scenario, the validator's checks of the references between    *)
(* its elements and the substitution of parameters for placeholders        *)
(* (aces_sdl/validator.py, aces_sdl/semantics/assessment.py,               *)
(* objectives.py and objective_semantics.py, aces_sdl/instantiate.py).     *)
(*                                                                         *)
(* A scenario is a function from its elements, pairs <<section, name>>, to *)
(* their bodies.  A body has                                               *)
(*   kind   the type of a node, content or metric, a feature of an account *)
(*          or workflow, whether a variable is required                    *)
(*   value  the operating system of a node, the count of an infrastructure *)
(*          entry, the maximum of a metric, the absolute minimum of an     *)
(*          evaluation, the default of a variable, and for any other       *)
(*          section whatever else was written                              *)
(*   refs   per role the names it refers to; a role left out is empty      *)
(* A reference or a value may be a placeholder: a member of Variables.     *)
(*                                                                         *)
(* Left out: the shapes of single elements, address ranges, the roles of   *)
(* accounts on nodes, references to services and content items, and those  *)
(* by a qualified name or the name of a variable.  The graph of a          *)
(* workflow's steps is WorkflowGraph.                                      *)
(***************************************************************************)
EXTENDS Naturals, FiniteSets, Sequences, FiniteSetsExt

CONSTANTS Variables, NoValue

Defined(s, sec) == {e[2] : e \in {d \in DOMAIN s : d[1] = sec}}
Named(s, e, role) ==
    IF e \in DOMAIN s /\ role \in DOMAIN s[e].refs THEN s[e].refs[role] ELSE {}
Known(s, e, role) == Named(s, e, role) \ Variables

NodeIs(s, n, kind) == <<"nodes", n>> \in DOMAIN s /\ s[<<"nodes", n>>].kind = kind

\* From a node over a set of successors each: the nodes reached in one step
\* or more.
After(g, from) ==
    LET next(A) == UNION {g[n] : n \in A \cap DOMAIN g}
        reached[k \in 0 .. Cardinality(DOMAIN g)] ==
            IF k = 0 THEN next({from})
            ELSE LET before == reached[k - 1] IN before \cup next(before)
    IN  reached[Cardinality(DOMAIN g)]

\* Mutated form: only an element that names itself.
NotItself(g) == \A n \in DOMAIN g : n \notin g[n]

Acyclic(g) == \A n \in DOMAIN g : n \notin After(g, n)
-----------------------------------------------------------------------------
(* References, per section and role, and the section that must define them. *)

Refers ==
  [nodes |-> [features |-> "features", conditions |-> "conditions",
              injects |-> "injects", vulnerabilities |-> "vulnerabilities",
              entities |-> "entities"],
   infrastructure |-> [links |-> "infrastructure", acls |-> "infrastructure",
                       dependencies |-> "infrastructure"],
   features |-> [vulnerabilities |-> "vulnerabilities", dependencies |-> "features"],
   metrics |-> [condition |-> "conditions"],
   evaluations |-> [metrics |-> "metrics"],
   tlos |-> [evaluation |-> "evaluations"],
   goals |-> [tlos |-> "tlos"],
   entities |-> [tlos |-> "tlos", vulnerabilities |-> "vulnerabilities",
                 events |-> "events"],
   injects |-> [entities |-> "entities", tlos |-> "tlos"],
   events |-> [conditions |-> "conditions", injects |-> "injects"],
   scripts |-> [events |-> "events"],
   stories |-> [scripts |-> "scripts"],
   content |-> [target |-> "nodes"],
   accounts |-> [node |-> "nodes"],
   agents |-> [entity |-> "entities", starting_accounts |-> "accounts",
               allowed_subnets |-> "infrastructure", hosts |-> "nodes",
               starting_conditions |-> "conditions"],
   objectives |-> [agent |-> "agents", entity |-> "entities",
                   conditions |-> "conditions", metrics |-> "metrics",
                   evaluations |-> "evaluations", tlos |-> "tlos",
                   goals |-> "goals", depends_on |-> "objectives",
                   stories |-> "stories", scripts |-> "scripts",
                   events |-> "events", workflows |-> "workflows"],
   workflows |-> [objective |-> "objectives", workflow |-> "workflows",
                  compensate_with |-> "workflows", conditions |-> "conditions",
                  metrics |-> "metrics", evaluations |-> "evaluations",
                  tlos |-> "tlos", goals |-> "goals", objectives |-> "objectives"]]

RolesOf(sec) == IF sec \in DOMAIN Refers THEN DOMAIN Refers[sec] ELSE {}

NamesResolve(s) ==
    \A e \in DOMAIN s : \A role \in RolesOf(e[1]) :
        Known(s, e, role) \subseteq Defined(s, Refers[e[1]][role])

AllOf(s, sec, role, kind) ==
    \A n \in Defined(s, sec) : \A r \in Known(s, <<sec, n>>, role) : NodeIs(s, r, kind)

SwitchesLinked(s) ==
    /\ \A role \in {"links", "acls"} : AllOf(s, "infrastructure", role, "switch")
    /\ AllOf(s, "agents", "allowed_subnets", "switch")

NodeTypesFit(s) ==
    /\ SwitchesLinked(s)
    /\ AllOf(s, "content", "target", "vm") /\ AllOf(s, "accounts", "node", "vm")
    /\ AllOf(s, "agents", "hosts", "vm")

\* _verify_infrastructure: deployed entries are nodes, a switch and what has
\* conditions exists once.
Deployable(s) ==
    \A n \in Defined(s, "infrastructure") :
        LET count == s[<<"infrastructure", n>>].value
        IN  /\ <<"nodes", n>> \in DOMAIN s
            /\ count \notin Variables /\ count > 1 =>
                  NodeIs(s, n, "vm") /\ Named(s, <<"nodes", n>>, "conditions") = {}

Graph(s, sec, role) ==
    [n \in Defined(s, sec) |-> Known(s, <<sec, n>>, role) \cap Defined(s, sec)]
FeaturesAcyclic(s) == Acyclic(Graph(s, "features", "dependencies"))

-----------------------------------------------------------------------------
(* Bare names are ambiguous between sections; infrastructure entries mirror *)
(* the nodes and have no bare name.                                         *)

BareSections == {"nodes", "features", "conditions", "vulnerabilities", "metrics",
    "evaluations", "tlos", "goals", "content", "accounts", "agents", "objectives",
    "workflows", "relationships", "injects", "events", "scripts", "stories",
    "entities"}
Candidates(s, r) == {sec \in BareSections : <<sec, r>> \in DOMAIN s}
Targetable(s, r) == Candidates(s, r) \ {"objectives", "workflows"}

\* What bounds an agent: hosts, subnets and content.
InScope(s, r) ==
    {sec \in {"nodes", "infrastructure", "content"} :
        /\ <<sec, r>> \in DOMAIN s
        /\ sec = "nodes" => NodeIs(s, r, "vm")
        /\ sec = "infrastructure" => NodeIs(s, r, "switch")}

References(s, sec, role) == UNION {Known(s, <<sec, n>>, role) : n \in Defined(s, sec)}

\* _analyze_targets
TargetsClear(s) ==
    \A r \in References(s, "objectives", "targets") : Cardinality(Targetable(s, r)) = 1

BareNamesResolve(s) ==
    /\ \A r \in References(s, "relationships", "source")
                \cup References(s, "relationships", "target")
                \cup References(s, "agents", "authority_anchors") :
          Cardinality(Candidates(s, r)) = 1
    /\ \A r \in References(s, "agents", "operating_scope") : Cardinality(InScope(s, r)) = 1
    /\ TargetsClear(s)

-----------------------------------------------------------------------------
(* Assessment: conditions, metrics, evaluations.                            *)

ScoredOnce(s) ==
    \A m, n \in Defined(s, "metrics") :
        m # n => Known(s, <<"metrics", m>>, "condition")
                    \cap Known(s, <<"metrics", n>>, "condition") = {}

\* Skipped when a maximum or a metric is still a placeholder, or the minimum
\* is a percentage.
ScoresReachable(s) ==
    \A v \in Defined(s, "evaluations") :
        LET e == <<"evaluations", v>>
            names == Named(s, e, "metrics")
            maximum(m) == s[<<"metrics", m>>].value
        IN  s[e].value \notin Variables \cup {NoValue}
                /\ names \subseteq Defined(s, "metrics")
                /\ (\A m \in names : maximum(m) \notin Variables)
            => s[e].value <= MapThenSumSet(maximum, names)

-----------------------------------------------------------------------------
(* Objectives and their windows.                                            *)

WindowSections == {"stories", "scripts", "events", "workflows"}

\* analyze_objective_window: scripts named in the window replace those of its
\* stories.
Window(s, o) ==
    LET of(role) == Known(s, <<"objectives", o>>, role)
        among(sec) == of(sec) \cap Defined(s, sec)
        of_stories == UNION {Named(s, <<"stories", t>>, "scripts") : t \in among("stories")}
        scripts == IF among("scripts") # {} THEN among("scripts") ELSE of_stories
    IN  [scripts |-> of_stories,
         events |-> UNION {Known(s, <<"scripts", t>>, "events") : t \in scripts},
         workflows |-> among("workflows") \cup {x[1] : x \in
             {w \in of("steps") : w[2] \in Named(s, <<"workflows", w[1]>>, "steps")}}]

WindowIssues(s, o) ==
    LET of(role) == Known(s, <<"objectives", o>>, role)
        w == Window(s, o)
        outside(sec, within) == IF within = {} THEN {} ELSE of(sec) \ within
    IN  (UNION {of(sec) \ Defined(s, sec) : sec \in WindowSections})
        \cup outside("scripts", w.scripts) \cup outside("events", w.events)
        \cup (IF of("workflows") = {} THEN of("steps") ELSE {})
        \cup {x \in of("steps") :
                \/ x[2] \notin Named(s, <<"workflows", x[1]>>, "steps")
                \/ x[1] \notin of("workflows")}

ObjectivesBound(s) ==
    \A o \in Defined(s, "objectives") :
        LET e == <<"objectives", o>>
        IN  /\ WindowIssues(s, o) = {}
            /\ \A a \in Known(s, e, "agent") :
                  Known(s, e, "actions") \subseteq Named(s, <<"agents", a>>, "actions")

ObjectivesAcyclic(s) == Acyclic(Graph(s, "objectives", "depends_on"))

-----------------------------------------------------------------------------
(* Placeholders.                                                            *)

Placeholders(s) ==
    {v \in Variables : \E e \in DOMAIN s :
        s[e].value = v \/ \E r \in DOMAIN s[e].refs : v \in s[e].refs[r]}

VariablesDeclared(s) == Placeholders(s) \subseteq Defined(s, "variables")

\* SemanticValidator.validate, without the workflow graphs.
Accepted(s) ==
    /\ NamesResolve(s) /\ NodeTypesFit(s) /\ Deployable(s) /\ FeaturesAcyclic(s)
    /\ BareNamesResolve(s) /\ ScoredOnce(s) /\ ScoresReachable(s)
    /\ ObjectivesBound(s) /\ ObjectivesAcyclic(s) /\ VariablesDeclared(s)

Allowed(s, v) == Named(s, <<"variables", v>>, "allowed_values")

\* The values parameters and defaults give: a variable without either has none.
ValuesOf(s, parameters) ==
    LET given == [v \in Defined(s, "variables") |->
                    IF v \in DOMAIN parameters THEN parameters[v]
                    ELSE s[<<"variables", v>>].value]
    IN  [v \in {w \in DOMAIN given : given[w] # NoValue} |-> given[v]]

ParametersFit(s, parameters) ==
    LET values == ValuesOf(s, parameters)
    IN  /\ DOMAIN parameters \subseteq Defined(s, "variables")
        /\ \A v \in Defined(s, "variables") :
              /\ s[<<"variables", v>>].kind = "required" => v \in DOMAIN values
              /\ v \in DOMAIN values /\ Allowed(s, v) # {} => values[v] \in Allowed(s, v)

\* Placeholders with a value are replaced, in every body.
Concrete(s, parameters) ==
    LET values == ValuesOf(s, parameters)
        of(x) == IF x \in DOMAIN values THEN values[x] ELSE x
    IN  [e \in DOMAIN s |->
            [s[e] EXCEPT !.value = of(@),
                         !.refs = [r \in DOMAIN @ |-> {of(x) : x \in @[r]}]]]

\* Mutated form: the substituted scenario is not validated again.
OnlySubstitutes(s, parameters) ==
    ParametersFit(s, parameters) /\ Placeholders(Concrete(s, parameters)) = {}

\* instantiate_scenario of a validated scenario.
Instantiates(s, parameters) ==
    /\ ParametersFit(s, parameters)
    /\ Placeholders(Concrete(s, parameters)) = {}
    /\ Accepted(Concrete(s, parameters))
=============================================================================
