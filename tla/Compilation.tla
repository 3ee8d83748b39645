----------------------------- MODULE Compilation -----------------------------
(***************************************************************************)
(* From a written scenario to a plan: validation, instantiation with       *)
(* parameters, compilation into addressed resources, the check against the *)
(* manifest of a backend and reconciliation with what was applied before   *)
(* (aces_processor/compiler.py, planner.py, and the plan of manager.py).   *)
(*                                                                         *)
(* Names are the keys of sections; Labels gives the parts a name has at    *)
(* its dots, so an address is the sequence its text spells.  The planner's *)
(* addresses are the places of these in one fixed order.  A payload is the *)
(* bodies of the elements it is made of.  Editing is external, and so is   *)
(* the backend, which applies a whole valid plan (RuntimeManager has its   *)
(* failures).                                                              *)
(***************************************************************************)
EXTENDS Scenarios, SequencesExt

CONSTANTS
    Labels,      \* per name the labels between its dots
    Position,    \* per name of a node its place in the order they are written in
    FirstDrafts, \* the scenarios an author starts from
    Drafts,      \* per element the bodies an author may give it
    Parameters,  \* the parameters an operator may submit
    Manifests,   \* the backends
    MaxEdits     \* bound: edits of the start

ASSUME BoundOK == MaxEdits \in Nat
ASSUME ManifestsOK == \A m \in Manifests : m.total # NoValue => m.total \in Nat

VARIABLES
    manifest,   \* of the backend
    draft,      \* the scenario as it is written
    edits,      \* how often it was edited
    stage,      \* of the draft: written, rejected, accepted, refused or planned
    concrete,   \* the scenario of the last instantiation
    plan,       \* the last plan
    entries,    \* of the snapshot
    applied     \* the scenario behind the snapshot

pipelineVars == <<manifest, draft, edits, stage, concrete, plan, entries, applied>>

-----------------------------------------------------------------------------
(* Addresses.                                                              *)

Kinds == [content |-> "content", accounts |-> "account", injects |-> "inject",
    events |-> "event", scripts |-> "script", stories |-> "story",
    workflows |-> "workflow", metrics |-> "metric", evaluations |-> "evaluation",
    tlos |-> "tlo", goals |-> "goal", objectives |-> "objective"]

Bindings == [features |-> "feature", conditions |-> "condition",
             injects |-> "inject-binding"]

Address(kind, labels) == <<kind>> \o labels
Plain(sec, n) == Address(Kinds[sec], Labels[n])
NodeAt(s, n) == Address(IF NodeIs(s, n, "switch") THEN "network" ELSE "node", Labels[n])
BindingAt(sec, b) == Address(Bindings[sec], Labels[b[1]] \o Labels[b[2]])

DomainOf(address) ==
    CASE address[1] \in {"network", "node", "feature", "content", "account"} -> "provisioning"
      [] address[1] \in {"condition", "metric", "evaluation", "tlo", "goal", "objective"} -> "evaluation"
      [] OTHER -> "orchestration"

\* What elements and bodies there may be.
Everything == (UNION {DOMAIN s : s \in FirstDrafts}) \cup DOMAIN Drafts
Bodies(e) ==
    {s[e] : s \in {d \in FirstDrafts : e \in DOMAIN d}}
    \cup (IF e \in DOMAIN Drafts THEN Drafts[e] ELSE {})

Every(sec) == {e[2] : e \in {d \in Everything : d[1] = sec}}

\* There are finitely many, an element is a pair and a body a record.
ASSUME BodiesOK ==
    /\ IsFiniteSet(Everything)
    /\ \A e \in Everything :
          /\ e = <<e[1], e[2]>>
          /\ Labels[e[2]] \in Seq(ToSet(Labels[e[2]]))
          /\ \A b \in Bodies(e) : b = [kind |-> b.kind, value |-> b.value, refs |-> b.refs]

\* The labels of a name, with dots between them, are the name.
ASSUME LabelsOK ==
    \A e, f \in Everything : Labels[e[2]] = Labels[f[2]] => e[2] = f[2]

\* No two nodes are written in the same place.
ASSUME PositionsOK ==
    \A n, m \in Every("nodes") :
        Position[n] \in Nat /\ (Position[n] = Position[m] => n = m)

\* A variable is named by its placeholder; the counts of the infrastructure are
\* numbers, and so is what their placeholders may stand for.
ASSUME CountsOK ==
    \A e \in Everything :
        /\ e[1] = "variables" => e[2] \in Variables
        /\ e[1] = "infrastructure" => \A b \in Bodies(e) :
              /\ b.value \notin Variables => b.value \in Nat
              /\ \A v \in Bodies(<<"variables", b.value>>) :
                    /\ v.value # NoValue => v.value \in Nat
                    /\ "allowed_values" \in DOMAIN v.refs =>
                          /\ IsFiniteSet(v.refs["allowed_values"])
                          /\ v.refs["allowed_values"] \subseteq Nat
              /\ \A p \in Parameters : b.value \in DOMAIN p => p[b.value] \in Nat

Addresses ==
    {Plain(e[1], e[2]) : e \in {d \in Everything : d[1] \in DOMAIN Kinds}}
    \cup {Address(kind, Labels[n]) : kind \in {"network", "node"}, n \in Every("nodes")}
    \cup UNION {{BindingAt(sec, b) : b \in Every("nodes") \X Every(sec)} :
                sec \in DOMAIN Bindings}
Canonical == FoldSet(LAMBDA a, order : Append(order, a), <<>>, Addresses)
Place == [a \in Addresses |-> CHOOSE i \in DOMAIN Canonical : Canonical[i] = a]

Planner == INSTANCE Planner WITH
    Addresses <- DOMAIN Canonical,
    Domain <- [i \in DOMAIN Canonical |-> DomainOf(Canonical[i])],
    Payloads <- {}
-----------------------------------------------------------------------------
(* Compilation.  An unresolved reference becomes a diagnostic and leaves no *)
(* dependency.                                                             *)

\* What nodes bind: pairs of a node and a feature, condition or inject.
Bound(s, sec) ==
    {b \in Defined(s, "nodes") \X Defined(s, sec) :
        NodeIs(s, b[1], "vm") /\ b[2] \in Named(s, <<"nodes", b[1]>>, sec)}

\* Bindings are kept by address, each node's over those of earlier nodes.
Kept(s, sec) ==
    {b \in Bound(s, sec) : \A c \in Bound(s, sec) :
        BindingAt(sec, c) = BindingAt(sec, b) => Position[c[1]] <= Position[b[1]]}

\* _resolve_binding_ref: a condition stands for its only binding.
TheBinding(s, c) ==
    LET bs == {b \in Kept(s, "conditions") : b[2] = c}
    IN  IF Cardinality(bs) = 1 THEN {BindingAt("conditions", b) : b \in bs} ELSE {}

\* Per section the roles whose names are resolved to the address of what they
\* name, and the role that names conditions.
Resolved ==
  [events |-> {"injects"}, scripts |-> {"events"}, stories |-> {"scripts"},
   evaluations |-> {"metrics"}, tlos |-> {"evaluation"}, goals |-> {"tlos"},
   objectives |-> {"metrics", "evaluations", "tlos", "goals", "depends_on"},
   workflows |-> {"objective", "objectives", "metrics", "evaluations", "tlos", "goals"}]
ConditionRole == [events |-> "conditions", metrics |-> "condition",
                  objectives |-> "conditions", workflows |-> "conditions"]

Conditions(s, e) ==
    IF e[1] \in DOMAIN ConditionRole THEN Named(s, e, ConditionRole[e[1]]) ELSE {}

Upstream(s, e) ==
    UNION {LET sec == Refers[e[1]][role]
           IN  {Plain(sec, x) : x \in Named(s, e, role) \cap Defined(s, sec)} :
           role \in IF e[1] \in DOMAIN Resolved THEN Resolved[e[1]] ELSE {}}

ConditionsOf(s, e) == UNION {TheBinding(s, c) : c \in Conditions(s, e)}
InjectedBy(s, e) ==
    {BindingAt("injects", b) : b \in {x \in Kept(s, "injects") : x[2] \in Named(s, e, "injects")}}
WindowOf(s, o) ==
    (UNION {{Plain(sec, x) : x \in Named(s, <<"objectives", o>>, sec) \cap Defined(s, sec)} :
            sec \in WindowSections})
    \cup {Plain("workflows", w) : w \in Window(s, o).workflows}

\* Mutated form: an event waits for its conditions too.
AcrossDomains(s, e) ==
    CASE e[1] = "workflows" -> {}
      [] e[1] = "events" -> Upstream(s, e) \cup InjectedBy(s, e) \cup ConditionsOf(s, e)
      [] OTHER -> Upstream(s, e) \cup ConditionsOf(s, e)

Ordering(s, e) ==
    CASE e[1] = "workflows" -> {}
      [] e[1] = "events" -> Upstream(s, e) \cup InjectedBy(s, e)
      [] OTHER -> Upstream(s, e) \cup ConditionsOf(s, e)

\* Mutated form: an objective is refreshed with what its success names only.
RefreshWithSuccess(s, e) == Upstream(s, e) \cup ConditionsOf(s, e)

Refresh(s, e) ==
    Upstream(s, e) \cup ConditionsOf(s, e)
    \cup (IF e[1] = "events" THEN InjectedBy(s, e) ELSE {})
    \cup (IF e[1] = "objectives" THEN WindowOf(s, e[2]) ELSE {})

Resource(at, owners, payload, ordering, refresh) ==
    [at |-> at, owners |-> owners, payload |-> payload, ordering |-> ordering,
     refresh |-> refresh]

Neighbours(s, n) ==
    LET e == <<"infrastructure", n>>
        nodes == Defined(s, "nodes")
    IN  {NodeAt(s, d) : d \in Named(s, e, "dependencies") \cap nodes}
        \cup {NodeAt(s, d) : d \in {l \in Named(s, e, "links") : NodeIs(s, l, "switch")}}

Deployments(s) ==
    {Resource(NodeAt(s, n), {<<"nodes", n>>},
              {s[e] : e \in {<<"nodes", n>>, <<"infrastructure", n>>} \cap DOMAIN s},
              Neighbours(s, n), Neighbours(s, n)) : n \in Defined(s, "nodes")}

FeatureDependencies(s, b) ==
    {NodeAt(s, b[1])} \cup
    {BindingAt("features", <<b[1], d>>) :
        d \in Named(s, <<"features", b[2]>>, "dependencies")
              \cap Named(s, <<"nodes", b[1]>>, "features")}

BindingResources(s) ==
    {Resource(BindingAt("features", b), {<<"nodes", b[1]>>, <<"features", b[2]>>},
              {s[<<"features", b[2]>>]}, FeatureDependencies(s, b),
              FeatureDependencies(s, b)) : b \in Kept(s, "features")}
    \cup
    {Resource(BindingAt("conditions", b), {<<"nodes", b[1]>>, <<"conditions", b[2]>>},
              {s[<<"conditions", b[2]>>]}, {}, {NodeAt(s, b[1])}) :
        b \in Kept(s, "conditions")}
    \cup
    {Resource(BindingAt("injects", b), {<<"nodes", b[1]>>, <<"injects", b[2]>>}, {},
              {Plain("injects", b[2])}, {NodeAt(s, b[1]), Plain("injects", b[2])}) :
        b \in Kept(s, "injects")}

\* Contents and accounts: on their node, or dropped with a diagnostic.
PlacementRole == [content |-> "target", accounts |-> "node"]

\* The fields are required.
ASSUME PlacedOK ==
    \A e \in Everything : e[1] \in DOMAIN PlacementRole =>
        \A b \in Bodies(e) : LET role == PlacementRole[e[1]]
                            IN  role \in DOMAIN b.refs /\ b.refs[role] # {}

Hosts(s, e) == {n \in Named(s, e, PlacementRole[e[1]]) : NodeIs(s, n, "vm")}
Placements(s) ==
    {Resource(Plain(e[1], e[2]), {e}, {s[e]}, {NodeAt(s, n) : n \in Hosts(s, e)},
              {NodeAt(s, n) : n \in Hosts(s, e)}) :
        e \in {d \in DOMAIN s : d[1] \in DOMAIN PlacementRole /\ Hosts(s, d) # {}}}

Programs(s) ==
    {Resource(Plain(e[1], e[2]), {e}, {s[e]}, Ordering(s, e), Refresh(s, e)) :
        e \in {d \in DOMAIN s : d[1] \in DOMAIN Kinds \ DOMAIN PlacementRole}}

Compiled(s) == Deployments(s) \cup BindingResources(s) \cup Placements(s) \cup Programs(s)

\* The elements behind each kind of diagnostic.
Faults(s) ==
    LET of(sections) == {e \in DOMAIN s : e[1] \in sections}
        vms == {e \in of({"nodes"}) : NodeIs(s, e[2], "vm")}
        deployed == {e \in of({"infrastructure"}) : e[2] \in Defined(s, "nodes")}
        lacks(e, role, sec) == Named(s, e, role) \ Defined(s, sec) # {}
    IN  [dependency |-> {e \in deployed : lacks(e, "dependencies", "nodes")},
         link |-> {e \in deployed : \E l \in Named(s, e, "links") : ~NodeIs(s, l, "switch")},
         template |-> {e \in vms : \E sec \in DOMAIN Bindings : lacks(e, sec, sec)},
         feature |-> {b \in Bound(s, "features") :
                        Named(s, <<"features", b[2]>>, "dependencies")
                            \ Named(s, <<"nodes", b[1]>>, "features") # {}},
         placement |-> {e \in of(DOMAIN PlacementRole) : Hosts(s, e) = {}},
         condition |-> {e \in DOMAIN s :
                          \E c \in Conditions(s, e) : TheBinding(s, c) = {}},
         name |-> {e \in of(DOMAIN Resolved) :
                     \E role \in RolesOf(e[1]) \ {"conditions", "agent", "entity"} :
                        lacks(e, role, Refers[e[1]][role])},
         window |-> {e \in of({"objectives"}) : WindowIssues(s, e[2]) # {}}]

Issues(s) == {code \in DOMAIN Faults(s) : Faults(s)[code] # {}}
-----------------------------------------------------------------------------
(* Capabilities: what a scenario needs, and what its placeholders for an    *)
(* operating system or a count may stand for.                               *)

EvaluationSections == {"metrics", "evaluations", "tlos", "goals", "objectives"}
OrchestrationSections == {"injects", "events", "scripts", "stories", "workflows"}

Needed(s) ==
    LET used == {sec \in OrchestrationSections \cup EvaluationSections : Defined(s, sec) # {}}
                \cup {sec \in {"conditions"} : Bound(s, sec) # {}}
        uses(sec) == IF sec \in OrchestrationSections THEN "orchestrator" ELSE "evaluator"
        gated == {e \in DOMAIN s : e[1] \in {"events", "workflows"} /\ ConditionsOf(s, e) # {}}
        walled == {n \in Defined(s, "nodes") :
                     NodeIs(s, n, "switch") /\ Named(s, <<"infrastructure", n>>, "acls") # {}}
    IN  used \cup {uses(sec) : sec \in used}
        \cup {"scoring" : sec \in used \cap {"conditions", "metrics", "evaluations", "tlos", "goals"}}
        \cup ({s[e].kind : e \in {d \in DOMAIN s :
                d[1] \in {"nodes", "workflows"} \cup DOMAIN PlacementRole}} \ {""})
        \cup {"accounts" : n \in Defined(s, "accounts")}
        \cup {"acls" : n \in walled}
        \cup {"condition-refs" : e \in gated}
        \cup {"inject-bindings" : b \in Bound(s, "injects")}

\* Mutated form: the value that was instantiated.
OnlyItsValue(d, s, e) == {s[e].value}

\* The values that are checked: those a placeholder of the draft may take, if
\* they are limited, or the one it has.
Checked(d, s, e) ==
    IF d[e].value \in Variables /\ Allowed(d, d[e].value) # {}
    THEN Allowed(d, d[e].value) ELSE {s[e].value}

Total(d, s) ==
    LET count(n) == LET e == <<"infrastructure", n>>
                    IN  IF e \in DOMAIN s THEN Max(Checked(d, s, e)) ELSE 1
    IN  MapThenSumSet(count, Defined(s, "nodes"))

SystemsFit(d, s, m) ==
    \A n \in Defined(s, "nodes") :
        NodeIs(s, n, "vm") => Checked(d, s, <<"nodes", n>>) \subseteq m.os \cup {NoValue}

Supported(d, s, m) ==
    /\ Needed(s) \subseteq m.supports
    /\ SystemsFit(d, s, m)
    /\ m.total # NoValue => Total(d, s) <= m.total
-----------------------------------------------------------------------------
\* Addressed resources in the planner's form.
Resources(s) ==
    LET compiled == Compiled(s)
        at == {r.at : r \in compiled}
        the == [a \in at |-> CHOOSE r \in compiled : r.at = a]
        places(as) == {Place[a] : a \in as}
    IN  [i \in places(at) |->
            LET r == the[Canonical[i]]
            IN  [payload |-> r.payload, ordering |-> places(r.ordering),
                 refresh |-> places(r.refresh)]]

PlanOf(d, s) ==
    LET p == Planner!Plan(Resources(s), entries)
    IN  [p EXCEPT !.valid = @ /\ Issues(s) = {} /\ Supported(d, s, manifest)]

Nothing == [e \in {} |-> e]
NoPlan == [valid |-> FALSE]

PipelineInit ==
    /\ manifest \in Manifests /\ draft \in FirstDrafts /\ edits = 0
    /\ stage = "written" /\ concrete = Nothing /\ plan = NoPlan
    /\ entries = Nothing /\ applied = Nothing

Written(s) ==
    /\ edits < MaxEdits
    /\ draft' = s /\ edits' = edits + 1 /\ stage' = "written"
    /\ concrete' = Nothing /\ plan' = NoPlan
    /\ UNCHANGED <<manifest, entries, applied>>

Write(e, body) ==
    /\ e \in DOMAIN draft => draft[e] # body
    /\ Written([d \in DOMAIN draft \cup {e} |-> IF d = e THEN body ELSE draft[d]])
Erase(e) == e \in DOMAIN draft /\ Written([d \in DOMAIN draft \ {e} |-> draft[d]])

Parse ==
    /\ stage = "written"
    /\ stage' = IF Accepted(draft) THEN "accepted" ELSE "rejected"
    /\ UNCHANGED <<manifest, draft, edits, concrete, plan, entries, applied>>

\* RuntimeManager.plan
MakePlan(parameters) ==
    /\ stage \in {"accepted", "refused", "planned"}
    /\ IF Instantiates(draft, parameters)
       THEN LET s == Concrete(draft, parameters)
            IN  stage' = "planned" /\ concrete' = s /\ plan' = PlanOf(draft, s)
       ELSE stage' = "refused" /\ concrete' = Nothing /\ plan' = NoPlan
    /\ UNCHANGED <<manifest, draft, edits, entries, applied>>

\* The backend takes over a valid plan; the next one starts from its snapshot.
Apply ==
    /\ stage = "planned" /\ plan.valid
    /\ entries' = plan.resources /\ applied' = concrete
    /\ stage' = "accepted" /\ concrete' = Nothing /\ plan' = NoPlan
    /\ UNCHANGED <<manifest, draft, edits>>

PipelineNext ==
    \/ \E e \in DOMAIN Drafts : \E body \in Drafts[e] : Write(e, body)
    \/ \E e \in DOMAIN Drafts : Erase(e)
    \/ Parse
    \/ \E p \in Parameters : MakePlan(p)
    \/ Apply

PipelineSpec == PipelineInit /\ [][PipelineNext]_pipelineVars
-----------------------------------------------------------------------------
(* Properties.                                                             *)

\* The compiler resolves every reference the validator let through, also one
\* that was a placeholder when the scenario was written: what it still finds is
\* a condition bound nowhere or more than once, or a feature whose dependency
\* is not bound beside it. No placeholder is left.
AcceptedCompiles ==
    stage = "planned" =>
        /\ Placeholders(concrete) = {}
        /\ Issues(concrete) \subseteq {"condition", "feature"}

\* Nothing the validator accepts makes the planner find an ordering cycle,
\* except deployments that wait for each other: those it never looks for.
OnlyDeploymentsCycle ==
    stage = "planned" =>
        \/ \A d \in Planner!Domains :
              ~Planner!Cyclic(Planner!OrderingGraph(
                  Planner!Part(plan.resources, Planner!Of(d))))
        \/ ~Acyclic([n \in Defined(concrete, "nodes") |->
                Named(concrete, <<"infrastructure", n>>, "dependencies")
                \cup Named(concrete, <<"infrastructure", n>>, "links")])

\* No dependency of a valid plan is dropped: a resource it waits for is planned
\* in its own domain, and one it is refreshed with is planned at all.
DependenciesPlanned ==
    (stage = "planned" /\ plan.valid) =>
        \A i \in DOMAIN plan.resources :
            /\ \A j \in plan.resources[i].ordering :
                  /\ j \in DOMAIN plan.resources
                  /\ DomainOf(Canonical[j]) = DomainOf(Canonical[i])
            /\ plan.resources[i].refresh \subseteq DOMAIN plan.resources

\* What an element's meaning rests on, as it is written: what it names for its
\* success, window, order, scoring or place, and the nodes conditions and
\* injects run on.  Actors, targets, called and compensating workflows and
\* vulnerabilities are left out: the compiler follows none of them.
Follows ==
  [infrastructure |-> {"links", "dependencies"}, features |-> {"dependencies"},
   content |-> {"target"}, accounts |-> {"node"},
   metrics |-> {"condition"}, evaluations |-> {"metrics"}, tlos |-> {"evaluation"},
   goals |-> {"tlos"}, events |-> {"conditions", "injects"}, scripts |-> {"events"},
   stories |-> {"scripts"},
   objectives |-> {"conditions", "metrics", "evaluations", "tlos", "goals",
                   "depends_on", "stories", "scripts", "events", "workflows"},
   workflows |-> {"objective", "objectives", "conditions", "metrics",
                  "evaluations", "tlos", "goals"}]

Rests(s) ==
    LET named(e) == IF e[1] \notin DOMAIN Follows THEN {}
                    ELSE UNION {{<<Refers[e[1]][role], x>> : x \in Named(s, e, role)} :
                                role \in Follows[e[1]]}
        hosts(sec, names) ==
            {<<"nodes", n>> : n \in {m \in Defined(s, "nodes") :
                                Named(s, <<"nodes", m>>, sec) \cap names # {}}}
        around(e) ==
            CASE e[1] = "nodes" -> {<<"infrastructure", e[2]>>}
              [] e[1] = "infrastructure" -> {<<"nodes", e[2]>>}
              [] e[1] = "events" -> hosts("injects", Named(s, e, "injects"))
              [] e[1] = "objectives" ->
                    {<<"workflows", x[1]>> : x \in Named(s, e, "steps")}
              [] OTHER -> {}
    IN  [e \in DOMAIN s |->
            (named(e) \cup around(e) \cup hosts("conditions", Conditions(s, e))) \cap DOMAIN s]

Meaning(s, e) == {<<d, s[d]>> : d \in ({e} \cup After(Rests(s), e)) \cap DOMAIN s}

\* An edit reaches the backend: a valid plan leaves a resource alone only if
\* the elements it is made of mean what they meant in the applied scenario.
EditsReachBackend ==
    (stage = "planned" /\ plan.valid) =>
        LET ops == UNION {{plan.ops[d][k] : k \in DOMAIN plan.ops[d]} : d \in DOMAIN plan.ops}
            alone == {Canonical[op.address] : op \in {o \in ops : o.action = "unchanged"}}
        IN  \A r \in Compiled(concrete) : r.at \in alone =>
                \A e \in r.owners : Meaning(applied, e) = Meaning(concrete, e)

\* The os and the counts of a concrete scenario are within the manifest.
Fits(s, m) ==
    LET count(n) == IF <<"infrastructure", n>> \in DOMAIN s
                    THEN s[<<"infrastructure", n>>].value ELSE 1
    IN  /\ \A n \in Defined(s, "nodes") :
              NodeIs(s, n, "vm") => s[<<"nodes", n>>].value \in m.os \cup {NoValue}
        /\ m.total # NoValue => MapThenSumSet(count, Defined(s, "nodes")) <= m.total

\* A plan is valid only for a backend that could deploy the scenario under
\* every other choice of the placeholders that are limited to allowed values.
PlanFits ==
    (stage = "planned" /\ plan.valid) =>
        \A p \in Parameters :
            LET s == Concrete(draft, p)
                open == {v \in Defined(draft, "variables") : Allowed(draft, v) = {}}
            IN  (Instantiates(draft, p)
                    /\ \A e \in DOMAIN draft :
                          draft[e].value \in open => s[e].value = concrete[e].value)
                => Fits(s, manifest)
=============================================================================
