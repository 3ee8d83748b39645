----------------------------- MODULE Composition -----------------------------
(***************************************************************************)
(* Composition (aces_sdl/composition.py, _module_symbols.py,               *)
(* _module_provenance.py): a scenario and the modules it imports, expanded *)
(* depth first into one scenario. A module that is mounted under a         *)
(* namespace has its elements renamed, exported or private, the references *)
(* between them rewritten, and the variables its nodes were written with   *)
(* carried along under names of their own.                                 *)
(*                                                                         *)
(* A dotted name is the sequence of its parts. An element, a variable and  *)
(* what a reference means are told apart by an id that no renaming         *)
(* touches: where its module is mounted, the file, the section, the local  *)
(* name.                                                                   *)
(* Abstracted: the content of the elements, and how a source is resolved   *)
(* (ModuleRegistry).                                                       *)
(***************************************************************************)
EXTENDS Integers, FiniteSets, Sequences, SequencesExt

CONSTANTS
    FileSystems,    \* files that may be in the directory: a module by file name
    Main,           \* the file that is parsed
    Parts           \* what a dotted name consists of

VARIABLES
    files,      \* the files
    stack,      \* the modules being expanded, the outermost first
    outcome     \* "open", "failed" or "done"

vars == <<files, stack, outcome>>

-----------------------------------------------------------------------------
(* Sections and references. *)

\* HASHMAP_SECTIONS, in their order.
Sections == <<"nodes", "infrastructure", "features", "conditions", "vulnerabilities",
    "metrics", "evaluations", "tlos", "goals", "entities", "injects", "events", "scripts",
    "stories", "content", "accounts", "relationships", "agents", "objectives", "workflows">>

\* The fields whose references the validator looks up in one section, and that
\* are rewritten by the names of that section.
SectionFields ==
    [features        |-> {"node.features", "feature.dependencies"},
     conditions      |-> {"node.conditions", "metric.condition", "event.conditions",
                          "success.conditions", "when.conditions"},
     vulnerabilities |-> {"node.vulnerabilities", "feature.vulnerabilities",
                          "entity.vulnerabilities"},
     metrics         |-> {"evaluation.metrics", "success.metrics", "when.metrics"},
     evaluations     |-> {"tlo.evaluation", "success.evaluations", "when.evaluations"},
     tlos            |-> {"goal.tlos", "entity.tlos", "inject.tlos", "success.tlos",
                          "when.tlos"},
     goals           |-> {"success.goals", "when.goals"},
     entities        |-> {"role.entities", "inject.from_entity", "inject.to_entities",
                          "agent.entity", "objective.entity"},
     injects         |-> {"node.injects", "event.injects"},
     events          |-> {"entity.events", "script.events", "window.events"},
     scripts         |-> {"story.scripts", "window.scripts"},
     stories         |-> {"window.stories"},
     nodes           |-> {"content.target", "account.node", "knowledge.hosts"},
     infrastructure  |-> {"knowledge.subnets", "agent.allowed_subnets"},
     accounts        |-> {"agent.starting_accounts", "knowledge.accounts"},
     agents          |-> {"objective.agent"},
     objectives      |-> {"objective.depends_on", "when.objectives", "step.objective"},
     workflows       |-> {"step.workflow", "step.compensate_with", "window.workflows"}]

\* The fields that are rewritten by the names of all sections together.
NamedFields == {"infrastructure.dependencies", "infrastructure.links",
    "infrastructure.properties", "relationship.source", "relationship.target",
    "agent.starting_conditions", "agent.authority_anchors", "agent.operating_scope",
    "objective.targets"}

\* Where the validator looks a reference up: one section, or any of several.
Looks(field) ==
    CASE \E s \in DOMAIN SectionFields : field \in SectionFields[s] ->
            {CHOOSE s \in DOMAIN SectionFields : field \in SectionFields[s]}
      [] field \in {"infrastructure.dependencies", "infrastructure.links",
                    "infrastructure.properties", "acl.networks"} -> {"infrastructure"}
      [] field = "agent.starting_conditions" -> {"conditions"}
      [] field = "agent.operating_scope" -> {"nodes", "infrastructure", "content"}
      [] field = "objective.targets" -> ToSet(Sections) \ {"objectives", "workflows"}
      [] OTHER -> ToSet(Sections)

\* Fields in which a name may be qualified by its section, and those in which a
\* name alone is never that of an infrastructure entry.
Qualifiable == {"relationship.source", "relationship.target", "agent.starting_conditions",
                "agent.authority_anchors", "agent.operating_scope", "objective.targets"}
BareMeansNode == {"relationship.source", "relationship.target", "agent.authority_anchors",
                  "objective.targets"}

\* The elements a reference of a scenario denotes: none when it is undefined,
\* several when it is ambiguous.
Denotes(scenario, ref) ==
    {e.id : e \in {e \in scenario.elements :
        /\ e.name = ref.to /\ e.section \in Looks(ref.field)
        /\ IF ref.section # "" THEN ref.field \in Qualifiable /\ e.section = ref.section
           ELSE ref.field \in BareMeansNode => e.section # "infrastructure"}}

-----------------------------------------------------------------------------
(* What a file is, apart from what it means. *)

ASSUME PartsOK == "__private" \in Parts
Dotted == Seq(Parts) \ {<<>>}

\* One section has a name once, and nested entities continue that of their ancestor.
ElementsOK(elements) ==
    /\ \A e \in elements :
        /\ DOMAIN e = {"id", "section", "name", "top"} /\ e.section \in ToSet(Sections)
        /\ e.name \in Dotted /\ e.top \in Dotted
        /\ e.name = e.top \o SubSeq(e.name, Len(e.top) + 1, Len(e.name))
        /\ e.section # "entities" => e.name = e.top
        /\ \E a \in elements : a.section = e.section /\ a.top = e.top /\ a.name = e.top
    /\ \A e, f \in elements :
        e.section = f.section /\ e.top = f.top /\ e.name = f.name => e.id = f.id

\* Variables have names of their own, and what is used is there.
VariablesOK(module) ==
    /\ \A v \in module.variables : v.name \in Dotted
    /\ \A v, w \in module.variables : v.name = w.name => v.id = w.id
    /\ \A u \in module.uses :
        /\ "at" \in DOMAIN u.id /\ u.id.at = <<>>
        /\ \E e \in module.elements : e.section = "nodes" /\ e.name = u.node /\ e.id = u.id
        /\ \E v \in module.variables : v.name = u.variable /\ v.id = u.meant

FileOK(fs, name) ==
    /\ fs[name].imports \in Seq([file : DOMAIN fs, ns : Dotted])
    /\ ElementsOK(fs[name].elements) /\ VariablesOK(fs[name])
    /\ \A r \in fs[name].refs : DOMAIN r = {"owner", "field", "section", "to", "meant"}
ASSUME FilesOK ==
    \A fs \in FileSystems : Main \in DOMAIN fs /\ \A name \in DOMAIN fs : FileOK(fs, name)

-----------------------------------------------------------------------------
(* Renaming. *)

\* _prefix and _private_prefix
Prefixed(ns, name) == ns \o name
Private(ns, name) == ns \o <<"__private">> \o name

\* The names a module exports: those its descriptor lists or, without one, all
\* its own, of the entities only those at the top.
Exports(module) ==
    IF module.descriptor THEN module.exports
    ELSE {[section |-> e.section, name |-> e.name] : e \in {e \in module.elements : e.name = e.top}}

\* _section_rename_map
Renamed(exports, ns, section, name) ==
    IF [section |-> section, name |-> name] \in exports THEN Prefixed(ns, name)
    ELSE Private(ns, name)

\* The position of the section whose name an alias stands for: the last one
\* that has it, entities after all others.
Rank(section) == IF section = "entities" THEN Len(Sections) + 1
                 ELSE CHOOSE i \in DOMAIN Sections : Sections[i] = section
LastWriter(having) == CHOOSE s \in having : \A t \in having : Rank(t) <= Rank(s)

\* The section by whose map a reference is rewritten, if any (symbol_index and
\* _namespace_payload).
RewrittenBy(scenario, ref) ==
    LET having == {e.section : e \in {e \in scenario.elements : e.name = ref.to}}
    IN  IF ref.field \in NamedFields
        THEN IF ref.section # "" THEN {ref.section} \cap having
             ELSE IF having = {} THEN {} ELSE {LastWriter(having)}
        ELSE IF ref.section = "" /\ ref.field # "acl.networks"
             THEN Looks(ref.field) \cap having
             ELSE {}

\* Mutated form: a private name is rewritten like an exported one.
RewrittenAsExported(scenario, exports, ns, ref) ==
    IF RewrittenBy(scenario, ref) = {} THEN ref ELSE [ref EXCEPT !.to = Prefixed(ns, @)]
\* _maybe_rename
Rewritten(scenario, exports, ns, ref) ==
    [ref EXCEPT !.to = IF RewrittenBy(scenario, ref) = {} THEN @
                       ELSE Renamed(exports, ns, CHOOSE s \in RewrittenBy(scenario, ref) : TRUE, @)]

Moved(ns, id) == [id EXCEPT !.at = <<ns>> \o @]

\* An element under its new name: a nested entity goes with its ancestor.
MovedElement(exports, ns, e) ==
    LET top == Renamed(exports, ns, e.section, e.top)
    IN  [e EXCEPT !.id = Moved(ns, @), !.top = top,
                  !.name = top \o SubSeq(e.name, Len(e.top) + 1, Len(e.name))]

-----------------------------------------------------------------------------
(* Provenance of the variables that nodes were written with. *)

\* Mutated form: a variable of a deeper module is taken for one of this module.
RenamedAsLocal(module, ns, variable) == Private(ns, variable)
\* rename_variable_ref
RenamedVariable(module, ns, variable) ==
    IF \E v \in module.variables : v.name = variable THEN Private(ns, variable)
    ELSE Prefixed(ns, variable)

\* The variables of a module and of those below it: variables that the module
\* declares itself are private to it.
MovedSpecs(module, ns, specs) ==
    {[name |-> Private(ns, v.name), id |-> Moved(ns, v.id)] : v \in module.variables}
    \cup {[name |-> Prefixed(ns, v.name), id |-> Moved(ns, v.id)] : v \in specs}

\* The references from nodes to variables, under the new names of both.
MovedUses(module, exports, ns, uses) ==
    {[node |-> Renamed(exports, ns, "nodes", u.node),
      variable |-> RenamedVariable(module, ns, u.variable),
      id |-> Moved(ns, u.id), meant |-> Moved(ns, u.meant)] : u \in uses}

Names(specs) == {v.name : v \in specs}
Keys(elements) == {<<e.section, e.top>> : e \in elements}

-----------------------------------------------------------------------------
(* Expansion. *)

\* The scenario of a file before its imports are merged.
Scenario(module) == [elements |-> module.elements, refs |-> module.refs,
                     specs |-> {}, uses |-> module.uses]
Frame(file, ns) == [file |-> file, ns |-> ns, todo |-> files[file].imports,
                    scenario |-> Scenario(files[file])]
Top == stack[Len(stack)]

Init ==
    /\ files \in FileSystems /\ outcome = "open"
    /\ stack = <<Frame(Main, <<>>)>>

\* A module that is still being expanded cannot be imported (seen).
Cyclic(file) == \E i \in DOMAIN stack : stack[i].file = file

\* Mutated form: an import that closes a cycle is tried again instead of refused.
OpenRetrying ==
    /\ outcome = "open" /\ Top.todo # <<>> /\ ~Cyclic(Head(Top.todo).file)
    /\ stack' = Append([stack EXCEPT ![Len(stack)].todo = Tail(@)],
                       Frame(Head(Top.todo).file, Head(Top.todo).ns))
    /\ UNCHANGED <<files, outcome>>
\* The next import of the innermost module is opened.
Open ==
    /\ outcome = "open" /\ Top.todo # <<>>
    /\ LET import == Head(Top.todo)
       IN  IF Cyclic(import.file)
           THEN outcome' = "failed" /\ UNCHANGED stack
           ELSE /\ stack' = Append([stack EXCEPT ![Len(stack)].todo = Tail(@)],
                                   Frame(import.file, import.ns))
                /\ UNCHANGED outcome
    /\ UNCHANGED files

\* A module as it is mounted under its namespace (_namespace_payload).
Mounted(frame) ==
    LET module == files[frame.file]
        exports == Exports(module)
        s == frame.scenario
    IN  [elements |-> {MovedElement(exports, frame.ns, e) : e \in s.elements},
         refs |-> {[Rewritten(s, exports, frame.ns, r) EXCEPT
                       !.owner = Moved(frame.ns, @), !.meant = Moved(frame.ns, @)] : r \in s.refs},
         specs |-> MovedSpecs(module, frame.ns, s.specs),
         uses |-> MovedUses(module, exports, frame.ns, s.uses)]

\* _validate_descriptor_exports
ExportsDefined(frame) ==
    \A x \in Exports(files[frame.file]) :
        \E e \in frame.scenario.elements : e.section = x.section /\ e.name = x.name

\* Mutated form: a later import may replace what an earlier one brought.
NeverCollides(into, from) == FALSE
\* _merge_sections and add_unique_provenance
Collides(into, from) ==
    \/ Keys(into.elements) \cap Keys(from.elements) # {}
    \/ Names(into.specs) \cap Names(from.specs) # {}
    \/ {u.node : u \in into.uses} \cap {u.node : u \in from.uses} # {}

\* The innermost module is expanded: it is mounted in the module that imports it.
Mount ==
    /\ outcome = "open" /\ Top.todo = <<>> /\ Len(stack) > 1
    /\ LET into == stack[Len(stack) - 1].scenario
           from == Mounted(Top)
       IN  IF ~ExportsDefined(Top) \/ Collides(into, from)
           THEN outcome' = "failed" /\ UNCHANGED stack
           ELSE /\ stack' = [SubSeq(stack, 1, Len(stack) - 1) EXCEPT
                       ![Len(stack) - 1].scenario =
                           [k \in DOMAIN into |-> into[k] \cup from[k]]]
                /\ UNCHANGED outcome
    /\ UNCHANGED files

Finish ==
    /\ outcome = "open" /\ Len(stack) = 1 /\ Top.todo = <<>>
    /\ outcome' = "done" /\ UNCHANGED <<files, stack>>

Next == Open \/ Mount \/ Finish
Spec == Init /\ [][Next]_vars /\ WF_vars(Next)

-----------------------------------------------------------------------------
(* What a module has to observe for its references to survive. *)

\* Elements of one name are exported together, and so is what nests in an entity.
Consistent(scenario, exports) ==
    \A e, f \in scenario.elements :
        e.name = f.name \/ (e.section = "entities" /\ f.section = "entities" /\ e.top = f.top)
        => ([section |-> e.section, name |-> e.name] \in exports
            <=> [section |-> f.section, name |-> f.name] \in exports)
NoAcls(scenario) == \A r \in scenario.refs : r.field # "acl.networks"

Tame(frame) == /\ Consistent(frame.scenario, Exports(files[frame.file]))
               /\ NoAcls(frame.scenario)

(***************************************************************************)
(* A reference that denotes one element in its module denotes that element *)
(* and no other once the module is mounted, at every depth, if the module  *)
(* exports elements of one name, and an entity with what nests in it,      *)
(* together. It does not otherwise: `named` keeps one new name per old     *)
(* one, and the networks of an ACL are not rewritten at all                *)
(* (composition.py 73-113, _module_symbols.py 125-185).                    *)
(***************************************************************************)
ReferencesSurvive ==
    outcome = "open" /\ Len(stack) > 1 /\ Top.todo = <<>> /\ Tame(Top)
    /\ (\A r \in Top.scenario.refs : Denotes(Top.scenario, r) = {r.meant})
    => \A r \in Mounted(Top).refs : Denotes(Mounted(Top), r) = {r.meant}

(***************************************************************************)
(* In what expansion ends with, every node that was written with a         *)
(* variable still has, under its new name, a reference to that variable,   *)
(* whatever else is imported beside it: the planner checks the right       *)
(* allowed values (composition.py 420-478, instantiate.py 106-170).        *)
(***************************************************************************)
ProvenanceSurvives ==
    outcome = "done" =>
        \A u \in Top.scenario.uses :
            /\ {e.id : e \in {e \in Top.scenario.elements :
                                 e.section = "nodes" /\ e.name = u.node}} = {u.id}
            /\ u.id.at # <<>> =>
                 {v.id : v \in {v \in Top.scenario.specs : v.name = u.variable}} = {u.meant}

(***************************************************************************)
(* An expansion that succeeds has lost nothing and confused nothing: each  *)
(* element of each import, at every depth, has a name of its own           *)
(* (_merge_sections). Entities are compared at the top only: one that      *)
(* nests in `blue` as `bob` may be shadowed by the entity `bob` of a       *)
(* module that is mounted as `blue` (entities.py 50-62).                   *)
(***************************************************************************)
NothingShadowed ==
    \A i \in DOMAIN stack : \A e, f \in stack[i].scenario.elements :
        /\ e.section = f.section /\ e.name = f.name
        /\ e.section = "entities" => e.top = f.top
        => e.id = f.id

(***************************************************************************)
(* Expansion ends, cycles of imports included.                             *)
(***************************************************************************)
ExpansionEnds == <>(outcome # "open")
=============================================================================
