---------------------------- MODULE MCComposition ----------------------------
(* Small file systems of Composition for TLC. *)
EXTENDS Composition

Id(file, section, name) == [at |-> <<>>, file |-> file, section |-> section, local |-> name]
Element(file, section, name) == [id |-> Id(file, section, name), section |-> section,
                                 name |-> name, top |-> <<name[1]>>]
Ref(field, section, to, meant) ==
    [owner |-> Id("middle", "relationships", <<"owner">>), field |-> field, section |-> section,
     to |-> to, meant |-> meant]
Variable(file, name) == [name |-> <<name>>, id |-> Id(file, "variables", <<name>>)]
Use(file, node, name) == [node |-> <<node>>, variable |-> <<name>>,
                          id |-> Id(file, "nodes", <<node>>),
                          meant |-> Id(file, "variables", <<name>>)]
Import(file, ns) == [file |-> file, ns |-> ns]
Export(e) == [section |-> e.section, name |-> e.name]

Vm == Element("middle", "nodes", <<"vm">>)
Net == Element("inner", "nodes", <<"net">>)
VmInfra == Element("middle", "infrastructure", <<"vm">>)
NetInfra == Element("inner", "infrastructure", <<"net">>)
Health == Element("middle", "conditions", <<"health">>)
HealthMetric == Element("middle", "metrics", <<"health">>)
Blue == Element("middle", "entities", <<"blue">>)
Bob == Element("middle", "entities", <<"blue", "bob">>)
Guest == Element("inner", "entities", <<"bob">>)

\* A module with a name in three sections and a nested entity.
Elements == {Vm, VmInfra, Health, HealthMetric, Blue, Bob}
Refs == {Ref("infrastructure.dependencies", "", <<"vm">>, VmInfra.id),
         Ref("relationship.source", "", <<"vm">>, Vm.id),
         Ref("relationship.target", "infrastructure", <<"vm">>, VmInfra.id),
         Ref("metric.condition", "", <<"health">>, Health.id),
         Ref("agent.starting_conditions", "", <<"health">>, Health.id),
         Ref("agent.starting_conditions", "conditions", <<"health">>, Health.id),
         Ref("inject.to_entities", "", <<"blue", "bob">>, Bob.id),
         Ref("agent.entity", "", <<"blue">>, Blue.id)}
\* What it may use of a module it imports as `in`.
InnerNet == [Net.id EXCEPT !.at = <<<<"in">>>>]
InnerRef == Ref("relationship.source", "nodes", <<"in", "net">>, InnerNet)
AclRef == Ref("acl.networks", "", <<"vm">>, VmInfra.id)

Module(elements, refs, exports, imports, variables, uses) ==
    [elements |-> elements, refs |-> refs, descriptor |-> exports # {<<>>},
     exports |-> exports, imports |-> imports, variables |-> variables, uses |-> uses]
NoBlock == {<<>>}

\* The innermost module; it may import back.
Inner == {Module({Net, NetInfra, [Vm EXCEPT !.id.file = "inner"], Guest}, {}, exports,
                 imports, {Variable("inner", "size")}, {Use("inner", "net", "size")}) :
    exports \in {NoBlock, {Export(Net)}}, imports \in {<<>>, <<Import("main", <<"back">>)>>}}
Middle == {Module(Elements, Refs \cup extra, exports, <<Import("inner", <<"in">>)>>,
                  {Variable("middle", "size")}, {Use("middle", "vm", "size")}) :
    extra \in {{}, {InnerRef}, {AclRef}},
    exports \in {NoBlock, {Export(Vm), Export(Bob), [section |-> "goals", name |-> <<"g">>]}}
        \cup {{Export(e) : e \in es} : es \in SUBSET Elements}}
\* The second import comes under a namespace of its own, or one that meets the
\* exported, private, nested or deeper names of the first.
Main_ == {Module({Vm}, {Ref("relationship.source", "", <<"vm">>, Vm.id)}, NoBlock, imports,
                 {}, {}) :
    imports \in {<<Import("middle", <<"a">>)>>,
                 <<Import("middle", <<"a">>), Import("middle", <<"b">>)>>}
        \cup {<<Import("middle", <<"a">>), Import("inner", ns)>> :
                 ns \in {<<"a">>, <<"in">>, <<"a", "in">>, <<"a", "blue">>, <<"a", "__private">>}}}

Strings == STRING
AllFiles == {[main |-> a, middle |-> b, inner |-> c] : a \in Main_, b \in Middle, c \in Inner}
=============================================================================
