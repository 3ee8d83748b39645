------------------------------- MODULE Planner -------------------------------
(***************************************************************************)
(* The planner: reconciliation of a scenario's resources with the entries  *)
(* of a snapshot and the order of the resulting operations                 *)
(* (aces_processor/planner.py and aces_processor/semantics/planner.py).    *)
(*                                                                         *)
(* A mapping from addresses to resources is a function whose domain is the *)
(* addresses it has.  Abstracted: an address is a number that stands for   *)
(* its place in the order of canonical identities, a payload and resource  *)
(* type are one value, and Tarjan's algorithm is the relation it decides.  *)
(***************************************************************************)
EXTENDS Naturals, FiniteSets, Sequences, SequencesExt

CONSTANTS
    Addresses,  \* a finite set of numbers
    Domain,     \* per address its runtime domain
    Payloads

Domains == {"provisioning", "orchestration", "evaluation"}

ASSUME AddressesOK ==
    /\ Addresses \subseteq Nat /\ IsFiniteSet(Addresses)
    /\ Domain \in [Addresses -> Domains]

Resource == [payload : Payloads, ordering : SUBSET Addresses,
             refresh : SUBSET Addresses]
AreResources(rs) == DOMAIN rs \subseteq Addresses /\ rs \in [DOMAIN rs -> Resource]
NoResources == [a \in {} |-> a]

Part(rs, A) == [a \in DOMAIN rs \cap A |-> rs[a]]
Of(d) == {a \in Addresses : Domain[a] = d}
-----------------------------------------------------------------------------
(* Dependency graphs: a set of upstream nodes for each node.               *)

Known(g) == [n \in DOMAIN g |-> g[n] \cap DOMAIN g]
OrderingGraph(rs) == Known([a \in DOMAIN rs |-> rs[a].ordering])
RefreshGraph(rs) == Known([a \in DOMAIN rs |-> rs[a].refresh])

\* The nodes from and what follows them in so many steps downstream.
Reached(g, from) ==
    LET reached[k \in 0 .. Cardinality(DOMAIN g)] ==
            IF k = 0 THEN from
            ELSE LET before == reached[k - 1]
                 IN  before \cup {n \in DOMAIN g : g[n] \cap before # {}}
    IN  reached

Downstream(g, from) == Reached(g, from)[Cardinality(DOMAIN g)]

\* A component of several nodes, or a node that depends on itself.
Cyclic(g) == \E n \in DOMAIN g : \E m \in g[n] : m \in Downstream(g, {n})

Sorted(A) ==
    [i \in 1 .. Cardinality(A) |->
        CHOOSE a \in A : Cardinality({b \in A : b < a}) = i - 1]

\* The first of the queue is done; a node enters the queue behind the others
\* with its last dependency done.
Turn(g, s) ==
    LET done == Append(s.done, Head(s.queue))
        freed == {n \in DOMAIN g : Head(s.queue) \in g[n] /\ g[n] \subseteq ToSet(done)}
    IN  [queue |-> Tail(s.queue) \o Sorted(freed), done |-> done]

Turns(g) ==
    LET after[k \in 0 .. Cardinality(DOMAIN g)] ==
            IF k = 0
            THEN [queue |-> Sorted({n \in DOMAIN g : g[n] = {}}), done |-> <<>>]
            ELSE LET before == after[k - 1]
                 IN  IF before.queue = <<>> THEN before ELSE Turn(g, before)
    IN  after

\* What a cycle keeps out of the queue is appended.
TopologicalOrder(g) ==
    LET order == Turns(g)[Cardinality(DOMAIN g)].done
    IN  order \o Sorted(DOMAIN g \ ToSet(order))

\* Mutated form: deletes in the order of creation.
CreationOrder(rs) == TopologicalOrder(OrderingGraph(rs))

DeleteOrder(rs) == Reverse(TopologicalOrder(OrderingGraph(rs)))
-----------------------------------------------------------------------------
(* Reconciliation.                                                         *)

Ops == [action : {"create", "update", "unchanged", "delete"},
        address : Addresses, resource : Resource]

\* refresh_impacted_nodes
Impacted(rs, changed) == Downstream(RefreshGraph(rs), changed) \ changed

\* What is new or differs from its entry; every field counts.
Changed(rs, entries) ==
    {a \in DOMAIN rs : a \in DOMAIN entries => entries[a] # rs[a]}

Action(rs, entries, a) ==
    CASE a \notin DOMAIN entries -> "create"
      [] a \in DOMAIN entries
            /\ a \in Changed(rs, entries) \cup Impacted(rs, Changed(rs, entries))
         -> "update"
      [] OTHER -> "unchanged"

Deletions(entries) ==
    LET order == DeleteOrder(entries)
    IN  [i \in DOMAIN order |->
            [action |-> "delete", address |-> order[i], resource |-> entries[order[i]]]]

\* The operations of one domain: its resources in startup order, then its
\* deletes.
Operations(rs, entries, d) ==
    LET order == TopologicalOrder(OrderingGraph(Part(rs, Of(d))))
    IN  [i \in DOMAIN order |->
            [action |-> Action(rs, entries, order[i]), address |-> order[i],
             resource |-> rs[order[i]]]]
        \o Deletions(Part(entries, Of(d) \ DOMAIN rs))

\* Mutated form: a domain with nothing but deletes has nothing to do.
Starts(ops) == \E i \in DOMAIN ops : ops[i].action \in {"create", "update"}

\* actionable_operations is not empty
Actionable(ops) == \E i \in DOMAIN ops : ops[i].action # "unchanged"

\* An ordering cycle within a domain makes the plan invalid.
Plan(rs, entries) ==
    [resources |-> rs, base |-> entries,
     valid |-> \A d \in Domains : ~Cyclic(OrderingGraph(Part(rs, Of(d)))),
     ops |-> [d \in Domains |-> Operations(rs, entries, d)]]
=============================================================================
