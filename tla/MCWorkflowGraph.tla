--------------------------- MODULE MCWorkflowGraph ---------------------------
(* Small workflows of WorkflowGraph for TLC. *)
EXTENDS WorkflowGraph, TLC

Blank == [type |-> "end", on |-> <<>>, branches |-> {}, join |-> "", reads |-> {},
          calls |-> "", undo |-> ""]
None == {<<>>}
To(label, steps) == {label :> s : s \in steps}
\* Every way to have the transitions of both sets.
Both(ons, others) == {a @@ b : a \in ons, b \in others}
Steps(type, ons) == {[Blank EXCEPT !.type = type, !.on = on] : on \in ons}
Reading(steps, reads) == {[s EXCEPT !.reads = r] : s \in steps, r \in reads}
Parallel(branches, join, ons) ==
    {[s EXCEPT !.branches = branches, !.join = join] : s \in Steps("parallel", ons)}
Success(steps) == To("success", steps)
Read(step, outcome) == {[step |-> step, outcomes |-> {outcome}]}
Reads == {{}, Read("a", "succeeded"), Read("b", "exhausted"), Read("b", "failed"),
          Read("p", "failed"), Read("x", "succeeded")}
Workflow(start, steps) == [start |-> start, steps |-> steps]

\* A parallel step with two branches, and a decision that may be in a branch,
\* after the join or on the way out.
Fan == {[main |-> Workflow("p", [p |-> p, a |-> a, b |-> b, x |-> x, j |-> j, e |-> Blank])] :
    p \in Parallel({"a", "b"}, "j", None \cup To("failure", {"e", "x", "a"})),
    a \in Steps("objective", Both(Success({"j", "x", "gone"}), None \cup To("failure", {"j", "x"}))),
    b \in Steps("retry", Both(Success({"j", "x"}), None \cup To("exhausted", {"j", "x", "e"}))),
    x \in Reading(Steps("decision", Both(To("then", {"j", "e", "a"}), To("else", {"j", "e"}))), Reads),
    j \in Steps("join", To("next", {"e", "x"}))}

\* A parallel step inside a branch of another.
Nest == {[main |-> Workflow("p", [p |-> p, q |-> q, b |-> b, c |-> c, d |-> d, k |-> k, j |-> j,
                                  x |-> x, e |-> Blank])] :
    p \in Parallel({"q", "b"}, "j", None \cup To("failure", {"e"})),
    q \in Parallel({"c", "d"}, "k", None \cup To("failure", {"j"})),
    b \in Steps("objective", Success({"j"})), c \in Steps("objective", Success({"k"})),
    d \in Steps("objective", Both(Success({"k", "j"}), None)),
    k \in Steps("join", To("next", {"j"})), j \in Steps("join", To("next", {"x"})),
    x \in Reading(Steps("switch", Both(To("case1", {"e"}), To("default", {"e"}))),
                  {Read("c", "succeeded"), Read("q", "failed"), Read("b", "succeeded")})}

\* No parallel step: cycles, and calls between three workflows.
Loop == {[main |-> Workflow("a", [a |-> a, b |-> b, e |-> Blank])] :
    a \in Steps("objective", Both(Success({"a", "b", "e"}), None \cup To("failure", {"b", "e"}))),
    b \in Steps("objective", Both(Success({"a", "e"}), None \cup To("failure", {"e"})))}
CallStep(callee, ons) == {[s EXCEPT !.calls = callee] : s \in Steps("call", ons)}
Chain == {[n \in {"main", "sub", "leaf"} |->
              Workflow("s", [s |-> CASE n = "main" -> s [] n = "sub" -> t [] n = "leaf" -> u,
                             e |-> Blank])] :
    s \in UNION {CallStep(c, Both(Success({"e"}), None \cup To("failure", {"e"}))) :
                    c \in {"main", "sub", "gone"}},
    t \in {[c EXCEPT !.undo = undo] : undo \in {"", "leaf"},
              c \in UNION {CallStep(c, Success({"e"})) : c \in {"main", "leaf"}}},
    u \in {[c EXCEPT !.undo = undo] : undo \in {"", "sub"}, c \in Steps("objective", Success({"e"}))}}

\* Branches that call another workflow.
Mixed == {[main |-> Workflow("p", [p |-> p, a |-> a, b |-> b, j |-> j, e |-> Blank]),
           sub |-> Workflow("s", [s |-> s, e |-> Blank])] :
    p \in Parallel({"a", "b"}, "j", None \cup To("failure", {"e"})),
    a \in CallStep("sub", Both(Success({"j"}), None \cup To("failure", {"j"}))),
    b \in CallStep("sub", Success({"j"})), j \in Steps("join", To("next", {"e"})),
    s \in Steps("objective", Both(Success({"e"}), None \cup To("failure", {"e"})))}

Written == Fan \cup Nest \cup Loop \cup Chain \cup Mixed
=============================================================================
