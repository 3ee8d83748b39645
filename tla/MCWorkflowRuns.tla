--------------------------- MODULE MCWorkflowRuns ---------------------------
(* Small instances of WorkflowRuns for TLC. *)
EXTENDS WorkflowRuns

\* w1 compensates both of its observable steps whatever goes wrong and shows
\* nothing of s3; w2 has a hidden step too, and compensates s1 only if it is
\* cancelled.
TwoWorkflows == {"w1", "w2"}
ThreeSteps == {"s1", "s2", "s3"}
MCObservable == [w1 |-> {"s1", "s2"}, w2 |-> {"s1", "s2"}]
MCTargets == [w1 |-> {"s1", "s2"}, w2 |-> {"s1"}]
MCTriggers == [w1 |-> {"failed", "cancelled", "timed_out"}, w2 |-> {"cancelled"}]
MCTimeout == [w1 |-> 1, w2 |-> 1]

Begun(t) == Event("workflow_started", None, "pending", t)
Complete(s, t) == Event("step_completed", s, "succeeded", t)
Over(o, t) == Event(TerminalEvent[o], None, "pending", t)
Undoing(type, t) == Event(type, None, "pending", t)

\* Up to two completions, also of one step, at one instant or going back.
Completions ==
    LET one == {Complete(s, t) : s \in {"s1", "s2"}, t \in Times}
    IN  {<<>>} \cup {<<c>> : c \in one} \cup {<<c, d>> : c, d \in one}

\* What can be wrong with a history: there is none, it does not start, a step
\* failed or is one that nobody names, the run ends in the middle of it, or
\* more is undone in it than there was.
Oddities ==
    {<<>>, <<Complete("s1", 0)>>,
     <<Begun(0), Event("step_completed", "s1", "failed", 1)>>,
     <<Begun(0), Complete(None, 0)>>, <<Begun(0), Complete("s3", 0)>>,
     <<Begun(0), Over("cancelled", 0), Begun(1), Complete("s1", 1)>>,
     <<Begun(0), Over("timed_out", 1)>>,
     <<Begun(0), Complete("s1", 0), Undoing("compensation_started", 0)>>}

Histories == {<<Begun(0)>> \o c : c \in Completions} \cup Oddities

\* The states of the steps agree with the history or do not.
Views == {[s1 |-> "pending", s2 |-> "pending", s3 |-> "pending"],
          [s1 |-> "succeeded", s2 |-> "pending", s3 |-> "pending"]}
Hidden == [s1 |-> "pending", s2 |-> "pending", s3 |-> "succeeded"]

Claim(status, steps, compensation, started, history) ==
    [status |-> status, steps |-> steps, compensation |-> compensation,
     started |-> started, history |-> history]

Gone == Claim("absent", CHOOSE v \in Views : v.s1 = "pending", "not_required", 0, <<>>)

\* Ends, with every compensation status.
Ends ==
    LET run == <<Begun(0), Complete("s1", 0), Over("failed", 1)>>
        undone == {<<>>, <<Undoing("compensation_started", 1)>>,
                   <<Undoing("compensation_started", 1), Undoing("compensation_completed", 1)>>,
                   <<Undoing("compensation_started", 1), Undoing("compensation_failed", 1)>>}
    IN  {Claim("failed", CHOOSE v \in Views : v.s1 = "succeeded", c, 0, run \o u) :
            u \in undone,
            c \in {"not_required", "pending", "running", "succeeded", "failed"}}

OfW1 ==
    {Claim("running", v, "not_required", 0, h) : v \in Views, h \in Histories}
        \cup {Claim("pending", v, "not_required", 1, h) : v \in Views, h \in Oddities}
        \cup {Claim("running", Hidden, "not_required", 0, <<Begun(0)>>), Gone}
        \cup Ends

OfW2 == {Claim("running", v, "not_required", 1, <<Begun(0), Complete("s1", 0)>>) :
            v \in Views}

\* A report about one workflow, or about both at once.
MCReports ==
    {[w \in {"w1"} |-> r] : r \in OfW1} \cup {[w \in {"w2"} |-> r] : r \in OfW2}
        \cup {[w1 |-> r, w2 |-> q] : r \in {Gone} \cup {e \in Ends : e.compensation = "succeeded"}, q \in OfW2}
=============================================================================
