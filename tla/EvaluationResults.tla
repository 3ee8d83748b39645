-------------------------- MODULE EvaluationResults --------------------------
(***************************************************************************)
(* Evaluation results as the manager publishes them: the reports of an     *)
(* evaluator about every observable resource of a plan, taken whole or not *)
(* at all by _evaluation_result_contract_diagnostics                       *)
(* (aces_processor/manager.py) against the contracts the compiler attached *)
(* to the entries, over edits of the scenario, failed starts and stops.    *)
(*                                                                         *)
(* An evaluator is any that follows evaluator-results.md (the stub, which  *)
(* does all of a plan again, is one), except where it misreports one       *)
(* resource.  Abstracted: run ids, details, evidence, schema versions,     *)
(* what a result is computed from, and the status and values of an event,  *)
(* which nothing compares with its type or with the result.                *)
(***************************************************************************)
EXTENDS Naturals, Sequences, SequencesExt

CONSTANTS
    Resources,   \* the evaluation resources a scenario may have
    Kind,        \* per resource its resource type
    MaxScores,   \* what a metric may declare as its max-score
    None,        \* nothing reported, or nothing there
    MaxHistory,  \* bound: the events of one history
    MaxClock     \* bound: the last instant

Kinds == {"metric", "condition-binding", "evaluation", "tlo", "goal", "objective"}
Statuses == {"pending", "running", "ready", "failed"}
EventTypes == {"evaluation_started", "evaluation_updated",
               "evaluation_ready", "evaluation_failed"}

ASSUME ConstantsOK ==
    /\ Kind \in [Resources -> Kinds]
    /\ MaxScores \subseteq Nat /\ IsFiniteSet(MaxScores)
    /\ MaxHistory \in Nat /\ MaxClock \in Nat

VARIABLE board  \* per resource its entry's contract, its result, its history

vars == <<board>>

Contracts == [kind : Kinds, max : MaxScores \cup {None}]
Scores == 0 .. CHOOSE m \in MaxScores : \A n \in MaxScores : n <= m
Values == [passed : BOOLEAN \cup {None}, score : Scores \cup {None},
           max : MaxScores \cup {None}]
NoValues == [passed |-> None, score |-> None, max |-> None]
Results == [kind : Kinds, status : Statuses, values : Values]
Times == 0 .. MaxClock
Events == [type : EventTypes, at : Times]

ASSUME NoneIsNothing ==
    /\ None \notin BOOLEAN /\ None \notin Scores /\ None \notin MaxScores
    /\ None \notin Contracts /\ None \notin Results /\ None \notin Seq(Events)

Record(entry, result, history) ==
    [entry |-> entry, result |-> result, history |-> history]
Absent == Record(None, None, None)

-----------------------------------------------------------------------------
(* The compiled contracts: _evaluation_contracts.                          *)

Scored(contract) == contract.kind = "metric"

Drafts(a) ==
    {[kind |-> Kind[a], max |-> max] :
        max \in IF Kind[a] = "metric" THEN MaxScores ELSE {None}}
-----------------------------------------------------------------------------
(* The checks of a report: _evaluation_result_contract_diagnostics.        *)

\* What an EvaluationExecutionState can be made of.
Parses(result) ==
    LET v == result.values IN
    /\ result.status # "ready" => v = NoValues
    /\ result.status = "ready" => v.passed # None \/ v.score # None
    /\ v.max # None => v.score # None
    /\ v.score # None /\ v.max # None => v.score <= v.max

\* Mutated form: a result's maximum is not compared with the contract's.
MeetsUnfixed(contract, result) ==
    LET v == result.values IN
    /\ result.kind = contract.kind
    /\ ~Scored(contract) => v.score = None /\ v.max = None
    /\ Scored(contract) => v.passed = None
    /\ result.status = "ready" => IF Scored(contract) THEN v.score # None
                                                      ELSE v.passed # None

\* validate_evaluation_result
Meets(contract, result) ==
    LET v == result.values IN
    /\ result.kind = contract.kind
    /\ ~Scored(contract) => v.score = None /\ v.max = None
    /\ Scored(contract) => v.passed = None
    /\ result.status = "ready" =>
        /\ IF Scored(contract) THEN v.score # None ELSE v.passed # None
        /\ contract.max # None => v.max = contract.max

Ends == [ready |-> "evaluation_ready", failed |-> "evaluation_failed"]

\* Mutated form: an empty history explains nothing.
ExplainsSomething(result, h) ==
    /\ h # <<>>
    /\ h[1].type = "evaluation_started"
    /\ result.status \in DOMAIN Ends => h[Len(h)].type = Ends[result.status]
    /\ result.status = "running" =>
        h[Len(h)].type \notin {Ends[s] : s \in DOMAIN Ends}

\* A history that is there has to begin at the beginning and to have come as
\* far as the result; one without events is taken.
Explains(result, h) ==
    h # <<>> =>
        /\ h[1].type = "evaluation_started"
        /\ result.status \in DOMAIN Ends => h[Len(h)].type = Ends[result.status]
        /\ result.status = "running" =>
            h[Len(h)].type \notin {Ends[s] : s \in DOMAIN Ends}

Ascending(h) == \A i \in 2 .. Len(h) : h[i - 1].at <= h[i].at

\* Results and entries belong together.  A history alone is not looked at, and
\* its values are not compared with those of the result.
Fits(record) ==
    /\ record.result = None <=> record.entry = None
    /\ record.result # None =>
        /\ Parses(record.result)
        /\ record.history # None
        /\ Ascending(record.history)
        /\ Meets(record.entry, record.result)
        /\ Explains(record.result, record.history)

\* One record that does not fit refuses the whole report.
Accepted(report) == \A a \in Resources : Fits(report[a])
-----------------------------------------------------------------------------
(* What an evaluator that keeps the contract may report of a resource.     *)

Readings(contract) ==
    IF Scored(contract)
    THEN {[passed |-> None, score |-> s, max |-> m] :
            s \in Scores, m \in {contract.max}}
    ELSE {[passed |-> p, score |-> None, max |-> None] : p \in BOOLEAN}

Honest(contract) == {v \in Readings(contract) : v.max # None => v.score <= v.max}

Since(h) == {t \in Times : h # <<>> => h[Len(h)].at <= t}

Logged(h, type, at) == Append(h, [type |-> type, at |-> at])

Reported(contract, status, values, h) ==
    Record(contract, [kind |-> contract.kind, status |-> status, values |-> values], h)

\* A run that goes on or ends; h is what its history has so far.
GoesOn(contract, h) ==
    UNION {{Reported(contract, "failed", NoValues, Logged(h, "evaluation_failed", t)),
            Reported(contract, "running", NoValues, Logged(h, "evaluation_updated", t))}
           \cup {Reported(contract, "ready", v, Logged(h, "evaluation_ready", t)) :
                    v \in Honest(contract)} : t \in Since(h)}

\* A run that waits, starts, or is over when the evaluator answers.
Begins(contract, h) ==
    {Reported(contract, "pending", NoValues, h)}
    \cup UNION {LET begun == Logged(h, "evaluation_started", t)
                IN  {Reported(contract, "running", NoValues, begun)}
                    \cup GoesOn(contract, begun) : t \in Since(h)}

\* A run that is over stays in the history, or the history starts again, as
\* with the stub.
Earlier(a) ==
    {<<>>} \cup {h \in {board[a].history} :
                    board[a].result # None /\ board[a].result.status \in DOMAIN Ends}

Gone(a) == Absent

Moves(a, wanted) ==
    LET redone == UNION {Begins(wanted, h) : h \in Earlier(a)}
        moved == IF wanted # board[a].entry THEN redone
                 ELSE redone \cup {board[a]}
                      \cup (IF board[a].result.status = "running"
                               /\ board[a].history # <<>>
                            THEN GoesOn(wanted, board[a].history) ELSE {})
    IN  IF wanted = None THEN {Gone(a)}
        ELSE {r \in moved : Len(r.history) <= MaxHistory}
-----------------------------------------------------------------------------
(* Misreports of a resource, made of what should have been reported: the   *)
(* record r, which is to replace the one on the board.                     *)

\* The last result stands, with a new entry or with none.
Stale(a, r) ==
    {[r EXCEPT !.result = board[a].result],
     [r EXCEPT !.result = board[a].result, !.history = board[a].history]}

Incomplete(r) == {[r EXCEPT !.result = None], [r EXCEPT !.history = None]}

\* The result is ahead of its history, or behind it.
OutOfStep(r) ==
    {[r EXCEPT !.history = Front(h)] : h \in {r.history} \ {<<>>}}
    \cup {[r EXCEPT !.result.status = "running", !.result.values = NoValues]}

Backdated(r) ==
    LET h == r.history
    IN  {[r EXCEPT !.history[Len(h)].at = t] :
            t \in {u \in Times : Len(h) > 1 /\ u < h[Len(h)].at}}

\* Values of another kind, above the maximum, or before the result is ready.
Misvalued(r) ==
    {[r EXCEPT !.result.values = v] :
        v \in UNION {Readings(c) : c \in UNION {Drafts(b) : b \in Resources}}}

Misreports(a, r) ==
    IF r.entry = None THEN Stale(a, r)
    ELSE Stale(a, r) \cup Incomplete(r) \cup OutOfStep(r) \cup Backdated(r)
            \cup Misvalued(r)
-----------------------------------------------------------------------------
Init == board = [a \in Resources |-> Absent]

\* Over every plan: what was created, updated, deleted or met unchanged, and
\* what an evaluator that failed did not come to.
Answers(a) ==
    {board[a]} \cup UNION {Moves(a, wanted) : wanted \in Drafts(a) \cup {None}}

\* StubEvaluator.start: a new run that is ready at once, with a full score.
Redone(a, t) ==
    LET entry == board[a].entry
        best == CHOOSE v \in Honest(entry) : v.passed # FALSE /\ v.score = v.max
        h == Logged(Logged(<<>>, "evaluation_started", t), "evaluation_ready", t)
    IN  IF entry = None THEN Absent ELSE Reported(entry, "ready", best, h)

\* A plan about one resource, met by the others unchanged: they stay as they
\* are or are done again.  One about several is taken if each of these is.
Boards ==
    LET others == {board} \cup {[b \in Resources |-> Redone(b, t)] : t \in Times}
    IN  UNION {{[o EXCEPT ![a] = r] : o \in others, r \in Answers(a)} : a \in Resources}

\* What is left when a report is refused: the last board, or, where the
\* manager rolls back and the evaluator stops, an empty one.
Take(report) ==
    IF Accepted(report) THEN board' = report
    ELSE board' \in {board, [a \in Resources |-> Absent]}

\* The evaluator phase of RuntimeManager.apply, and submit_evaluation.
Start == \E report \in Boards : Take(report)

Misreport(a) ==
    \E wrong \in UNION {Misreports(a, r) : r \in Answers(a)} :
        Take([board EXCEPT ![a] = wrong])

\* RuntimeManager.destroy, and the rollback of an apply that failed.
Stop == board' = [a \in Resources |-> Gone(a)]

Next ==
    \/ Start
    \/ \E a \in Resources : Misreport(a)
    \/ Stop

Spec == Init /\ [][Next]_vars
-----------------------------------------------------------------------------
(* Properties.                                                             *)

(***************************************************************************)
(* evaluator-results.md, Resource Contracts, Status Semantics and History: *)
(* whatever is reported, in whatever order the scenario is edited and its  *)
(* evaluations are started and stopped, what is published of a resource is *)
(* of its own kind and shape, under the maximum its metric declares now    *)
(* and has come as far as its history says; of a resource that left the    *)
(* scenario nothing is published, for a namesake to find.                  *)
(***************************************************************************)
PublishedAsPromised ==
    \A a \in Resources :
        LET result == board[a].result
            entry == board[a].entry
            h == board[a].history
        IN  /\ entry = None => board[a] = Absent
            /\ result # None =>
                /\ result \in Results /\ result.kind = entry.kind
                /\ ToSet(h) \subseteq Events
                /\ result.status # "ready" => result.values = NoValues
                /\ result.status = "ready" => result.values \in Honest(entry)
                /\ h # <<>> /\ result.status = "ready" => Last(h).type = "evaluation_ready"
                /\ h # <<>> /\ result.status = "failed" => Last(h).type = "evaluation_failed"
                /\ \A i, j \in DOMAIN h : i < j => h[i].at <= h[j].at

(***************************************************************************)
(* The contract never stands in the way of an evaluator that keeps it:     *)
(* one that adds a second run to a history, waits before it starts, or     *)
(* leaves a result as it is, is not refused, or the whole apply would be.  *)
(***************************************************************************)
HonestNeverRefused == \A a \in Resources : \A r \in Answers(a) : Fits(r)
=============================================================================
