--------------------------- MODULE WorkflowProofs ---------------------------
(***************************************************************************)
(* Theorems about workflows: of WorkflowRuns, for any workflows, steps,    *)
(* triggers and timeouts, any resolution of the clock and any bound on it; *)
(* and of WorkflowGraph, for any set of finite scenarios.                  *)
(***************************************************************************)
EXTENDS WorkflowRuns, WorkflowGraph, NumberLemmas, SequenceTheorems, TLAPS

-----------------------------------------------------------------------------
(* WorkflowRuns: what is published.                                        *)

\* The inductive invariant: an open run is within the contract, which the end
\* of a run relies on.  Runs that ended may be outside it.
VInv ==
    /\ TypeOK
    /\ \A w \in Workflows : runs[w].status \in Open => Valid(w, runs[w])

\* Completions that a compensation of steps of T may undo.
Undoable(T) == {e \in Events : e.step \in T}
-----------------------------------------------------------------------------
(***************************************************************************)
(* Histories.                                                              *)
(***************************************************************************)
LEMMA HistoryFacts ==
    ASSUME NEW h \in Seq(Events)
    PROVE  /\ DOMAIN h = 1 .. Len(h) /\ Len(h) \in Nat
           /\ h # <<>> => Len(h) > 0
           /\ h = <<>> => Len(h) = 0
           /\ \A i \in DOMAIN h : h[i] \in Events /\ h[i].at \in Nat /\ h[i].at \in Times
<1>1. DOMAIN h = 1 .. Len(h) /\ Len(h) \in Nat /\ (h # <<>> => Len(h) > 0)
  BY LenProperties, EmptySeq
<1>2. h = <<>> => Len(h) = 0
  BY EmptySeq
<1>3. \A i \in DOMAIN h : h[i] \in Events
  BY <1>1, ElementOfSeq
<1>4. \A i \in DOMAIN h : h[i].at \in Nat /\ h[i].at \in Times
  BY <1>3, ConstantsOK DEF Events, Times
<1> QED  BY <1>1, <1>2, <1>3, <1>4

LEMMA EventFacts ==
    ASSUME NEW type \in EventTypes, NEW step \in Steps \cup {None}, NEW outcome \in StepStates,
           NEW at \in Times
    PROVE  /\ Event(type, step, outcome, at) \in Events
           /\ Event(type, step, outcome, at).type = type
           /\ Event(type, step, outcome, at).step = step
           /\ Event(type, step, outcome, at).outcome = outcome
           /\ Event(type, step, outcome, at).at = at
           /\ Event(type, step, outcome, at).completed_at = at
  BY DEF Event, Events

LEMMA OneMore ==
    ASSUME NEW h \in Seq(Events), NEW e \in Events
    PROVE  /\ Append(h, e) \in Seq(Events) /\ Append(h, e) # <<>>
           /\ Len(Append(h, e)) = Len(h) + 1
           /\ DOMAIN Append(h, e) = DOMAIN h \cup {Len(h) + 1}
           /\ \A i \in DOMAIN h : Append(h, e)[i] = h[i]
           /\ Append(h, e)[Len(h) + 1] = e
<1> DEFINE more == Append(h, e)
<1>1. DOMAIN h = 1 .. Len(h) /\ Len(h) \in Nat
  BY HistoryFacts
<1>2. /\ more \in Seq(Events) /\ Len(more) = Len(h) + 1
      /\ \A i \in 1 .. Len(h) : more[i] = h[i]
      /\ more[Len(h) + 1] = e
  BY AppendProperties
<1>3. DOMAIN more = 1 .. (Len(h) + 1) /\ more # <<>>
  BY <1>1, <1>2, LenProperties, EmptySeq
<1> QED  BY <1>1, <1>2, <1>3

LEMMA TypeFacts ==
    /\ CompensationEvents \subseteq EventTypes
    /\ {"workflow_started", "step_completed"} \subseteq EventTypes
    /\ \A o \in Terminal : TerminalEvent[o] \in EventTypes \ CompensationEvents
    /\ \A o \in Terminal : TerminalEvent[o] \notin {"workflow_started", "step_completed"}
    /\ CompensationEvents \cap {"workflow_started", "step_completed"} = {}
    /\ {"pending", "succeeded", "failed"} = StepStates
    /\ StepUndoing \subseteq CompensationEvents
  BY DEF StepUndoing, CompensationEvents, EventTypes, Terminal, TerminalEvent, StepStates

\* The places of a history in the order in which LatestFirst takes them.
LEMMA LatestFirstPicks ==
    ASSUME NEW h \in Seq(Events), NEW places \in SUBSET DOMAIN h
    PROVE  /\ Cardinality(places) \in Nat
           /\ \E pick \in Bijection(1 .. Cardinality(places), places) :
                /\ LatestFirst(h, places) =
                        [k \in 1 .. Cardinality(places) |-> h[pick[k]]]
                /\ \A k, l \in 1 .. Cardinality(places) :
                        k < l => \/ TextRank(h[pick[k]].at) > TextRank(h[pick[l]].at)
                                 \/ /\ TextRank(h[pick[k]].at) = TextRank(h[pick[l]].at)
                                    /\ pick[k] < pick[l]
<1> DEFINE rank(i) == TextRank(h[i].at)
           before(i) == {j \in places : rank(j) > rank(i) \/ (rank(j) = rank(i) /\ j < i)}
           bef == [i \in places |-> before(i)]
           n == Cardinality(places)
           pick == [k \in 1 .. n |-> CHOOSE i \in places : Cardinality(before(i)) = k - 1]
<1>1. IsFiniteSet(places) /\ n \in Nat /\ \A i \in places : i \in Nat
  <2>1. DOMAIN h = 1 .. Len(h) /\ Len(h) \in Nat
    BY HistoryFacts
  <2>2. IsFiniteSet(1 .. Len(h))
    BY <2>1, FS_Interval
  <2> QED  BY <2>1, <2>2, FS_Subset, FS_CardinalityType
<1>2. \A i \in places : rank(i) \in Int
  <2>1. \A i \in places : h[i].at \in Nat
    BY HistoryFacts
  <2> QED  BY <2>1, ConstantsOK DEF TextRank
<1> HIDE DEF rank
<1>3. /\ bef \in [places -> SUBSET places]
      /\ \A i \in places : bef[i] = before(i)
      /\ \A i \in places : i \notin bef[i]
      /\ \A i, j \in places : i \in bef[j] => bef[i] \subseteq bef[j]
      /\ \A i, j \in places : i # j => i \in bef[j] \/ j \in bef[i]
  <2>1. bef \in [places -> SUBSET places] /\ \A i \in places : bef[i] = before(i)
    OBVIOUS
  <2>2. \A i \in places : i \notin bef[i]
    BY <1>1, <1>2
  <2>3. \A i, j \in places : i \in bef[j] => bef[i] \subseteq bef[j]
    BY <1>1, <1>2
  <2>4. \A i, j \in places : i # j => i \in bef[j] \/ j \in bef[i]
    BY <1>1, <1>2
  <2> QED  BY <2>1, <2>2, <2>3, <2>4
<1>4. \A i, j \in places : i \in bef[j] => rank(i) > rank(j) \/ (rank(i) = rank(j) /\ i < j)
  BY <1>3
<1>5. LatestFirst(h, places) = [k \in 1 .. n |-> h[pick[k]]]
  <2>1. LatestFirst(h, places) =
          [k \in 1 .. n |-> h[CHOOSE i \in places : Cardinality(before(i)) = k - 1]]
    BY DEF LatestFirst, rank
  <2> HIDE DEF before
  <2> QED  BY <2>1
<1> HIDE DEF bef
<1>6. ASSUME NEW k \in 1 .. n PROVE \E i \in places : Cardinality(bef[i]) = k - 1
  BY <1>1, <1>3, RanksTaken
<1>7. \A k \in 1 .. n : pick[k] \in places /\ Cardinality(bef[pick[k]]) = k - 1
  <2> HIDE DEF before
  <2>1. \A k \in 1 .. n : \E i \in places : Cardinality(before(i)) = k - 1
    BY <1>3, <1>6
  <2>2. \A k \in 1 .. n : pick[k] \in places /\ Cardinality(before(pick[k])) = k - 1
    BY <2>1
  <2> QED  BY <1>3, <2>2
<1> HIDE DEF pick, before
<1>8. ASSUME NEW i \in places, NEW j \in places, i \in bef[j]
      PROVE  /\ Cardinality(bef[i]) \in Nat /\ Cardinality(bef[j]) \in Nat
             /\ Cardinality(bef[i]) < Cardinality(bef[j])
  BY <1>1, <1>3, <1>8, RanksDiffer
<1>9. ASSUME NEW i \in places PROVE Cardinality(bef[i]) + 1 \in 1 .. n
  <2>1. bef[i] \subseteq places /\ i \notin bef[i]
    BY <1>3
  <2>2. IsFiniteSet(bef[i]) /\ Cardinality(bef[i]) \in Nat
    BY <1>1, <2>1, FS_Subset, FS_CardinalityType
  <2>3. bef[i] \in SUBSET places /\ bef[i] # places
    BY <2>1
  <2>4. Cardinality(bef[i]) < n
    BY <1>1, <2>2, <2>3, FS_Subset
  <2> QED  BY <1>1, <2>2, <2>4
<1>10. ASSUME NEW k \in 1 .. n, NEW l \in 1 .. n
       PROVE  /\ pick[k] = pick[l] => k = l
              /\ k < l => \/ rank(pick[k]) > rank(pick[l])
                          \/ rank(pick[k]) = rank(pick[l]) /\ pick[k] < pick[l]
  <2>1. k \in Int /\ l \in Int
    BY <1>1
  <2>2. pick[k] = pick[l] => k = l
    BY <1>7, <2>1
  <2>3. ASSUME k < l PROVE pick[k] \in bef[pick[l]]
    <3>1. pick[k] # pick[l]
      BY <2>1, <2>2, <2>3
    <3>2. pick[l] \notin bef[pick[k]]
      <4> SUFFICES ASSUME pick[l] \in bef[pick[k]] PROVE FALSE
        OBVIOUS
      <4>1. Cardinality(bef[pick[l]]) < Cardinality(bef[pick[k]])
        BY <1>7, <1>8
      <4> QED  BY <1>7, <2>1, <2>3, <4>1
    <3> QED  BY <1>3, <1>7, <3>1, <3>2
  <2> QED  BY <1>4, <1>7, <2>2, <2>3
<1>11. ASSUME NEW i \in places PROVE \E k \in 1 .. n : pick[k] = i
  <2> DEFINE k == Cardinality(bef[i]) + 1
  <2>1. k \in 1 .. n /\ Cardinality(bef[i]) = k - 1
    BY <1>9, FS_Subset, FS_CardinalityType, <1>1, <1>3
  <2> HIDE DEF k
  <2>2. pick[k] \in places /\ Cardinality(bef[pick[k]]) = Cardinality(bef[i])
    BY <1>7, <2>1
  <2>3. pick[k] \notin bef[i] /\ i \notin bef[pick[k]]
    BY <1>8, <2>2
  <2> QED  BY <1>3, <2>1, <2>2, <2>3
<1>12. pick \in [1 .. n -> places]
  BY <1>7 DEF pick
<1>13. pick \in Bijection(1 .. n, places)
  BY <1>10, <1>11, <1>12 DEF Bijection, Injection, Surjection, IsInjective
<1> QED  BY <1>1, <1>5, <1>10, <1>13 DEF rank

LEMMA LatestFirstSteps ==
    ASSUME NEW h \in Seq(Events), NEW places \in SUBSET DOMAIN h,
           NEW T, \A i \in places : h[i].step \in T
    PROVE  LatestFirst(h, places) \in Seq(Undoable(T))
<1> DEFINE n == Cardinality(places)
<1>1. PICK pick \in Bijection(1 .. n, places) :
        LatestFirst(h, places) = [k \in 1 .. n |-> h[pick[k]]]
  BY LatestFirstPicks
<1>2. n \in Nat
  BY LatestFirstPicks
<1> HIDE DEF n
<1>3. \A k \in 1 .. n : pick[k] \in places
  BY <1>1 DEF Bijection, Injection
<1>4. \A k \in 1 .. n : h[pick[k]] \in Undoable(T)
  BY <1>3, HistoryFacts DEF Undoable
<1>5. LatestFirst(h, places) \in [1 .. n -> Undoable(T)]
  BY <1>1, <1>4
<1> QED  BY <1>2, <1>5, SeqDef

\* The marks a compensation makes.
Mark(type, step, at, item) == [Event(type, step, "pending", at) EXCEPT !.completed_at = item]

LEMMA MarkFacts ==
    ASSUME NEW type \in CompensationEvents, NEW step \in Steps \cup {None},
           NEW at \in Times, NEW item \in Times
    PROVE  /\ Mark(type, step, at, item) \in Events
           /\ Mark(type, step, at, item).type = type
           /\ Mark(type, step, at, item).step = step
           /\ Mark(type, step, at, item).at = at
           /\ Mark(type, step, at, item).completed_at = item
<1>1. type \in EventTypes /\ "pending" \in StepStates
  BY TypeFacts
<1> QED  BY <1>1 DEF Mark, Event, Events

\* What a compensation adds to a history.
LEMMA UndoFacts ==
    ASSUME NEW T \in SUBSET Steps, NEW completions \in Seq(Undoable(T)), NEW at \in Times,
           NEW u, u = Undo(completions, at)
    PROVE  /\ u \in Seq(Events) /\ Len(u) \in Nat /\ Len(u) > 0
           /\ \A i \in DOMAIN u : /\ u[i].at = at /\ u[i].type \in CompensationEvents
                                  /\ u[i].type \in StepUndoing => u[i].step \in T
           /\ u[Len(u)].type = "compensation_completed"
<1> DEFINE E == {e \in Events : /\ e.at = at /\ e.type \in CompensationEvents
                                /\ e.type \in StepUndoing => e.step \in T}
           n == Len(completions)
           stage(k, item) == Mark(Stages[k], item.step, at, IF k = 1 THEN item.at ELSE at)
           middle == [k \in 1 .. 3 * n |-> stage(((k - 1) % 3) + 1, completions[((k - 1) \div 3) + 1])]
           first == Mark("compensation_started", None, at, at)
           last == Mark("compensation_completed", None, at, at)
<1>1. \A k \in 1 .. 3 : Stages[k] \in StepUndoing
  BY DEF Stages, StepUndoing
<1>2. ASSUME NEW k \in 1 .. 3, NEW item \in Undoable(T) PROVE stage(k, item) \in E
  <2>1. Stages[k] \in CompensationEvents /\ item.step \in T /\ item.step \in Steps \cup {None}
    BY <1>1, TypeFacts DEF Undoable
  <2>2. item.at \in Times
    BY DEF Undoable, Events
  <2>3. (IF k = 1 THEN item.at ELSE at) \in Times
    BY <2>2
  <2> QED  BY <2>1, <2>3, MarkFacts
<1>3. first \in E /\ last \in E /\ last.type = "compensation_completed"
  <2>1. /\ "compensation_started" \in CompensationEvents \ StepUndoing
        /\ "compensation_completed" \in CompensationEvents \ StepUndoing
    BY DEF CompensationEvents, StepUndoing
  <2> QED  BY <2>1, MarkFacts
<1>4. n \in Nat /\ \A i \in 1 .. n : completions[i] \in Undoable(T)
  BY LenProperties, ElementOfSeq
<1>5. middle \in Seq(E)
  <2>1. ASSUME NEW k \in 1 .. 3 * n
        PROVE  ((k - 1) % 3) + 1 \in 1 .. 3 /\ ((k - 1) \div 3) + 1 \in 1 .. n
    <3>1. (k - 1) % 3 \in 0 .. 2 /\ (k - 1) \div 3 \in 0 .. (n - 1)
      BY <1>4
    <3> QED  BY <1>4, <3>1
  <2> HIDE DEF stage, E
  <2>2. \A k \in 1 .. 3 * n : stage(((k - 1) % 3) + 1, completions[((k - 1) \div 3) + 1]) \in E
    BY <1>2, <1>4, <2>1
  <2>3. middle \in [1 .. 3 * n -> E] /\ 3 * n \in Nat
    BY <1>4, <2>2
  <2> HIDE DEF middle
  <2>4. \A m \in Nat : middle \in [1 .. m -> E] => middle \in Seq(E)
    BY SeqDef
  <2> QED  BY <2>3, <2>4
<1>6. u = <<first>> \o middle \o <<last>>
  BY DEF Undo, Mark
<1> HIDE DEF first, last, middle, E
<1>7. <<first>> \in Seq(E) /\ <<last>> \in Seq(E) /\ Len(<<last>>) = 1 /\ <<last>>[1] = last
  BY <1>3
<1>8. <<first>> \o middle \in Seq(E)
  BY <1>5, <1>7, ConcatProperties
<1> DEFINE front == <<first>> \o middle
<1> HIDE DEF front
<1>9. /\ u \in Seq(E) /\ Len(u) = Len(front) + 1 /\ u[Len(front) + 1] = last
      /\ Len(front) \in Nat
  <2>1. front \in Seq(E) /\ u = front \o <<last>>
    BY <1>6, <1>8 DEF front
  <2>2. Len(front) \in Nat
    BY <2>1, LenProperties
  <2> QED  BY <1>7, <2>1, <2>2, ConcatProperties
<1>10. \A i \in DOMAIN u : u[i] \in E
  BY <1>9, ElementOfSeq, LenProperties
<1>11. u \in Seq(Events)
  <2>1. E \subseteq Events
    BY DEF E
  <2> QED  BY <1>9, <2>1
<1> QED  BY <1>3, <1>9, <1>10, <1>11 DEF E

\* Where a compensation registers what it undoes.
LEMMA UndoMarks ==
    ASSUME NEW T \in SUBSET Steps, NEW completions \in Seq(Undoable(T)), NEW at \in Times,
           NEW u, u = Undo(completions, at)
    PROVE  /\ u \in Seq(Events) /\ Len(completions) \in Nat /\ DOMAIN u = 1 .. (3 * Len(completions) + 2)
           /\ \A i \in DOMAIN u : u[i].type \in CompensationEvents
           /\ \A i \in DOMAIN u : u[i].type = "compensation_registered" =>
                \E m \in 1 .. Len(completions) : i = 3 * m - 1
           /\ \A m \in 1 .. Len(completions) : /\ 3 * m - 1 \in DOMAIN u
                                         /\ u[3 * m - 1].type = "compensation_registered"
                                         /\ u[3 * m - 1].step = completions[m].step
                                         /\ u[3 * m - 1].completed_at = completions[m].at
<1> DEFINE mark(k, item) == Mark(Stages[k], item.step, at, IF k = 1 THEN item.at ELSE at)
           n == Len(completions)
           stage(k) == ((k - 1) % 3) + 1
           turn(k) == ((k - 1) \div 3) + 1
           middle == [k \in 1 .. 3 * n |-> mark(stage(k), completions[turn(k)])]
           first == Mark("compensation_started", None, at, at)
           last == Mark("compensation_completed", None, at, at)
<1>1. n \in Nat /\ \A i \in 1 .. n : completions[i] \in Undoable(T)
  BY LenProperties, ElementOfSeq
<1>2. \A k \in 1 .. 3 * n : stage(k) \in 1 .. 3 /\ turn(k) \in 1 .. n
  <2> SUFFICES ASSUME NEW k \in 1 .. 3 * n PROVE stage(k) \in 1 .. 3 /\ turn(k) \in 1 .. n
    OBVIOUS
  <2>1. (k - 1) % 3 \in 0 .. 2 /\ (k - 1) \div 3 \in 0 .. (n - 1)
    BY <1>1
  <2> QED  BY <1>1, <2>1
<1>3. \A k \in 1 .. 3 * n : k = 3 * (turn(k) - 1) + stage(k)
  BY <1>1
<1>4. \A m \in 1 .. n : /\ 3 * m - 2 \in 1 .. 3 * n
                        /\ stage(3 * m - 2) = 1 /\ turn(3 * m - 2) = m
  BY <1>1
<1>5. /\ u \in Seq(Events) /\ Len(u) \in Nat
      /\ \A i \in DOMAIN u : u[i].type \in CompensationEvents
  BY UndoFacts
<1>6. u = <<first>> \o middle \o <<last>>
  BY DEF Undo, Mark
<1>7. /\ \A k, item : mark(k, item).type = Stages[k] /\ mark(k, item).step = item.step
      /\ \A item : mark(1, item).completed_at = item.at
      /\ first.type = "compensation_started" /\ last.type = "compensation_completed"
  BY DEF Mark, Event
<1> HIDE DEF mark, first, last, stage, turn
<1>8. /\ DOMAIN middle = 1 .. 3 * n
      /\ \A k \in 1 .. 3 * n : /\ middle[k].type = Stages[stage(k)]
                               /\ middle[k].step = completions[turn(k)].step
                               /\ stage(k) = 1 => middle[k].completed_at = completions[turn(k)].at
  BY <1>7
<1>9. middle \in Seq({middle[k] : k \in 1 .. 3 * n}) /\ Len(middle) = 3 * n
  <2> DEFINE E == {middle[k] : k \in 1 .. 3 * n}
  <2>1. middle \in [1 .. 3 * n -> E] /\ 3 * n \in Nat
    BY <1>1
  <2> HIDE DEF middle, E
  <2>2. \A m \in Nat : middle \in [1 .. m -> E] => middle \in Seq(E) /\ Len(middle) = m
    BY SeqDef, LenProperties
  <2> QED  BY <2>1, <2>2 DEF E
<1> HIDE DEF middle
<1>10. /\ DOMAIN u = 1 .. (3 * n + 2)
       /\ u[1] = first /\ u[3 * n + 2] = last
       /\ \A k \in 1 .. 3 * n : u[k + 1] = middle[k]
  <2> DEFINE E == {middle[k] : k \in 1 .. 3 * n} \cup {first, last}
  <2>1. middle \in Seq(E) /\ <<first>> \in Seq(E) /\ <<last>> \in Seq(E)
    BY <1>9
  <2> HIDE DEF E
  <2> DEFINE front == <<first>> \o middle
  <2>2. /\ front \in Seq(E) /\ Len(front) = 3 * n + 1
        /\ front[1] = first /\ \A k \in 1 .. 3 * n : front[k + 1] = middle[k]
    <3>1. Len(<<first>>) = 1 /\ <<first>>[1] = first
      OBVIOUS
    <3>2. /\ front \in Seq(E) /\ Len(front) = 1 + Len(middle)
          /\ \A i \in 1 .. 1 + Len(middle) :
                front[i] = IF i <= 1 THEN <<first>>[i] ELSE middle[i - 1]
      BY <2>1, <3>1, ConcatProperties
    <3> HIDE DEF front
    <3>3. Len(front) = 3 * n + 1 /\ front[1] = first
      BY <1>1, <1>9, <3>1, <3>2
    <3>4. \A k \in 1 .. 3 * n : front[k + 1] = middle[k]
      <4> SUFFICES ASSUME NEW k \in 1 .. 3 * n PROVE front[k + 1] = middle[k]
        OBVIOUS
      <4>1. k + 1 \in 1 .. 1 + Len(middle) /\ ~(k + 1 <= 1) /\ (k + 1) - 1 = k
        BY <1>1, <1>9
      <4> QED  BY <3>2, <4>1
    <3> QED  BY <3>2, <3>3, <3>4
  <2> HIDE DEF front
  <2>3. u = front \o <<last>>
    BY <1>6 DEF front
  <2>4. /\ Len(u) = 3 * n + 2 /\ u[3 * n + 2] = last
        /\ \A k \in 1 .. (3 * n + 1) : u[k] = front[k]
    <3>1. Len(<<last>>) = 1 /\ <<last>>[1] = last
      OBVIOUS
    <3> DEFINE all == front \o <<last>>
    <3>2. /\ Len(all) = Len(front) + 1
          /\ \A k \in 1 .. Len(front) + 1 :
                all[k] = IF k <= Len(front) THEN front[k] ELSE <<last>>[k - Len(front)]
      BY <2>1, <3>1, <2>2, ConcatProperties
    <3> HIDE DEF all
    <3>3. all[3 * n + 2] = <<last>>[1]
      <4>1. Len(front) = 3 * n + 1 /\ 3 * n + 2 \in 1 .. Len(front) + 1
            /\ ~(3 * n + 2 <= Len(front)) /\ (3 * n + 2) - Len(front) = 1
        BY <1>1, <2>2
      <4>2. all[3 * n + 2] = <<last>>[(3 * n + 2) - Len(front)]
        <5> DEFINE k == 3 * n + 2
        <5>1. k \in 1 .. Len(front) + 1 /\ ~(k <= Len(front))
          BY <4>1
        <5> HIDE DEF k
        <5>2. all[k] = <<last>>[k - Len(front)]
          BY <3>2, <5>1
        <5> QED  BY <5>2 DEF k
      <4> QED  BY <4>1, <4>2
    <3>4. \A k \in 1 .. (3 * n + 1) : all[k] = front[k]
      BY <1>1, <2>2, <3>2
    <3>5. Len(all) = 3 * n + 2
      BY <1>1, <2>2, <3>2
    <3> QED  BY <2>3, <3>1, <3>3, <3>4, <3>5 DEF all
  <2> QED  BY <1>1, <1>5, <2>2, <2>4, LenProperties
<1>11. Stages[1] = "compensation_registered" /\ \A k \in 2 .. 3 : Stages[k] # "compensation_registered"
  BY DEF Stages
<1>12. ASSUME NEW i \in DOMAIN u, u[i].type = "compensation_registered"
       PROVE  \E m \in 1 .. n : i = 3 * m - 1
  <2>1. i # 1 /\ i # 3 * n + 2
    BY <1>7, <1>10, <1>12
  <2>2. i - 1 \in 1 .. 3 * n /\ i = (i - 1) + 1
    BY <1>1, <1>10, <2>1
  <2>3. stage(i - 1) = 1
    <3>1. u[(i - 1) + 1] = middle[i - 1] /\ middle[i - 1].type = Stages[stage(i - 1)]
      BY <1>8, <1>10, <2>2
    <3>2. Stages[stage(i - 1)] = "compensation_registered"
      BY <1>12, <2>2, <3>1
    <3>3. stage(i - 1) \in 1 .. 3 /\ stage(i - 1) \notin 2 .. 3
      BY <1>2, <1>11, <2>2, <3>2
    <3> QED  BY <3>3
  <2>4. i = 3 * turn(i - 1) - 1 /\ turn(i - 1) \in 1 .. n
    BY <1>1, <1>2, <1>3, <2>2, <2>3
  <2> QED  BY <2>4
<1>13. ASSUME NEW m \in 1 .. n
       PROVE  /\ 3 * m - 1 \in DOMAIN u
              /\ u[3 * m - 1].type = "compensation_registered"
              /\ u[3 * m - 1].step = completions[m].step
              /\ u[3 * m - 1].completed_at = completions[m].at
  <2>1. /\ 3 * m - 2 \in 1 .. 3 * n /\ 3 * m - 1 = (3 * m - 2) + 1
        /\ stage(3 * m - 2) = 1 /\ turn(3 * m - 2) = m
    BY <1>1, <1>4
  <2>2. u[3 * m - 1] = middle[3 * m - 2]
    BY <1>10, <2>1
  <2> QED  BY <1>1, <1>8, <1>10, <1>11, <2>1, <2>2
<1> QED  BY <1>1, <1>5, <1>10, <1>12, <1>13

\* The events of a compensation of w at one time.
Undoes(w, u, at) ==
    /\ u \in Seq(Events) /\ Len(u) \in Nat /\ Len(u) > 0
    /\ \A i \in DOMAIN u : /\ u[i].at = at /\ u[i].type \in CompensationEvents
                           /\ u[i].type \in StepUndoing => u[i].step \in Targets[w]
    /\ u[Len(u)].type = "compensation_completed"

Closed(w, o, at) == Append(runs[w].history, Event(TerminalEvent[o], None, "pending", at))

\* A run that ends, compensated or not.
LEMMA EndFacts ==
    ASSUME TypeOK, NEW w \in Workflows, NEW o \in Terminal, NEW at \in Times
    PROVE  /\ End(w, o, at) \in Runs
           /\ End(w, o, at).status = o /\ End(w, o, at).steps = runs[w].steps
           /\ \/ /\ End(w, o, at).compensation = "not_required"
                 /\ End(w, o, at).history = Closed(w, o, at)
                 /\ o \notin Triggers[w] \/ Completed(w, Closed(w, o, at)) = {}
              \/ /\ End(w, o, at).compensation = "succeeded"
                 /\ Completed(w, Closed(w, o, at)) # {}
                 /\ \E u \in Seq(Events) : /\ Undoes(w, u, at)
                                           /\ End(w, o, at).history = Closed(w, o, at) \o u
<1> DEFINE r == runs[w]
           event == Event(TerminalEvent[o], None, "pending", at)
           h == Append(r.history, event)
           ended == [r EXCEPT !.status = o, !.compensation = "not_required",
                              !.history = Append(@, event)]
           completed == Completed(w, h)
           u == Undo(LatestFirst(h, completed), at)
           e == End(w, o, at)
<1>1. r \in Runs /\ r.history \in Seq(Events)
  BY DEF TypeOK, Runs
<1>2. event \in Events
  BY TypeFacts, EventFacts
<1>3. h \in Seq(Events)
  BY <1>1, <1>2, OneMore
<1>4. /\ ended \in Runs /\ ended.status = o /\ ended.steps = r.steps
      /\ ended.compensation = "not_required" /\ ended.history = h
  BY <1>1, <1>3 DEF Runs
<1>5. e = IF o \in Triggers[w] /\ completed # {}
          THEN [ended EXCEPT !.compensation = "succeeded", !.history = h \o u]
          ELSE ended
  BY <1>4 DEF End, Compensate
<1>6. Undoes(w, u, at) /\ u \in Seq(Events)
  <2>1. completed \in SUBSET DOMAIN h /\ \A i \in completed : h[i].step \in Targets[w]
    BY DEF Completed
  <2>2. Targets[w] \in SUBSET Steps
    BY ConstantsOK
  <2> HIDE DEF completed, h
  <2>3. LatestFirst(h, completed) \in Seq(Undoable(Targets[w]))
    BY <1>3, <2>1, LatestFirstSteps
  <2> QED  BY <2>2, <2>3, UndoFacts DEF Undoes
<1> HIDE DEF event, h, ended, completed, u, e, r
<1>7. h = Closed(w, o, at) /\ completed = Completed(w, h) /\ r.steps = runs[w].steps
  BY DEF h, Closed, event, completed, r
<1>8. CASE o \in Triggers[w] /\ completed # {}
  <2> DEFINE all == h \o u
  <2>1. all \in Seq(Events)
    BY <1>3, <1>6, ConcatProperties
  <2>2. e = [ended EXCEPT !.compensation = "succeeded", !.history = all]
    BY <1>5, <1>8
  <2> HIDE DEF all
  <2>3. /\ e \in Runs /\ e.status = o /\ e.steps = r.steps
        /\ e.compensation = "succeeded" /\ e.history = all
    BY <1>4, <2>1, <2>2 DEF Runs
  <2>4. e.history = h \o u
    BY <2>3 DEF all
  <2> QED  BY <1>6, <1>7, <1>8, <2>3, <2>4 DEF e
<1>9. CASE ~(o \in Triggers[w] /\ completed # {})
  <2>1. e = ended
    BY <1>5, <1>9
  <2> QED  BY <1>4, <1>7, <1>9, <2>1 DEF e
<1> QED  BY <1>8, <1>9

\* How a run ends.
LEMMA EndHistory ==
    ASSUME TypeOK, NEW w \in Workflows, NEW o \in Terminal, NEW at \in Times
    PROVE  LET c == Closed(w, o, at)
               completed == Completed(w, c)
           IN  /\ c \in Seq(Events) /\ completed \in SUBSET DOMAIN c
               /\ End(w, o, at).history =
                    IF o \in Triggers[w] /\ completed # {}
                    THEN c \o Undo(LatestFirst(c, completed), at)
                    ELSE c
<1> DEFINE r == runs[w]
           event == Event(TerminalEvent[o], None, "pending", at)
           h == Append(r.history, event)
           ended == [r EXCEPT !.status = o, !.compensation = "not_required",
                              !.history = Append(@, event)]
           completed == Completed(w, h)
           all == h \o Undo(LatestFirst(h, completed), at)
           e == End(w, o, at)
<1>1. r \in Runs /\ r.history \in Seq(Events)
  BY DEF TypeOK, Runs
<1>2. h \in Seq(Events)
  <2>1. event \in Events
    BY TypeFacts, EventFacts
  <2> QED  BY <1>1, <2>1, OneMore
<1>3. DOMAIN ended = DOMAIN r /\ ended.status = o /\ ended.history = h
  BY <1>1 DEF Runs
<1>4. DOMAIN r = {"status", "steps", "compensation", "started", "history"}
  BY <1>1 DEF Runs
<1>5. e = IF o \in Triggers[w] /\ completed # {}
          THEN [ended EXCEPT !.compensation = "succeeded", !.history = all]
          ELSE ended
  BY <1>3 DEF End, Compensate
<1>6. completed \in SUBSET DOMAIN h
  BY DEF Completed
<1>7. h = Closed(w, o, at)
  BY DEF Closed
<1> HIDE DEF event, h, ended, completed, all, e
<1>8. e.history = IF o \in Triggers[w] /\ completed # {} THEN all ELSE h
  BY <1>3, <1>4, <1>5
<1> QED  BY <1>2, <1>6, <1>7, <1>8 DEF completed, all, e
-----------------------------------------------------------------------------
(***************************************************************************)
(* Types.                                                                  *)
(***************************************************************************)
LEMMA AbsentTyped ==
    /\ Absent \in Runs /\ Absent.status = "absent" /\ Absent.history = <<>>
<1>1. <<>> \in Seq(Events) /\ 0 \in Times
  BY EmptySeq, ConstantsOK DEF Times
<1> QED  BY <1>1 DEF Absent, Runs, StepStates

\* The snapshot with a report in it.
With(report) == [w \in Workflows |-> IF w \in DOMAIN report THEN report[w] ELSE runs[w]]

LEMMA ReportTaken ==
    ASSUME TypeOK, NEW report \in Reports PROVE With(report) \in [Workflows -> Runs]
<1>1. ASSUME NEW w \in Workflows
      PROVE  (IF w \in DOMAIN report THEN report[w] ELSE runs[w]) \in Runs
  BY ReportsOK DEF TypeOK
<1> QED  BY <1>1 DEF With

LEMMA TypedStep == TypeOK /\ [Next]_vars => TypeOK'
<1> SUFFICES ASSUME TypeOK, [Next]_vars PROVE TypeOK'
  OBVIOUS
<1>1. CASE Tick
  <2>1. clock' \in Times
    <3>1. MaxClock \in Nat /\ clock \in Times
      BY ConstantsOK DEF TypeOK
    <3>2. clock < MaxClock /\ clock' = clock + 1
      BY <1>1 DEF Tick
    <3> QED  BY <3>1, <3>2 DEF Times
  <2> QED  BY <1>1, <2>1 DEF Tick, TypeOK
<1>2. CASE Orchestrate
  <2>1. PICK report \in Reports :
          \/ runs' = With(report) /\ by' = "orchestrator" /\ UNCHANGED clock
          \/ UNCHANGED vars
    BY <1>2 DEF Orchestrate, With
  <2>2. With(report) \in [Workflows -> Runs]
    BY ReportTaken
  <2> QED  BY <2>1, <2>2 DEF TypeOK, vars
<1>3. ASSUME NEW w \in Workflows, Cancel(w) PROVE TypeOK'
  <2>1. End(w, "cancelled", clock) \in Runs
    BY EndFacts DEF Terminal, TypeOK
  <2> QED  BY <1>3, <2>1 DEF Cancel, TypeOK
<1>4. CASE Reconcile
  <2>1. PICK now \in Times :
          runs' = [w \in Workflows |->
                     IF Overdue(w, now) THEN End(w, "timed_out", now) ELSE runs[w]]
    BY <1>4 DEF Reconcile
  <2>2. \A w \in Workflows : End(w, "timed_out", now) \in Runs
    BY EndFacts DEF Terminal
  <2> QED  BY <1>4, <2>1, <2>2 DEF Reconcile, TypeOK
<1>5. CASE UNCHANGED vars
  BY <1>5 DEF vars, TypeOK
<1> QED  BY <1>1, <1>2, <1>3, <1>4, <1>5 DEF Next

LEMMA TypedInit == Init => TypeOK
  BY AbsentTyped, ConstantsOK DEF Init, TypeOK, Times

\* Everything has its type.
THEOREM TypeCorrect == Spec => []TypeOK
  BY TypedInit, TypedStep, PTL DEF Spec
-----------------------------------------------------------------------------
(***************************************************************************)
(* Validity: what an operation of the control plane makes of a run.        *)
(***************************************************************************)
\* Nothing was undone of an open run.
NothingUndone(h) == \A i \in DOMAIN h : h[i].type \notin CompensationEvents

LEMMA OpenFacts ==
    ASSUME NEW w \in Workflows, NEW r \in Runs, r.status \in Open, Valid(w, r)
    PROVE  /\ NothingUndone(r.history) /\ TimesAscend(r.history)
           /\ StepsContracted(w, r)
           /\ r.history # <<>> => r.history[1].type = "workflow_started"
<1> DEFINE h == r.history
<1>1. r.status # "absent" /\ r.compensation = "not_required"
  BY DEF Valid, Parses, Open
<1>2. h \in Seq(Events)
  BY DEF Runs
<1>3. CASE h = <<>>
  <2>1. DOMAIN h = {}
    BY <1>2, <1>3, HistoryFacts
  <2> QED  BY <1>1, <1>3, <2>1 DEF Valid, NothingUndone
<1>4. CASE h # <<>>
  <2>1. Explained(w, r)
    BY <1>1, <1>4 DEF Valid
  <2>2. Positions(h, CompensationEvents) = {}
    BY <1>1, <2>1 DEF Explained, UndoingExplained
  <2>3. NothingUndone(h)
    BY <2>2 DEF NothingUndone, Positions
  <2> QED  BY <1>1, <2>1, <2>3 DEF Valid, Explained
<1> QED  BY <1>3, <1>4

\* A history that the event of the end was added to.
LEMMA ClosedFacts ==
    ASSUME TypeOK, NEW w \in Workflows, NEW o \in Terminal, NEW at \in Times,
           NothingUndone(runs[w].history), TimesAscend(runs[w].history)
    PROVE  LET h == runs[w].history
               c == Closed(w, o, at)
           IN  /\ h \in Seq(Events) /\ Len(h) \in Nat /\ DOMAIN h = 1 .. Len(h)
               /\ c \in Seq(Events) /\ Len(c) = Len(h) + 1 /\ DOMAIN c = 1 .. (Len(h) + 1)
               /\ \A i \in DOMAIN h : c[i] = h[i]
               /\ c[Len(c)].type = TerminalEvent[o] /\ c[Len(c)].at = at
               /\ NothingUndone(c)
               /\ TimesAscend(c) <=> (h # <<>> => h[Len(h)].at <= at)
               /\ Completed(w, c) = Completed(w, h)
<1> DEFINE h == runs[w].history
           e == Event(TerminalEvent[o], None, "pending", at)
           c == Append(h, e)
<1>1. h \in Seq(Events)
  BY DEF TypeOK, Runs
<1>2. e \in Events /\ e.type = TerminalEvent[o] /\ e.at = at
  <2>1. TerminalEvent[o] \in EventTypes /\ None \in Steps \cup {None} /\ "pending" \in StepStates
    BY TypeFacts
  <2>2. e \in Events
    BY <2>1, EventFacts
  <2> QED  BY <2>2 DEF Event
<1>3. /\ NothingUndone(h)
      /\ \A i \in 2 .. Len(h) : h[i - 1].at <= h[i].at
  BY DEF TimesAscend
<1> HIDE DEF h, e
<1>4. /\ DOMAIN h = 1 .. Len(h) /\ Len(h) \in Nat
      /\ h # <<>> => Len(h) > 0
      /\ h = <<>> => Len(h) = 0
      /\ \A i \in DOMAIN h : h[i].at \in Nat
      /\ c \in Seq(Events) /\ Len(c) = Len(h) + 1 /\ DOMAIN c = DOMAIN h \cup {Len(h) + 1}
      /\ \A i \in DOMAIN h : c[i] = h[i]
      /\ c[Len(h) + 1] = e
  BY <1>1, <1>2, HistoryFacts, OneMore
<1> HIDE DEF c
<1>5. DOMAIN c = 1 .. (Len(h) + 1)
  BY <1>4
<1>6. e.type \notin CompensationEvents \cup {"step_completed"}
  BY <1>2, TypeFacts
<1>7. NothingUndone(c)
  BY <1>3, <1>4, <1>6 DEF NothingUndone
<1>8. TimesAscend(c) <=> (h # <<>> => h[Len(h)].at <= at)
  <2>1. ASSUME TimesAscend(c), h # <<>> PROVE h[Len(h)].at <= at
    <3>1. Len(h) + 1 \in 2 .. Len(c) /\ Len(h) \in DOMAIN h /\ (Len(h) + 1) - 1 = Len(h)
      BY <1>4, <2>1
    <3>2. c[(Len(h) + 1) - 1].at <= c[Len(h) + 1].at
      BY <2>1, <3>1 DEF TimesAscend
    <3> QED  BY <1>2, <1>4, <3>1, <3>2
  <2>2. ASSUME h # <<>> => h[Len(h)].at <= at PROVE TimesAscend(c)
    <3> SUFFICES ASSUME NEW i \in 2 .. Len(c) PROVE c[i - 1].at <= c[i].at
      BY DEF TimesAscend
    <3>1. CASE i \in 2 .. Len(h)
      <4>1. i \in DOMAIN h /\ i - 1 \in DOMAIN h
        BY <1>4, <3>1
      <4> QED  BY <1>3, <1>4, <3>1, <4>1
    <3>2. CASE i = Len(h) + 1
      <4>1. i - 1 = Len(h) /\ Len(h) \in DOMAIN h /\ h # <<>>
        BY <1>4, <3>2
      <4>2. c[i - 1] = h[Len(h)] /\ c[i] = e
        BY <1>4, <3>2, <4>1
      <4> QED  BY <1>2, <2>2, <4>1, <4>2
    <3> QED  BY <1>4, <3>1, <3>2
  <2> QED  BY <2>1, <2>2
<1>9. c[Len(c)].type = TerminalEvent[o] /\ c[Len(c)].at = at
  BY <1>2, <1>4
<1>10. Completed(w, c) = Completed(w, h)
  BY <1>4, <1>6 DEF Completed
<1> QED  BY <1>1, <1>4, <1>5, <1>7, <1>8, <1>9, <1>10 DEF h, c, e, Closed

\* A closed history with the events of a compensation after it.
Compensated(w, o, c, all) ==
    /\ all \in Seq(Events) /\ all # <<>>
    /\ \A i \in 1 .. Len(c) : all[i] = c[i]
    /\ TimesAscend(all) <=> TimesAscend(c)
    /\ \A i \in Positions(all, StepUndoing) : all[i].step \in Targets[w]
    /\ Len(c) \in Positions(all, {TerminalEvent[o]})
    /\ \A i \in Positions(all, {TerminalEvent[o]}), j \in Positions(all, CompensationEvents) :
         i < j
    /\ LastIs(all, Positions(all, CompensationEvents), "compensation_completed")

LEMMA UndoneFacts ==
    ASSUME NEW w \in Workflows, NEW o \in Terminal, NEW at \in Times,
           NEW c \in Seq(Events), Len(c) > 0, NothingUndone(c),
           c[Len(c)].type = TerminalEvent[o], c[Len(c)].at = at,
           NEW u \in Seq(Events), Undoes(w, u, at), NEW all, all = c \o u
    PROVE  Compensated(w, o, c, all)
<1> DEFINE n == Len(c)
<1>1. /\ Len(u) \in Nat /\ Len(u) > 0 /\ DOMAIN u = 1 .. Len(u)
      /\ \A i \in DOMAIN u : /\ u[i].at = at /\ u[i].type \in CompensationEvents
                             /\ u[i].type \in StepUndoing => u[i].step \in Targets[w]
      /\ u[Len(u)].type = "compensation_completed"
  BY HistoryFacts DEF Undoes
<1>2. n \in Nat /\ n > 0 /\ DOMAIN c = 1 .. n
  BY HistoryFacts
<1>3. /\ all \in Seq(Events) /\ Len(all) = n + Len(u) /\ DOMAIN all = 1 .. (n + Len(u))
      /\ \A i \in 1 .. n : all[i] = c[i]
      /\ \A i \in 1 .. Len(u) : all[n + i] = u[i]
      /\ all # <<>>
  <2>1. /\ all \in Seq(Events) /\ Len(all) = n + Len(u)
        /\ \A i \in 1 .. n : all[i] = c[i]
        /\ \A i \in 1 .. Len(u) : all[n + i] = u[i]
    BY ConcatProperties
  <2>2. DOMAIN all = 1 .. (n + Len(u)) /\ n + Len(u) > 0
    BY <1>1, <1>2, <2>1, HistoryFacts
  <2>3. all # <<>>
    BY <1>1, <1>2, <2>1, HistoryFacts
  <2> QED  BY <2>1, <2>2, <2>3
<1>4. NothingUndone(c)
  OBVIOUS
<1> HIDE DEF n
<1>5. \A i \in (n + 1) .. (n + Len(u)) :
        /\ all[i].at = at /\ all[i].type \in CompensationEvents
        /\ all[i].type \in StepUndoing => all[i].step \in Targets[w]
  <2> SUFFICES ASSUME NEW i \in (n + 1) .. (n + Len(u))
               PROVE  /\ all[i].at = at /\ all[i].type \in CompensationEvents
                      /\ all[i].type \in StepUndoing => all[i].step \in Targets[w]
    OBVIOUS
  <2>1. i - n \in 1 .. Len(u) /\ i = n + (i - n)
    BY <1>1, <1>2
  <2>2. all[n + (i - n)] = u[i - n]
    BY <1>3, <2>1
  <2>3. all[i] = u[i - n]
    BY <2>1, <2>2
  <2> QED  BY <1>1, <2>1, <2>3
<1> DEFINE ends == Positions(all, {TerminalEvent[o]})
           undone == Positions(all, CompensationEvents)
<1>6. \A i \in 1 .. n : all[i].type \notin CompensationEvents
  BY <1>2, <1>3, <1>4 DEF NothingUndone
<1>7. undone = (n + 1) .. (n + Len(u))
  BY <1>1, <1>2, <1>3, <1>5, <1>6 DEF Positions
<1>8. n \in ends /\ \A i \in ends : i \in 1 .. n
  <2>1. TerminalEvent[o] \notin CompensationEvents
    BY TypeFacts
  <2>2. n \in 1 .. n /\ n \in DOMAIN all /\ all[n].type = TerminalEvent[o]
    BY <1>1, <1>2, <1>3 DEF n
  <2>3. \A i \in ends : i \in DOMAIN all /\ i \notin (n + 1) .. (n + Len(u))
    BY <1>5, <2>1 DEF Positions
  <2>4. n \in ends
    BY <2>2 DEF Positions
  <2> HIDE DEF ends
  <2> QED  BY <1>1, <1>2, <1>3, <2>3, <2>4
<1>9. \A i \in Positions(all, StepUndoing) : all[i].step \in Targets[w]
  <2> SUFFICES ASSUME NEW i \in DOMAIN all, all[i].type \in StepUndoing
               PROVE  all[i].step \in Targets[w]
    BY DEF Positions
  <2>1. i \notin 1 .. n
    BY <1>6, TypeFacts
  <2>2. i \in (n + 1) .. (n + Len(u))
    BY <1>1, <1>2, <1>3, <2>1
  <2> QED  BY <1>5, <2>2
<1>10. LastIs(all, undone, "compensation_completed")
  <2> SUFFICES ASSUME NEW i \in undone, \A j \in undone : j <= i
               PROVE  all[i].type = "compensation_completed"
    BY DEF LastIs
  <2>1. n + Len(u) \in undone /\ i \in (n + 1) .. (n + Len(u))
    BY <1>1, <1>2, <1>7
  <2>2. n + Len(u) <= i
    BY <2>1
  <2>3. n \in Nat /\ Len(u) \in Nat
    BY <1>1, <1>2
  <2> HIDE DEF undone
  <2>4. i = n + Len(u)
    <3> DEFINE k == Len(u)
    <3>1. k \in Nat /\ i \in (n + 1) .. (n + k) /\ n + k <= i
      BY <2>1, <2>2, <2>3
    <3> HIDE DEF k
    <3>2. i = n + k
      BY <2>3, <3>1
    <3> QED  BY <3>2 DEF k
  <2> QED  BY <1>1, <1>3, <2>4
<1>11. TimesAscend(all) <=> TimesAscend(c)
  <2>1. ASSUME TimesAscend(all) PROVE TimesAscend(c)
    <3> SUFFICES ASSUME NEW i \in 2 .. n PROVE c[i - 1].at <= c[i].at
      BY DEF TimesAscend, n
    <3>1. i \in 2 .. Len(all) /\ i \in 1 .. n /\ i - 1 \in 1 .. n
      BY <1>1, <1>2, <1>3
    <3>2. all[i - 1].at <= all[i].at
      BY <2>1, <3>1 DEF TimesAscend
    <3> QED  BY <1>3, <3>1, <3>2
  <2>2. ASSUME TimesAscend(c) PROVE TimesAscend(all)
    <3> SUFFICES ASSUME NEW i \in 2 .. Len(all) PROVE all[i - 1].at <= all[i].at
      BY DEF TimesAscend
    <3>1. CASE i \in 2 .. n
      <4>1. i \in 1 .. n /\ i - 1 \in 1 .. n
        BY <1>2, <3>1
      <4>2. c[i - 1].at <= c[i].at
        BY <2>2, <3>1 DEF TimesAscend, n
      <4> QED  BY <1>3, <4>1, <4>2
    <3>2. CASE i = n + 1
      <4>1. i - 1 = n /\ n \in 1 .. n /\ i \in (n + 1) .. (n + Len(u))
        BY <1>1, <1>2, <3>2
      <4>2. all[i - 1].at = at /\ all[i].at = at
        BY <1>3, <1>5, <4>1 DEF n
      <4> QED  BY <4>2, ConstantsOK DEF Times
    <3>3. CASE i \in (n + 2) .. Len(all)
      <4>1. i \in (n + 1) .. (n + Len(u)) /\ i - 1 \in (n + 1) .. (n + Len(u))
        BY <1>1, <1>2, <1>3, <3>3
      <4>2. all[i - 1].at = at /\ all[i].at = at
        BY <1>5, <4>1
      <4> QED  BY <4>2, ConstantsOK DEF Times
    <3> QED  BY <1>1, <1>2, <1>3, <3>1, <3>2, <3>3
  <2> QED  BY <2>1, <2>2
<1>12. \A i \in ends, j \in undone : i < j
  <2> HIDE DEF ends, undone
  <2> QED  BY <1>1, <1>2, <1>7, <1>8
<1> QED  BY <1>3, <1>8, <1>9, <1>10, <1>11, <1>12 DEF n, Compensated

\* The end of an open run is within the contract if and only if what was
\* reported of the run is coherent.
LEMMA EndValid ==
    ASSUME TypeOK, NEW w \in Workflows, NEW o \in {"cancelled", "timed_out"}, NEW at \in Times,
           runs[w].status \in Open, Valid(w, runs[w])
    PROVE  /\ End(w, o, at).history[Len(runs[w].history) + 1].at = at
           /\ Valid(w, End(w, o, at)) <=> Coherent(w, runs[w], o, at)
<1> DEFINE r == runs[w]
           h == r.history
           c == Closed(w, o, at)
           e == End(w, o, at)
           due == CompensationDue(w, e)
           ends == Positions(e.history, {TerminalEvent[p] : p \in {e.status} \cap Terminal})
<1>1. o \in Terminal /\ o \notin Open /\ o # "absent" /\ o # "running"
  BY DEF Terminal, Open
<1>2. e.status = o /\ e.steps = r.steps
  BY <1>1, EndFacts
<1>3. /\ NothingUndone(h) /\ TimesAscend(h) /\ StepsContracted(w, r)
      /\ h # <<>> => h[1].type = "workflow_started"
  BY OpenFacts DEF TypeOK
<1>4. /\ h \in Seq(Events) /\ Len(h) \in Nat /\ DOMAIN h = 1 .. Len(h)
      /\ c \in Seq(Events) /\ Len(c) = Len(h) + 1 /\ DOMAIN c = 1 .. (Len(h) + 1)
      /\ \A i \in DOMAIN h : c[i] = h[i]
      /\ c[Len(c)].type = TerminalEvent[o] /\ c[Len(c)].at = at
      /\ NothingUndone(c)
      /\ TimesAscend(c) <=> (h # <<>> => h[Len(h)].at <= at)
      /\ Completed(w, c) = Completed(w, h)
  BY <1>1, <1>3, ClosedFacts
<1>5. Coherent(w, r, o, at) <=> /\ h # <<>> /\ h[Len(h)].at <= at
                                /\ due => Completed(w, h) # {}
  <2>1. r \in Runs
    BY DEF TypeOK
  <2>2. [r EXCEPT !.status = o].status = o /\ [r EXCEPT !.status = o].steps = r.steps
    BY <2>1 DEF Runs
  <2>3. CompensationDue(w, [r EXCEPT !.status = o]) <=> due
    BY <1>2, <2>2 DEF CompensationDue
  <2> HIDE DEF due, r
  <2> QED  BY <2>3 DEF Coherent
<1>6. Parses(e) /\ StepsContracted(w, e) /\ e.status # "absent"
  BY <1>1, <1>2, <1>3 DEF Parses, StepsContracted
<1>7. {TerminalEvent[p] : p \in {e.status} \cap Terminal} = {TerminalEvent[o]}
  BY <1>1, <1>2
<1>8. c[1].type = "workflow_started" <=> h # <<>>
  <2>1. CASE h = <<>>
    <3>1. Len(h) = 0
      BY <1>4, <2>1, HistoryFacts
    <3>2. Len(c) = 1
      BY <1>4, <3>1
    <3>3. c[1].type = TerminalEvent[o]
      BY <1>4, <3>2
    <3> QED  BY <1>1, <2>1, <3>3, TypeFacts
  <2>2. CASE h # <<>>
    <3>1. 1 \in DOMAIN h
      BY <1>4, <2>2, HistoryFacts
    <3> QED  BY <1>3, <1>4, <2>2, <3>1
  <2> QED  BY <2>1, <2>2
<1>9. /\ Len(c) > 0 /\ Len(h) + 1 \in 1 .. Len(c) /\ Len(c) \in DOMAIN c
      /\ c[Len(h) + 1].at = at /\ c # <<>>
  <2>1. Len(c) > 0 /\ Len(h) + 1 \in 1 .. Len(c) /\ Len(c) \in DOMAIN c
    BY <1>4
  <2> QED  BY <1>4, <2>1, HistoryFacts
<1>10. Positions(c, CompensationEvents) = {} /\ Positions(c, StepUndoing) = {}
  BY <1>4, TypeFacts DEF Positions, NothingUndone
<1>11. CASE /\ e.compensation = "not_required" /\ e.history = c
            /\ o \notin Triggers[w] \/ Completed(w, c) = {}
  <2>1. Len(c) \in ends
    BY <1>4, <1>7, <1>9, <1>11 DEF Positions
  <2>2. UndoingExplained(e)
    BY <1>10, <1>11 DEF UndoingExplained
  <2> HIDE DEF c, e, h
  <2>3. Explained(w, e) <=> h # <<>>
    BY <1>1, <1>2, <1>8, <1>10, <1>11, <2>1, <2>2 DEF Explained
  <2>4. Valid(w, e) <=> TimesAscend(c) /\ ~due /\ h # <<>>
    BY <1>6, <1>9, <1>11, <2>3 DEF Valid
  <2>5. due => Completed(w, h) = {}
    BY <1>2, <1>4, <1>11 DEF CompensationDue
  <2> HIDE DEF due
  <2>6. Valid(w, e) <=> Coherent(w, r, o, at)
    BY <1>4, <1>5, <2>4, <2>5
  <2>7. e.history[Len(h) + 1].at = at
    BY <1>9, <1>11
  <2> QED  BY <2>6, <2>7 DEF e, h
<1>12. CASE /\ e.compensation = "succeeded" /\ Completed(w, c) # {}
            /\ \E u \in Seq(Events) : Undoes(w, u, at) /\ e.history = c \o u
  <2>1. PICK u \in Seq(Events) : Undoes(w, u, at) /\ e.history = c \o u
    BY <1>12
  <2> DEFINE all == e.history
  <2>2. h # <<>>
    BY <1>4, <1>12, HistoryFacts DEF Completed
  <2> HIDE DEF c, e, h, r
  <2>3. Compensated(w, o, c, all)
    <3>1. all = c \o u
      BY <2>1
    <3> HIDE DEF all
    <3>2. /\ c \in Seq(Events) /\ Len(c) > 0 /\ NothingUndone(c)
          /\ c[Len(c)].type = TerminalEvent[o] /\ c[Len(c)].at = at
      BY <1>4, <1>9
    <3> QED  BY <1>1, <2>1, <3>1, <3>2, UndoneFacts
  <2>4. UndoingExplained(e)
    BY <1>12, <2>3 DEF UndoingExplained, Compensated
  <2>5. all[1].type = "workflow_started"
    <3>1. 1 \in 1 .. Len(c)
      BY <1>4
    <3> QED  BY <1>8, <2>2, <2>3, <3>1 DEF Compensated
  <2>6. Explained(w, e)
    BY <1>1, <1>2, <1>7, <2>3, <2>4, <2>5 DEF Explained, Compensated
  <2>7. Valid(w, e) <=> TimesAscend(c)
    BY <1>6, <1>12, <2>3, <2>6 DEF Valid, Compensated
  <2>8. Valid(w, e) <=> Coherent(w, r, o, at)
    BY <1>4, <1>5, <1>12, <2>2, <2>7
  <2>9. e.history[Len(h) + 1].at = at
    BY <1>9, <2>3 DEF Compensated
  <2> QED  BY <2>8, <2>9 DEF e, h, r
<1> QED  BY <1>1, <1>11, <1>12, EndFacts

\* The run of w is as it was, or was published by an operation that broke the
\* contract only if the report of the run was not coherent.
Accounted(w) ==
    runs'[w] # runs[w] =>
        LET at == runs'[w].history[Len(runs[w].history) + 1].at
        IN  Valid(w, runs'[w]) <=> \/ by' = "orchestrator"
                                   \/ Coherent(w, runs[w], runs'[w].status, at)

LEMMA ValidInit == Init => VInv
<1> SUFFICES ASSUME Init PROVE VInv
  OBVIOUS
<1>1. \A w \in Workflows : runs[w].status = "absent"
  BY AbsentTyped DEF Init
<1> QED  BY <1>1, TypedInit DEF VInv, Open

LEMMA EndAccounted ==
    ASSUME VInv, NEW w \in Workflows, NEW o \in {"cancelled", "timed_out"}, NEW at \in Times,
           runs[w].status \in Open, runs'[w] = End(w, o, at), by' = "control plane"
    PROVE  Accounted(w) /\ runs'[w].status \notin Open
<1> DEFINE e == End(w, o, at)
<1>0. TypeOK /\ Valid(w, runs[w]) /\ o \in Terminal
  BY DEF VInv, Terminal
<1>1. e.status = o
  BY <1>0, EndFacts
<1>2. /\ e.history[Len(runs[w].history) + 1].at = at
      /\ Valid(w, e) <=> Coherent(w, runs[w], o, at)
  BY <1>0, EndValid
<1> HIDE DEF e
<1>3. runs'[w] = e
  BY DEF e
<1> QED  BY <1>1, <1>2, <1>3 DEF Accounted, Open

LEMMA ValidStep == VInv /\ [Next]_vars => VInv' /\ \A w \in Workflows : Accounted(w)
<1> SUFFICES ASSUME VInv, [Next]_vars PROVE VInv' /\ \A w \in Workflows : Accounted(w)
  OBVIOUS
<1>1. TypeOK'
  BY TypedStep DEF VInv
<1> SUFFICES ASSUME NEW w \in Workflows
             PROVE  (runs[w].status \in Open => Valid(w, runs[w]))' /\ Accounted(w)
  BY <1>1 DEF VInv
<1>2. CASE runs'[w] = runs[w]
  BY <1>2 DEF VInv, Accounted
<1>3. CASE Orchestrate
  <2>1. PICK report \in Reports :
          \/ /\ \A v \in Workflows : Valid(v, With(report)[v])
             /\ runs' = With(report) /\ by' = "orchestrator"
          \/ UNCHANGED vars
    BY <1>3 DEF Orchestrate, With
  <2>2. CASE UNCHANGED vars
    BY <1>2, <2>2 DEF vars
  <2>3. CASE /\ \A v \in Workflows : Valid(v, With(report)[v])
             /\ runs' = With(report) /\ by' = "orchestrator"
    <3>1. Valid(w, runs'[w])
      BY <2>3
    <3> QED  BY <2>3, <3>1 DEF Accounted
  <2> QED  BY <2>1, <2>2, <2>3
<1>4. ASSUME NEW v \in Workflows, Cancel(v), runs'[w] # runs[w]
      PROVE  (runs[w].status \in Open => Valid(w, runs[w]))' /\ Accounted(w)
  <2>1. runs \in [Workflows -> Runs] /\ clock \in Times
    BY DEF VInv, TypeOK
  <2>2. w = v /\ runs'[w] = End(w, "cancelled", clock) /\ runs[w].status \in Open
    BY <1>4, <2>1 DEF Cancel
  <2> QED  BY <1>4, <2>1, <2>2, EndAccounted DEF Cancel
<1>5. ASSUME Reconcile, runs'[w] # runs[w]
      PROVE  (runs[w].status \in Open => Valid(w, runs[w]))' /\ Accounted(w)
  <2>1. PICK now \in Times :
          runs' = [v \in Workflows |->
                     IF Overdue(v, now) THEN End(v, "timed_out", now) ELSE runs[v]]
    BY <1>5 DEF Reconcile
  <2>2. runs'[w] = End(w, "timed_out", now) /\ runs[w].status \in Open
    BY <1>5, <2>1 DEF Overdue, Open
  <2> QED  BY <1>5, <2>2, EndAccounted DEF Reconcile
<1>6. CASE Tick \/ UNCHANGED vars
  BY <1>2, <1>6 DEF Tick, vars
<1> QED  BY <1>2, <1>3, <1>4, <1>5, <1>6 DEF Next

\* What an operation publishes is within the contract, but for a cancellation
\* or a timeout of a run whose report was not coherent, and each of those is
\* outside it: whatever is reported.
THEOREM OnlyIncoherentBreakCorrect == Spec => OnlyIncoherentBreak
<1>1. VInv /\ [Next]_vars =>
        [\A w \in Workflows :
            runs'[w] # runs[w] =>
                LET ended == runs'[w]
                    at == ended.history[Len(runs[w].history) + 1].at
                IN  Valid(w, ended) <=> \/ by' = "orchestrator"
                                       \/ Coherent(w, runs[w], ended.status, at)]_vars
  BY ValidStep DEF Accounted
<1> QED  BY <1>1, ValidInit, ValidStep, PTL DEF Spec, OnlyIncoherentBreak
-----------------------------------------------------------------------------
(***************************************************************************)
(* The promise about runs: each step of WorkflowRuns is one of             *)
(* WorkflowLifecycle or leaves what it sees as it was.                     *)
(***************************************************************************)
\* What is done depends on the completions that are reported, what is undone on
\* the registrations.
LEMMA DoneKept ==
    ASSUME NEW r, NEW q, DOMAIN r.history \subseteq DOMAIN q.history,
           \A i \in DOMAIN r.history : q.history[i] = r.history[i],
           \A i \in DOMAIN q.history \ DOMAIN r.history : q.history[i].type # "step_completed"
    PROVE  Done(q) = Done(r)
<1> DEFINE at(run) == {i \in DOMAIN run.history : /\ run.history[i].type = "step_completed"
                                                 /\ run.history[i].outcome = "succeeded"}
           entry(run, i) == [step |-> run.history[i].step, at |-> run.history[i].at]
<1>1. at(q) = at(r)
  OBVIOUS
<1>2. \A i \in at(r) : entry(q, i) = entry(r, i)
  OBVIOUS
<1>3. Done(q) = [i \in at(q) |-> entry(q, i)] /\ Done(r) = [i \in at(r) |-> entry(r, i)]
  BY DEF Done
<1> HIDE DEF at, entry
<1> QED  BY <1>1, <1>2, <1>3


LEMMA NoneUndone ==
    ASSUME NEW r, NothingUndone(r.history) PROVE Undone(r) = Lifecycle!Nowhere
<1>1. Positions(r.history, {"compensation_registered"}) = {}
  BY DEF Positions, NothingUndone, CompensationEvents, StepUndoing
<1>2. Undone(r) = [i \in {} |-> [step |-> r.history[i].step, at |-> r.history[i].completed_at]]
  BY <1>1 DEF Undone
<1> QED  BY <1>2 DEF Lifecycle!Nowhere

\* A closed history with the events of a compensation after it.
Marked(c, completions, all) ==
    /\ Len(completions) \in Nat /\ Len(c) \in Nat /\ DOMAIN c = 1 .. Len(c)
    /\ DOMAIN all = 1 .. (Len(c) + 3 * Len(completions) + 2)
    /\ \A i \in DOMAIN c : all[i] = c[i]
    /\ \A i \in DOMAIN all \ DOMAIN c : all[i].type \in CompensationEvents
    /\ \A i \in DOMAIN all : all[i].type = "compensation_registered" =>
            \E m \in 1 .. Len(completions) : i = Len(c) + 3 * m - 1
    /\ \A m \in 1 .. Len(completions) :
            /\ Len(c) + 3 * m - 1 \in DOMAIN all
            /\ all[Len(c) + 3 * m - 1].type = "compensation_registered"
            /\ all[Len(c) + 3 * m - 1].step = completions[m].step
            /\ all[Len(c) + 3 * m - 1].completed_at = completions[m].at

LEMMA MarksAfter ==
    ASSUME NEW c \in Seq(Events), NothingUndone(c),
           NEW T \in SUBSET Steps, NEW completions \in Seq(Undoable(T)), NEW at \in Times,
           NEW all, all = c \o Undo(completions, at)
    PROVE  Marked(c, completions, all)
<1> DEFINE u == Undo(completions, at)
           n == Len(completions)
           k == Len(c)
<1>1. /\ u \in Seq(Events) /\ n \in Nat /\ DOMAIN u = 1 .. (3 * n + 2)
      /\ \A i \in DOMAIN u : u[i].type \in CompensationEvents
      /\ \A i \in DOMAIN u : u[i].type = "compensation_registered" =>
            \E m \in 1 .. n : i = 3 * m - 1
      /\ \A m \in 1 .. n : /\ 3 * m - 1 \in DOMAIN u
                           /\ u[3 * m - 1].type = "compensation_registered"
                           /\ u[3 * m - 1].step = completions[m].step
                           /\ u[3 * m - 1].completed_at = completions[m].at
  BY UndoMarks
<1>2. k \in Nat /\ DOMAIN c = 1 .. k
  BY HistoryFacts
<1>3. all = c \o u
  OBVIOUS
<1> HIDE DEF u
<1>4. Len(u) = 3 * n + 2
  BY <1>1, HistoryFacts
<1>5. /\ DOMAIN all = 1 .. (k + 3 * n + 2)
      /\ \A i \in 1 .. (k + 3 * n + 2) : all[i] = IF i <= k THEN c[i] ELSE u[i - k]
  <2> DEFINE joined == c \o u
  <2>1. /\ joined \in Seq(Events) /\ Len(joined) = k + Len(u)
        /\ \A i \in 1 .. (k + Len(u)) : joined[i] = IF i <= k THEN c[i] ELSE u[i - k]
    BY <1>1, ConcatProperties
  <2> HIDE DEF joined, k, n
  <2>2. k + Len(u) = k + 3 * n + 2
    BY <1>1, <1>2, <1>4
  <2>3. DOMAIN joined = 1 .. (k + 3 * n + 2)
    BY <2>1, <2>2, HistoryFacts
  <2> QED  BY <1>3, <2>1, <2>2, <2>3 DEF joined
<1> HIDE DEF k, n
<1>6. \A i \in DOMAIN c : i \in DOMAIN all /\ all[i] = c[i]
  BY <1>1, <1>2, <1>5
<1>7. ASSUME NEW i \in DOMAIN all \ DOMAIN c
      PROVE  i - k \in DOMAIN u /\ all[i] = u[i - k] /\ i = k + (i - k)
  BY <1>1, <1>2, <1>5
<1>8. \A i \in DOMAIN all \ DOMAIN c : all[i].type \in CompensationEvents
  BY <1>1, <1>7
<1>9. ASSUME NEW i \in DOMAIN all, all[i].type = "compensation_registered"
      PROVE  \E m \in 1 .. n : i = k + 3 * m - 1
  <2>1. i \notin DOMAIN c
    BY <1>6, <1>9 DEF CompensationEvents, StepUndoing, NothingUndone
  <2>2. PICK m \in 1 .. n : i - k = 3 * m - 1
    BY <1>1, <1>7, <1>9, <2>1
  <2>3. i = k + 3 * m - 1
    BY <1>1, <1>2, <1>5, <1>7, <2>1, <2>2
  <2> QED  BY <2>3
<1>10. ASSUME NEW m \in 1 .. n
       PROVE  /\ k + 3 * m - 1 \in DOMAIN all
              /\ all[k + 3 * m - 1] = u[3 * m - 1]
  <2>1. 3 * m - 1 \in 1 .. (3 * n + 2)
    BY <1>1
  <2>2. /\ k + 3 * m - 1 \in 1 .. (k + 3 * n + 2) /\ ~(k + 3 * m - 1 <= k)
        /\ (k + 3 * m - 1) - k = 3 * m - 1
    BY <1>1, <1>2, <2>1
  <2> QED  BY <1>5, <2>2
<1>11. \A m \in 1 .. n : /\ all[k + 3 * m - 1].type = "compensation_registered"
                         /\ all[k + 3 * m - 1].step = completions[m].step
                         /\ all[k + 3 * m - 1].completed_at = completions[m].at
  BY <1>1, <1>10
<1> QED  BY <1>1, <1>2, <1>5, <1>6, <1>8, <1>9, <1>10, <1>11 DEF k, n, Marked

\* The compensation of a closed history undoes every compensable completion, at
\* a place of its own and in the order of the promise.
UndoneInOrder(w, c, r) ==
    /\ \A i \in DOMAIN c : i \in DOMAIN r.history /\ r.history[i] = c[i]
    /\ \A i \in DOMAIN r.history \ DOMAIN c : r.history[i].type \in CompensationEvents
    /\ \E of \in Bijection(DOMAIN Undone(r), Completed(w, c)) :
        /\ \A i \in DOMAIN Undone(r) :
                Undone(r)[i] = [step |-> c[of[i]].step, at |-> c[of[i]].at]
        /\ \A i, j \in DOMAIN Undone(r) :
                i < j => \/ c[of[i]].at > c[of[j]].at
                         \/ c[of[i]].at = c[of[j]].at /\ of[i] < of[j]

LEMMA CompensationUndoes ==
    ASSUME TicksPerSecond = 1, NEW w \in Workflows, NEW at \in Times,
           NEW c \in Seq(Events), NothingUndone(c),
           NEW r, r.history = c \o Undo(LatestFirst(c, Completed(w, c)), at)
    PROVE  UndoneInOrder(w, c, r)
<1> DEFINE places == Completed(w, c)
           n == Cardinality(places)
           completions == LatestFirst(c, places)
           all == r.history
           k == Len(c)
           marks == Positions(all, {"compensation_registered"})
           undone == Undone(r)
           place(m) == k + 3 * m - 1
           turn(i) == (i - k + 1) \div 3
<1>1. places \in SUBSET DOMAIN c
      /\ \A i \in places : c[i].step \in Targets[w]
  BY DEF Completed
<1>2. PICK pick \in Bijection(1 .. n, places) :
        /\ completions = [m \in 1 .. n |-> c[pick[m]]]
        /\ \A m, l \in 1 .. n :
                m < l => \/ TextRank(c[pick[m]].at) > TextRank(c[pick[l]].at)
                         \/ /\ TextRank(c[pick[m]].at) = TextRank(c[pick[l]].at)
                            /\ pick[m] < pick[l]
  BY <1>1, LatestFirstPicks
<1>3. n \in Nat
  BY <1>1, LatestFirstPicks
<1> HIDE DEF places, n
<1>4. /\ pick \in [1 .. n -> places]
      /\ \A m, l \in 1 .. n : pick[m] = pick[l] => m = l
      /\ \A i \in places : \E m \in 1 .. n : pick[m] = i
  BY <1>2 DEF Bijection, Injection, Surjection, IsInjective
<1>5. completions \in Seq(Undoable(Targets[w])) /\ Len(completions) = n
  <2>1. completions \in Seq(Undoable(Targets[w]))
    BY <1>1, LatestFirstSteps
  <2>2. DOMAIN completions = 1 .. n
    BY <1>2
  <2> HIDE DEF completions
  <2> QED  BY <1>3, <2>1, <2>2, LenProperties
<1> HIDE DEF completions
<1>6. Targets[w] \in SUBSET Steps
  BY ConstantsOK
<1>7. all = c \o Undo(completions, at)
  BY DEF completions, places
<1> HIDE DEF all
<1>8. /\ k \in Nat /\ DOMAIN c = 1 .. k
      /\ DOMAIN all = 1 .. (k + 3 * n + 2)
      /\ \A i \in DOMAIN c : all[i] = c[i]
      /\ \A i \in DOMAIN all \ DOMAIN c : all[i].type \in CompensationEvents
      /\ \A i \in DOMAIN all : all[i].type = "compensation_registered" =>
            \E m \in 1 .. n : i = place(m)
      /\ \A m \in 1 .. n : /\ place(m) \in DOMAIN all
                           /\ all[place(m)].type = "compensation_registered"
                           /\ all[place(m)].step = completions[m].step
                           /\ all[place(m)].completed_at = completions[m].at
  <2>1. Marked(c, completions, all)
    BY <1>5, <1>6, <1>7, MarksAfter
  <2> QED  BY <1>5, <2>1 DEF Marked
<1>9. \A m \in 1 .. n : turn(place(m)) = m
  BY <1>3, <1>8
<1>10. \A m, l \in 1 .. n : place(m) < place(l) => m < l
  BY <1>3, <1>8
<1> HIDE DEF k, place, turn
<1>11. /\ \A i \in marks : turn(i) \in 1 .. n /\ i = place(turn(i))
       /\ \A m \in 1 .. n : place(m) \in marks
       /\ marks \subseteq DOMAIN all
  BY <1>8, <1>9 DEF Positions
<1> HIDE DEF marks
<1>12. \A i \in DOMAIN c : i \in DOMAIN all /\ all[i] = c[i]
  BY <1>3, <1>8
<1> DEFINE entry(i) == [step |-> c[i].step, at |-> c[i].at]
           of == [i \in marks |-> pick[turn(i)]]
<1>15. /\ DOMAIN undone = marks
       /\ \A i \in marks : undone[i] = [step |-> all[i].step, at |-> all[i].completed_at]
  BY DEF Undone, marks, all
<1> HIDE DEF undone
<1>16. ASSUME NEW i \in marks
       PROVE  of[i] \in places /\ undone[i] = entry(of[i])
  <2>1. turn(i) \in 1 .. n /\ i = place(turn(i)) /\ pick[turn(i)] \in places
    BY <1>4, <1>11
  <2>2. all[i].step = c[of[i]].step /\ all[i].completed_at = c[of[i]].at
    BY <1>2, <1>8, <2>1
  <2> QED  BY <1>15, <2>1, <2>2
<1>17. of \in Bijection(marks, places)
  <2>1. of \in [marks -> places]
    BY <1>16
  <2>2. \A i, j \in marks : of[i] = of[j] => i = j
    BY <1>4, <1>11
  <2>3. \A p \in places : \E i \in marks : of[i] = p
    <3> SUFFICES ASSUME NEW p \in places PROVE \E i \in marks : of[i] = p
      OBVIOUS
    <3>1. PICK m \in 1 .. n : pick[m] = p
      BY <1>4
    <3>2. place(m) \in marks /\ of[place(m)] = p
      BY <1>9, <1>11, <3>1
    <3> QED  BY <3>2
  <2> HIDE DEF of
  <2> QED  BY <2>1, <2>2, <2>3 DEF Bijection, Injection, Surjection, IsInjective
<1>18. \A i, j \in marks :
          i < j => \/ c[of[i]].at > c[of[j]].at
                   \/ c[of[i]].at = c[of[j]].at /\ of[i] < of[j]
  <2> SUFFICES ASSUME NEW i \in marks, NEW j \in marks, i < j
               PROVE  \/ c[of[i]].at > c[of[j]].at
                      \/ c[of[i]].at = c[of[j]].at /\ of[i] < of[j]
    OBVIOUS
  <2>1. /\ turn(i) \in 1 .. n /\ turn(j) \in 1 .. n /\ turn(i) < turn(j)
    BY <1>10, <1>11
  <2>2. \/ TextRank(c[of[i]].at) > TextRank(c[of[j]].at)
        \/ TextRank(c[of[i]].at) = TextRank(c[of[j]].at) /\ of[i] < of[j]
    BY <1>2, <2>1
  <2>3. c[of[i]].at \in Nat /\ c[of[j]].at \in Nat
    BY <1>1, <1>16, HistoryFacts
  <2>4. \A t \in Nat : TextRank(t) = t
    BY DEF TextRank
  <2> HIDE DEF of
  <2> QED  BY <2>2, <2>3, <2>4
<1> HIDE DEF of
<1>19. \E f \in Bijection(DOMAIN undone, places) :
          /\ \A i \in DOMAIN undone : undone[i] = entry(f[i])
          /\ \A i, j \in DOMAIN undone :
                i < j => \/ c[f[i]].at > c[f[j]].at
                         \/ c[f[i]].at = c[f[j]].at /\ f[i] < f[j]
  BY <1>15, <1>16, <1>17, <1>18
<1> QED  BY <1>8, <1>12, <1>19 DEF all, undone, places, UndoneInOrder

LEMMA Undoing ==
    ASSUME NEW w \in Workflows, NEW u, NEW of \in Bijection(DOMAIN u, Lifecycle!Compensable(w)),
           \A i \in DOMAIN u : u[i] = Done(runs[w])[of[i]],
           \A i, j \in DOMAIN u : i < j => Lifecycle!Before(Done(runs[w]), of[i], of[j])
    PROVE  Lifecycle!Undoes(u, w)
<1>1. [v \in Workflows |-> Shown(runs[v])][w].done = Done(runs[w])
  BY DEF Shown
<1>2. Lifecycle!Bijection(DOMAIN u, Lifecycle!Compensable(w))
        = Bijection(DOMAIN u, Lifecycle!Compensable(w))
  BY DEF Lifecycle!Bijection, Lifecycle!Injection, Lifecycle!Surjection,
         Lifecycle!IsInjective, Bijection, Injection, Surjection, IsInjective
<1> QED  BY <1>1, <1>2 DEF Lifecycle!Undoes

\* What the history of an open run tells is there after it was closed.
Traced(w, c) ==
    /\ c \in Seq(Events) /\ NothingUndone(c)
    /\ DOMAIN runs[w].history \subseteq DOMAIN c
    /\ \A i \in DOMAIN runs[w].history : c[i] = runs[w].history[i]
    /\ \A i \in DOMAIN c \ DOMAIN runs[w].history : c[i].type # "step_completed"
    /\ Lifecycle!Compensable(w) = Completed(w, c)
    /\ \A i \in Completed(w, c) :
            /\ Done(runs[w])[i] = [step |-> c[i].step, at |-> c[i].at]
            /\ Done(runs[w])[i].at = c[i].at

LEMMA ClosedTrace ==
    ASSUME TypeOK, NEW w \in Workflows, NothingUndone(runs[w].history),
           NEW o \in Terminal, NEW at \in Times
    PROVE  Traced(w, Closed(w, o, at))
<1> DEFINE h == runs[w].history
           e == Event(TerminalEvent[o], None, "pending", at)
           c == Closed(w, o, at)
<1>1. h \in Seq(Events)
  BY DEF TypeOK, Runs
<1>2. e \in Events /\ e.type = TerminalEvent[o]
  <2>1. TerminalEvent[o] \in EventTypes
    BY TypeFacts
  <2> QED  BY <2>1, TypeFacts DEF Event, Events
<1>3. c = Append(h, e)
  BY DEF Closed
<1> HIDE DEF e, c
<1>4. /\ c \in Seq(Events) /\ DOMAIN c = DOMAIN h \cup {Len(h) + 1}
      /\ \A i \in DOMAIN h : c[i] = h[i]
      /\ c[Len(h) + 1] = e
  BY <1>1, <1>2, <1>3, OneMore
<1>5. e.type \notin CompensationEvents /\ e.type # "step_completed"
  BY <1>2, TypeFacts
<1>6. NothingUndone(c)
  BY <1>4, <1>5 DEF NothingUndone
<1>7. \A i \in DOMAIN c \ DOMAIN h : c[i].type # "step_completed"
  BY <1>4, <1>5
<1> DEFINE D == {i \in DOMAIN h : h[i].type = "step_completed" /\ h[i].outcome = "succeeded"}
<1>8. Done(runs[w]) = [i \in D |-> [step |-> h[i].step, at |-> h[i].at]]
  BY DEF Done
<1>9. Completed(w, c) = {i \in D : h[i].step \in Targets[w]}
  BY <1>4, <1>7 DEF Completed
<1>10. Lifecycle!Compensable(w) =
        {i \in DOMAIN Done(runs[w]) : Done(runs[w])[i].step \in Targets[w]}
  BY DEF Lifecycle!Compensable, Shown
<1>11. \A i \in D : i \in DOMAIN h
  OBVIOUS
<1> HIDE DEF D
<1>12. Lifecycle!Compensable(w) = Completed(w, c)
  BY <1>8, <1>9, <1>10
<1>13. \A i \in Completed(w, c) :
          /\ Done(runs[w])[i] = [step |-> c[i].step, at |-> c[i].at]
          /\ Done(runs[w])[i].at = c[i].at
  BY <1>4, <1>8, <1>9, <1>11
<1> QED  BY <1>4, <1>6, <1>7, <1>12, <1>13 DEF c, Traced

\* How the promise sees the end of a run.
Ends(w, is, o) ==
    /\ is.phase = o /\ is.done = Done(runs[w])
    /\ IF o \in Triggers[w]
       THEN Lifecycle!Undoes(is.undone, w)
       ELSE is.undone = Lifecycle!Nowhere

LEMMA ClosedEnds ==
    ASSUME TypeOK, NEW w \in Workflows, NothingUndone(runs[w].history),
           NEW o \in Terminal, NEW at \in Times,
           NEW r, r.status = o, r.history = Closed(w, o, at),
           o \in Triggers[w] => Completed(w, Closed(w, o, at)) = {}
    PROVE  Ends(w, Shown(r), o)
<1> DEFINE c == Closed(w, o, at)
           u == Undone(r)
<1>1. /\ DOMAIN runs[w].history \subseteq DOMAIN c /\ NothingUndone(c)
      /\ \A i \in DOMAIN runs[w].history : c[i] = runs[w].history[i]
      /\ \A i \in DOMAIN c \ DOMAIN runs[w].history : c[i].type # "step_completed"
      /\ Lifecycle!Compensable(w) = Completed(w, c)
  BY ClosedTrace DEF Traced
<1>2. Done(r) = Done(runs[w])
  BY <1>1, DoneKept
<1>3. u = Lifecycle!Nowhere
  BY <1>1, NoneUndone
<1>4. DOMAIN u = {}
  BY <1>3 DEF Lifecycle!Nowhere
<1>5. Shown(r).phase = o /\ Shown(r).done = Done(r) /\ Shown(r).undone = u
  BY DEF Shown, Open, Terminal
<1>6. CASE o \in Triggers[w]
  <2>1. Lifecycle!Compensable(w) = {}
    BY <1>1, <1>6
  <2>2. u \in Bijection(DOMAIN u, {})
    BY <1>3, <1>4 DEF Bijection, Injection, Surjection, IsInjective, Lifecycle!Nowhere
  <2>3. Lifecycle!Undoes(u, w)
    BY <1>4, <2>1, <2>2, Undoing
  <2> QED  BY <1>2, <1>5, <1>6, <2>3 DEF Ends
<1>7. CASE o \notin Triggers[w]
  BY <1>2, <1>3, <1>5, <1>7 DEF Ends
<1> QED  BY <1>6, <1>7

\* What ends a run undoes what its trigger set asks for.
LEMMA EndEnds ==
    ASSUME TicksPerSecond = 1, VInv, NEW w \in Workflows, runs[w].status \in Open,
           NEW o \in Terminal, NEW at \in Times
    PROVE  Ends(w, Shown(End(w, o, at)), o)
<1> DEFINE c == Closed(w, o, at)
           completed == Completed(w, c)
           e == End(w, o, at)
           u == Undone(e)
<1>1. TypeOK /\ NothingUndone(runs[w].history)
  BY OpenFacts DEF VInv, TypeOK
<1>2. e.status = o
  BY <1>1, EndFacts
<1>3. /\ c \in Seq(Events)
      /\ e.history = IF o \in Triggers[w] /\ completed # {}
                     THEN c \o Undo(LatestFirst(c, completed), at)
                     ELSE c
  BY <1>1, EndHistory
<1>4. CASE ~(o \in Triggers[w] /\ completed # {})
  <2>1. e.history = c /\ (o \in Triggers[w] => completed = {})
    BY <1>3, <1>4
  <2> QED  BY <1>1, <1>2, <2>1, ClosedEnds
<1>5. CASE o \in Triggers[w] /\ completed # {}
  <2>1. Traced(w, c)
    BY <1>1, ClosedTrace
  <2>2. e.history = c \o Undo(LatestFirst(c, completed), at)
    BY <1>3, <1>5
  <2> HIDE DEF c, e
  <2>3. UndoneInOrder(w, c, e)
    BY <1>3, <2>1, <2>2, CompensationUndoes DEF Traced
  <2>4. Done(e) = Done(runs[w])
    <3>1. \A i \in DOMAIN e.history \ DOMAIN runs[w].history : e.history[i].type # "step_completed"
      BY <2>1, <2>3, TypeFacts DEF Traced, UndoneInOrder
    <3>2. /\ DOMAIN runs[w].history \subseteq DOMAIN e.history
          /\ \A i \in DOMAIN runs[w].history : e.history[i] = runs[w].history[i]
      BY <2>1, <2>3 DEF Traced, UndoneInOrder
    <3> QED  BY <3>1, <3>2, DoneKept
  <2>5. PICK of \in Bijection(DOMAIN u, completed) :
            /\ \A i \in DOMAIN u : u[i] = [step |-> c[of[i]].step, at |-> c[of[i]].at]
            /\ \A i, j \in DOMAIN u :
                    i < j => \/ c[of[i]].at > c[of[j]].at
                             \/ c[of[i]].at = c[of[j]].at /\ of[i] < of[j]
    BY <2>3 DEF UndoneInOrder
  <2>6. \A i \in DOMAIN u : of[i] \in completed
    BY <2>5 DEF Bijection, Injection
  <2>7. \A i \in DOMAIN u : u[i] = Done(runs[w])[of[i]]
    BY <2>1, <2>5, <2>6 DEF Traced
  <2>8. (\A i \in completed : Done(runs[w])[i].at = c[i].at) /\ Lifecycle!Compensable(w) = completed
    BY <2>1 DEF Traced
  <2> HIDE DEF u, completed
  <2>9. \A i, j \in DOMAIN u : i < j => Lifecycle!Before(Done(runs[w]), of[i], of[j])
    BY <2>5, <2>6, <2>8 DEF Lifecycle!Before
  <2>10. Lifecycle!Undoes(u, w)
    BY <2>5, <2>7, <2>8, <2>9, Undoing
  <2>11. Shown(e).phase = o /\ Shown(e).done = Done(e) /\ Shown(e).undone = u
    BY <1>2 DEF Shown, Open, Terminal, u, e
  <2> QED  BY <1>5, <2>4, <2>10, <2>11 DEF Ends, e, u
<1> QED  BY <1>4, <1>5

AllShown == [w \in Workflows |-> Shown(runs[w])]

LEMMA EndedShown ==
    ASSUME NEW w \in Workflows, NEW o \in Terminal, runs[w].status \in Open,
           Ends(w, Shown(runs'[w]), o)
    PROVE  Lifecycle!Ended(w, o)
<1>1. AllShown[w] = Shown(runs[w]) /\ AllShown'[w] = Shown(runs'[w])
  BY DEF AllShown
<1>2. Shown(runs[w]).phase = "open" /\ Shown(runs[w]).done = Done(runs[w])
  BY DEF Shown
<1> DEFINE is == Shown(runs'[w])
<1>3. /\ is.phase = o /\ is.done = Done(runs[w])
      /\ IF o \in Triggers[w]
         THEN Lifecycle!Undoes(is.undone, w)
         ELSE is.undone = Lifecycle!Nowhere
  BY DEF Ends
<1> QED  BY <1>1, <1>2, <1>3 DEF Lifecycle!Ended, AllShown

\* What a report that is taken may say.
LEMMA ReportShown ==
    ASSUME NEW w \in Workflows, NEW r \in Runs, Valid(w, r)
    PROVE  /\ Shown(r).phase = "open" => Shown(r).undone = Lifecycle!Nowhere
           /\ Shown(r).phase # "absent" =>
                \A i \in DOMAIN Shown(r).undone : Shown(r).undone[i].step \in Targets[w]
<1> DEFINE h == r.history
           marks == Positions(h, {"compensation_registered"})
<1>1. /\ Shown(r).phase = IF r.status \in Open THEN "open" ELSE r.status
      /\ Shown(r).undone = Undone(r)
      /\ r.status \in {"absent"} \cup Open \cup Terminal /\ h \in Seq(Events)
  BY DEF Shown, Runs
<1>2. r.status \in Open => Undone(r) = Lifecycle!Nowhere
  BY OpenFacts, NoneUndone
<1>3. ASSUME r.status # "absent", NEW i \in marks PROVE h[i].step \in Targets[w]
  <2>1. i \in DOMAIN h /\ h # <<>>
    BY <1>1, <1>3, HistoryFacts DEF Positions
  <2>2. i \in Positions(h, StepUndoing)
    BY <1>3 DEF Positions, StepUndoing
  <2> QED  BY <1>3, <2>1, <2>2 DEF Valid, Explained
<1>4. /\ DOMAIN Undone(r) = marks
      /\ \A i \in marks : Undone(r)[i].step = h[i].step
  BY DEF Undone
<1>5. Shown(r).phase = "open" => r.status \in Open
  BY <1>1 DEF Open, Terminal
<1>6. Shown(r).phase # "absent" => r.status # "absent"
  BY <1>1 DEF Open
<1> HIDE DEF marks
<1> QED  BY <1>1, <1>2, <1>3, <1>4, <1>5, <1>6

LEMMA ToldStep ==
    ASSUME TicksPerSecond = 1, VInv, [Next]_vars
    PROVE  Lifecycle!Next \/ UNCHANGED <<AllShown, by>>
<1>1. TypeOK /\ runs \in [Workflows -> Runs] /\ clock \in Times
  BY DEF VInv, TypeOK
<1>2. CASE UNCHANGED <<runs, by>>
  BY <1>2 DEF AllShown
<1>3. CASE Orchestrate
  <2>1. PICK report \in Reports :
          \/ /\ \A v \in Workflows : Valid(v, With(report)[v])
             /\ runs' = With(report) /\ by' = "orchestrator"
          \/ UNCHANGED vars
    BY <1>3 DEF Orchestrate, With
  <2>2. CASE /\ \A v \in Workflows : Valid(v, With(report)[v])
             /\ runs' = With(report) /\ by' = "orchestrator"
    <3>1. runs' \in [Workflows -> Runs]
      BY <1>1, <2>2, ReportTaken
    <3>2. ASSUME NEW w \in Workflows
          PROVE  /\ AllShown'[w].phase = "open" => AllShown'[w].undone = Lifecycle!Nowhere
                 /\ AllShown'[w].phase # "absent" =>
                      \A i \in DOMAIN AllShown'[w].undone :
                        AllShown'[w].undone[i].step \in Targets[w]
      <4>1. AllShown'[w] = Shown(runs'[w])
        BY DEF AllShown
      <4>2. runs'[w] \in Runs /\ Valid(w, runs'[w])
        BY <2>2, <3>1
      <4> QED  BY <4>1, <4>2, ReportShown
    <3>3. Lifecycle!Report
      BY <2>2, <3>2 DEF Lifecycle!Report, AllShown
    <3> QED  BY <3>3 DEF Lifecycle!Next
  <2> QED  BY <1>2, <2>1, <2>2 DEF vars
<1>4. ASSUME NEW w \in Workflows, Cancel(w) PROVE Lifecycle!Next
  <2>1. /\ runs[w].status \in Open /\ runs'[w] = End(w, "cancelled", clock)
        /\ \A v \in Workflows \ {w} : runs'[v] = runs[v]
        /\ by' = "control plane"
    BY <1>1, <1>4 DEF Cancel
  <2>2. Ends(w, Shown(runs'[w]), "cancelled")
    BY <1>1, <2>1, EndEnds DEF Terminal
  <2>3. Lifecycle!Ended(w, "cancelled")
    BY <2>1, <2>2, EndedShown DEF Terminal
  <2>4. \A v \in Workflows \ {w} : AllShown'[v] = AllShown[v]
    BY <2>1 DEF AllShown
  <2>5. {w} \in SUBSET Workflows
    OBVIOUS
  <2>6. Lifecycle!End("cancelled")
    BY <2>1, <2>3, <2>4, <2>5 DEF Lifecycle!End, AllShown
  <2> QED  BY <2>6 DEF Lifecycle!Next
<1>5. CASE Reconcile
  <2>1. PICK now \in Times :
          runs' = [w \in Workflows |->
                     IF Overdue(w, now) THEN End(w, "timed_out", now) ELSE runs[w]]
    BY <1>5 DEF Reconcile
  <2>2. by' = "control plane"
    BY <1>5 DEF Reconcile
  <2> DEFINE ended == {w \in Workflows : Overdue(w, now)}
  <2>3. ASSUME NEW w \in ended PROVE Lifecycle!Ended(w, "timed_out")
    <3>1. runs[w].status \in Open /\ runs'[w] = End(w, "timed_out", now)
      BY <2>1 DEF Overdue, Open
    <3>2. Ends(w, Shown(runs'[w]), "timed_out")
      BY <3>1, EndEnds DEF Terminal
    <3> QED  BY <3>1, <3>2, EndedShown DEF Terminal
  <2>4. \A w \in Workflows \ ended : runs'[w] = runs[w]
    BY <2>1
  <2> HIDE DEF ended
  <2>5. \A w \in Workflows \ ended : AllShown'[w] = AllShown[w]
    BY <2>4 DEF AllShown
  <2>6. ended \in SUBSET Workflows
    BY DEF ended
  <2>7. Lifecycle!End("timed_out")
    BY <2>2, <2>3, <2>5, <2>6 DEF Lifecycle!End, AllShown
  <2> QED  BY <2>7 DEF Lifecycle!Next
<1>6. CASE Tick \/ UNCHANGED vars
  BY <1>2, <1>6 DEF Tick, vars
<1> QED  BY <1>3, <1>4, <1>5, <1>6 DEF Next

\* Whatever is reported, coherent or not, a cancellation and a timeout end only
\* runs that are open, and a run that they end for a trigger has every
\* compensable completion of its history undone, as often as it was reported,
\* those of a later instant first and those of one instant in the order in which
\* they were reported, provided timestamps are whole seconds.
THEOREM ImplementsLifecycleCorrect ==
    ASSUME TicksPerSecond = 1 PROVE Spec => ImplementsLifecycle
<1>1. Init => Lifecycle!Init
  <2> SUFFICES ASSUME Init PROVE Lifecycle!Init
    OBVIOUS
  <2>1. runs = [w \in Workflows |-> Absent] /\ by = "orchestrator"
    BY DEF Init
  <2>2. Shown(Absent) = Lifecycle!NoRun
    <3>1. DOMAIN Absent.history = {}
      BY AbsentTyped, EmptySeq, HistoryFacts
    <3>2. Undone(Absent) = Lifecycle!Nowhere
      BY <3>1, NoneUndone DEF NothingUndone
    <3> DEFINE D == {i \in DOMAIN Absent.history : /\ Absent.history[i].type = "step_completed"
                                                   /\ Absent.history[i].outcome = "succeeded"}
    <3>3. D = {}
      BY <3>1
    <3>4. Done(Absent) = [i \in D |-> [step |-> Absent.history[i].step,
                                       at |-> Absent.history[i].at]]
      BY DEF Done
    <3> HIDE DEF D
    <3>5. Done(Absent) = Lifecycle!Nowhere
      BY <3>3, <3>4 DEF Lifecycle!Nowhere
    <3> QED  BY <3>2, <3>5, AbsentTyped DEF Shown, Open, Lifecycle!NoRun
  <2> QED  BY <2>1, <2>2 DEF Lifecycle!Init
<1>2. VInv /\ [Next]_vars =>
        [Lifecycle!Next]_<<[w \in Workflows |-> Shown(runs[w])], by>>
  BY ToldStep DEF AllShown
<1> QED  BY <1>1, <1>2, ValidInit, ValidStep, PTL DEF Spec, ImplementsLifecycle, Lifecycle!Spec
-----------------------------------------------------------------------------
(* WorkflowGraph: the steps that can be reached, and the branches of       *)
(* parallel steps.                                                         *)

\* Closed under the edges that do not lead to a step.
Holds(w, S, stop) == \A x \in S : Edges(w, x) \ {stop} \subseteq S

(***************************************************************************)
(* A closure is the least set that is closed.                              *)
(***************************************************************************)
LEMMA ClosureFacts ==
    ASSUME NEW w, IsFiniteSet(Names(w)), NEW from \in SUBSET Names(w), NEW stop
    PROVE  /\ Closure(w, from, stop) \in SUBSET (Names(w) \ {stop})
           /\ from \ {stop} \subseteq Closure(w, from, stop)
           /\ Holds(w, Closure(w, from, stop), stop)
           /\ \A S \in SUBSET Names(w) :
                from \ {stop} \subseteq S /\ Holds(w, S, stop)
                  => Closure(w, from, stop) \subseteq S
<1> DEFINE N == Names(w) \ {stop}
           n == Cardinality(Names(w))
           all(T) == UNION {Edges(w, s) : s \in T}
           more(T) == T \cup (all(T) \ {stop})
           base == from \ {stop}
           table(f) == [k \in 0 .. n |-> IF k = 0 THEN base ELSE more(f[k - 1])]
           step == [T \in SUBSET Names(w) |-> more(T)]
           S0 == SUBSET Names(w)
<1>a. \A T : \A s \in T : Edges(w, s) \subseteq all(T)
  BY Zenon
<1>b. \A T : \A y \in all(T) : \E s \in T : y \in Edges(w, s)
  BY Zenon
<1>1. n \in Nat
  BY FS_CardinalityType
<1>2. from \ {stop} \in S0 /\ step \in [S0 -> S0] /\ \A T \in S0 : T \subseteq step[T]
  BY DEF Edges
<1>3. PICK g : Repeats(g, S0, from \ {stop}, step, n)
  <2> HIDE DEF step, S0, n
  <2> QED  BY <1>1, <1>2, Repeated, Zenon
<1>4. g \in [0 .. n -> S0] /\ g[0] = from \ {stop} /\ \A k \in 1 .. n : g[k] = step[g[k - 1]]
  BY <1>3 DEF Repeats
<1>5. step[g[n]] = g[n]
  <2> HIDE DEF step
  <2> QED  BY <1>2, <1>3, Settles
<1>6. g = table(g)
  <2>1. ASSUME NEW k \in 1 .. n PROVE g[k] = more(g[k - 1])
    <3>1. g[k - 1] \in S0
      BY <1>1, <1>4
    <3> HIDE DEF more
    <3> QED  BY <1>4, <3>1 DEF step
  <2> HIDE DEF more
  <2> QED  BY <1>1, <1>4, <2>1
<1>7. ASSUME NEW f, f = table(f) PROVE f[n] = g[n]
  <2> DEFINE A == {k \in Nat : k <= n => f[k] = g[k]}
  <2>0. \A r : r = table(r) => r[0] = base /\ \A k \in 1 .. n : r[k] = more(r[k - 1])
    <3> HIDE DEF more, n, base
    <3> QED  BY <1>1
  <2>1. f[0] = base /\ \A k \in 1 .. n : f[k] = more(f[k - 1])
    BY <1>7, <2>0
  <2>2. g[0] = base /\ \A k \in 1 .. n : g[k] = more(g[k - 1])
    BY <1>6, <2>0
  <2> HIDE DEF more, n
  <2>3. 0 \in A
    BY <2>1, <2>2
  <2>4. ASSUME NEW k \in Nat, k \in A PROVE k + 1 \in A
    <3> SUFFICES ASSUME k + 1 <= n PROVE f[k + 1] = g[k + 1]
      OBVIOUS
    <3>1. k + 1 \in 1 .. n /\ (k + 1) - 1 = k /\ k <= n
      BY <1>1
    <3>2. f[k] = g[k]
      BY <2>4, <3>1
    <3> QED  BY <2>1, <2>2, <3>1, <3>2
  <2>5. n \in A
    <3> HIDE DEF A
    <3> QED  BY <1>1, <2>3, <2>4, SetInduction
  <2> QED  BY <1>1, <2>5
<1>8. Closure(w, from, stop) = g[n]
  <2>1. Closure(w, from, stop) = (CHOOSE f : f = table(f))[n]
    BY DEF Closure
  <2> HIDE DEF table
  <2>2. (CHOOSE f : f = table(f)) = table(CHOOSE f : f = table(f))
    BY <1>6, Zenon
  <2> DEFINE c == CHOOSE f : f = table(f)
  <2>3. c = table(c) /\ Closure(w, from, stop) = c[n]
    BY <2>1, <2>2
  <2> HIDE DEF c
  <2> QED  BY <1>7, <2>3
<1>9. \A T \in S0 : step[T] = more(T)
  OBVIOUS
<1>10. Holds(w, g[n], stop)
  <2>1. g[n] \in S0
    BY <1>1, <1>4
  <2>2. more(g[n]) = g[n]
    <3> HIDE DEF more, step
    <3> QED  BY <1>5, <1>9, <2>1
  <2>3. ASSUME NEW s \in g[n] PROVE Edges(w, s) \ {stop} \subseteq more(g[n])
    <3> DEFINE T == g[n]
    <3> HIDE DEF T
    <3> SUFFICES ASSUME NEW y \in Edges(w, s), y # stop PROVE y \in more(T)
      BY DEF T
    <3>1. s \in T
      BY DEF T
    <3>2. y \in all(T)
      BY <3>1, <1>a
    <3> HIDE DEF all
    <3> QED  BY <3>2
  <2> HIDE DEF more
  <2> QED  BY <2>2, <2>3 DEF Holds
<1>11. ASSUME NEW S, from \ {stop} \subseteq S, \A T : T \subseteq S => more(T) \subseteq S
       PROVE  \A k \in 0 .. n : g[k] \subseteq S
  <2> DEFINE A == {k \in Nat : k <= n => g[k] \subseteq S}
  <2> HIDE DEF more, n
  <2>1. 0 \in A
    BY <1>4, <1>11
  <2>2. ASSUME NEW k \in Nat, k \in A PROVE k + 1 \in A
    <3> SUFFICES ASSUME k + 1 <= n PROVE g[k + 1] \subseteq S
      OBVIOUS
    <3>1. k + 1 \in 1 .. n /\ (k + 1) - 1 = k /\ k \in 0 .. n
      BY <1>1
    <3>2. g[k] \subseteq S /\ g[k] \in S0
      BY <1>4, <2>2, <3>1
    <3>3. g[k + 1] = step[g[k]]
      BY <1>4, <3>1
    <3>4. step[g[k]] = more(g[k])
      BY <1>9, <3>2
    <3> QED  BY <1>11, <3>2, <3>3, <3>4
  <2>3. \A k \in Nat : k \in A
    <3> HIDE DEF A
    <3> QED  BY <2>1, <2>2, SetInduction
  <2> QED  BY <2>3
<1>12. from \ {stop} \subseteq g[n]
  <2> DEFINE A == {k \in Nat : k <= n => from \ {stop} \subseteq g[k]}
  <2>0. \A T : T \subseteq more(T)
    OBVIOUS
  <2> HIDE DEF more, n
  <2>1. 0 \in A
    BY <1>4
  <2>2. ASSUME NEW k \in Nat, k \in A PROVE k + 1 \in A
    <3> SUFFICES ASSUME k + 1 <= n PROVE from \ {stop} \subseteq g[k + 1]
      OBVIOUS
    <3>1. k + 1 \in 1 .. n /\ (k + 1) - 1 = k /\ k \in 0 .. n
      BY <1>1
    <3>2. from \ {stop} \subseteq g[k] /\ g[k] \in S0
      BY <1>4, <2>2, <3>1
    <3>3. g[k + 1] = step[g[k]]
      BY <1>4, <3>1
    <3>4. step[g[k]] = more(g[k])
      BY <1>9, <3>2
    <3> QED  BY <2>0, <3>2, <3>3, <3>4
  <2>3. n \in A
    <3> HIDE DEF A
    <3> QED  BY <1>1, <2>1, <2>2, SetInduction
  <2> QED  BY <1>1, <2>3
<1>13. g[n] \in SUBSET N
  <2>1. from \ {stop} \subseteq N
    OBVIOUS
  <2>2. \A T : T \subseteq N => more(T) \subseteq N
    <3> SUFFICES ASSUME NEW T, T \subseteq N, NEW y \in more(T) PROVE y \in N
      OBVIOUS
    <3>1. y \in T \/ \E s \in T : y \in Edges(w, s) /\ y # stop
      <4> HIDE DEF all
      <4> QED  BY <1>b
    <3> QED  BY <3>1 DEF Edges
  <2>3. n \in 0 .. n
    BY <1>1
  <2> HIDE DEF N, more
  <2> QED  BY <1>11, <2>1, <2>2, <2>3
<1>14. ASSUME NEW S \in SUBSET Names(w), from \ {stop} \subseteq S, Holds(w, S, stop)
       PROVE  g[n] \subseteq S
  <2>1. \A T : T \subseteq S => more(T) \subseteq S
    <3> SUFFICES ASSUME NEW T, T \subseteq S, NEW y \in more(T) PROVE y \in S
      OBVIOUS
    <3>1. y \in T \/ \E s \in T : y \in Edges(w, s) /\ y # stop
      <4> HIDE DEF all
      <4> QED  BY <1>b
    <3> QED  BY <1>14, <3>1 DEF Holds
  <2>2. n \in 0 .. n
    BY <1>1
  <2> HIDE DEF more
  <2> QED  BY <1>11, <1>14, <2>1, <2>2
<1> QED  BY <1>8, <1>10, <1>12, <1>13, <1>14

-----------------------------------------------------------------------------
(***************************************************************************)
(* What comes after a step, and the branches of a parallel step.           *)
(***************************************************************************)
After(w, r) == Closure(w, Edges(w, r), NoName)
Branch(w, p, b) == Closure(w, {b}, w.steps[p].join)

IsGraph(w) == IsFiniteSet(Names(w)) /\ NoName \notin Names(w)

LEMMA AfterFacts ==
    ASSUME NEW w, IsGraph(w), NEW r \in Names(w)
    PROVE  /\ After(w, r) \in SUBSET Names(w) /\ Edges(w, r) \subseteq After(w, r)
           /\ \A s \in After(w, r) : /\ Edges(w, s) \subseteq After(w, r)
                                     /\ After(w, s) \subseteq After(w, r)
           /\ \A S \in SUBSET Names(w) :
                Edges(w, r) \subseteq S /\ (\A x \in S : Edges(w, x) \subseteq S)
                  => After(w, r) \subseteq S
<1>1. \A s \in Names(w) : NoName \notin Edges(w, s) /\ Edges(w, s) \in SUBSET Names(w)
  BY DEF IsGraph, Edges
<1>2. \A s \in Names(w) :
        /\ After(w, s) \in SUBSET Names(w) /\ Edges(w, s) \subseteq After(w, s)
        /\ \A x \in After(w, s) : Edges(w, x) \subseteq After(w, s)
        /\ \A S \in SUBSET Names(w) :
             Edges(w, s) \subseteq S /\ (\A x \in S : Edges(w, x) \subseteq S)
               => After(w, s) \subseteq S
  <2> SUFFICES ASSUME NEW s \in Names(w)
               PROVE  /\ After(w, s) \in SUBSET Names(w) /\ Edges(w, s) \subseteq After(w, s)
                      /\ \A x \in After(w, s) : Edges(w, x) \subseteq After(w, s)
                      /\ \A S \in SUBSET Names(w) :
                           Edges(w, s) \subseteq S /\ (\A x \in S : Edges(w, x) \subseteq S)
                             => After(w, s) \subseteq S
    OBVIOUS
  <2> DEFINE E == Edges(w, s)
  <2>1. E \in SUBSET Names(w) /\ E \ {NoName} = E
    BY <1>1
  <2> HIDE DEF E
  <2>2. /\ Closure(w, E, NoName) \in SUBSET (Names(w) \ {NoName})
        /\ E \ {NoName} \subseteq Closure(w, E, NoName)
        /\ Holds(w, Closure(w, E, NoName), NoName)
        /\ \A S \in SUBSET Names(w) :
             E \ {NoName} \subseteq S /\ Holds(w, S, NoName)
               => Closure(w, E, NoName) \subseteq S
    BY <2>1, ClosureFacts DEF IsGraph
  <2>3. \A S \in SUBSET Names(w) : Holds(w, S, NoName) <=> \A x \in S : Edges(w, x) \subseteq S
    BY <1>1 DEF Holds
  <2>4. After(w, s) = Closure(w, E, NoName)
    BY DEF After, E
  <2>5. After(w, s) \in SUBSET Names(w)
    BY <2>2, <2>4
  <2> QED  BY <2>1, <2>2, <2>3, <2>4, <2>5 DEF E
<1>3. \A s \in After(w, r) : After(w, s) \subseteq After(w, r)
  BY <1>2
<1> QED  BY <1>2, <1>3

LEMMA NoWayBack ==
    ASSUME NEW w, IsGraph(w), StepsAcyclic(w), NEW s \in Names(w)
    PROVE  s \notin After(w, s)
<1> SUFFICES ASSUME s \in After(w, s) PROVE FALSE
  OBVIOUS
<1>1. \A r \in Names(w) :
        /\ After(w, r) \in SUBSET Names(w) /\ Edges(w, r) \subseteq After(w, r)
        /\ \A x \in After(w, r) : /\ Edges(w, x) \subseteq After(w, r)
                                  /\ After(w, x) \subseteq After(w, r)
        /\ \A S \in SUBSET Names(w) :
             Edges(w, r) \subseteq S /\ (\A x \in S : Edges(w, x) \subseteq S)
               => After(w, r) \subseteq S
  BY AfterFacts
<1> DEFINE C == {x \in Names(w) : x \in After(w, s) /\ s \in After(w, x)}
<1>2. C \in (SUBSET Names(w)) \ {{}}
  OBVIOUS
<1>3. PICK x \in C : Edges(w, x) \cap C = {}
  <2> HIDE DEF C
  <2>1. Acyclic([y \in Names(w) |-> Edges(w, y)])
    BY DEF StepsAcyclic
  <2> DEFINE g == [y \in Names(w) |-> Edges(w, y)]
  <2>2. DOMAIN g = Names(w) /\ \A y \in Names(w) : g[y] = Edges(w, y)
    OBVIOUS
  <2> HIDE DEF g
  <2>3. \E y \in C : g[y] \cap C = {}
    BY <1>2, <2>1, <2>2 DEF Acyclic, g
  <2> QED  BY <1>2, <2>2, <2>3
<1>4. \E y \in Edges(w, x) : y = s \/ s \in After(w, y)
  <2> DEFINE S == {z \in Names(w) : \E y \in Edges(w, x) : y = z \/ z \in After(w, y)}
  <2>1. Edges(w, x) \subseteq S
    BY DEF Edges
  <2>2. ASSUME NEW z \in S PROVE Edges(w, z) \subseteq S
    <3> SUFFICES ASSUME NEW v \in Edges(w, z) PROVE v \in S
      OBVIOUS
    <3>1. PICK y \in Edges(w, x) : y = z \/ z \in After(w, y)
      OBVIOUS
    <3>2. y \in Names(w) /\ v \in Names(w)
      BY DEF Edges
    <3>3. v \in After(w, y)
      BY <1>1, <3>1, <3>2
    <3> QED  BY <3>2, <3>3
  <2> HIDE DEF S
  <2>3. S \in SUBSET Names(w)
    BY DEF S
  <2>4. After(w, x) \subseteq S
    BY <1>1, <2>1, <2>2, <2>3
  <2>5. s \in S
    BY <2>4
  <2> QED  BY <2>5 DEF S
<1>5. PICK y \in Edges(w, x) : y = s \/ s \in After(w, y)
  BY <1>4
<1>6. y \in Names(w) /\ y \in After(w, s) /\ s \in After(w, y)
  <2>1. y \in Names(w)
    BY DEF Edges
  <2> QED  BY <1>1, <1>5, <2>1
<1> QED  BY <1>3, <1>6

LEMMA BranchFacts ==
    ASSUME NEW w, IsGraph(w), StepsAcyclic(w), Defined(w), Disciplined(w),
           NEW p \in OfType(w, "parallel"), NEW b \in w.steps[p].branches
    PROVE  /\ b \in Edges(w, p) /\ Branch(w, p, b) \subseteq After(w, p)
           /\ w.steps[p].join \notin Branch(w, p, b) /\ p \notin Branch(w, p, b)
           /\ b # w.steps[p].join => b \in Branch(w, p, b)
           /\ \A x \in Branch(w, p, b) :
                \A y \in Edges(w, x) : y \in Branch(w, p, b) \/ y = w.steps[p].join
           /\ \A x \in Branch(w, p, b) :
                \A y \in Names(w) : x \in Edges(w, y) => y \in Branch(w, p, b) \/ y = p
           /\ "failure" \in DOMAIN w.steps[p].on => w.steps[p].on["failure"] \notin Branch(w, p, b)
           /\ \A c \in w.steps[p].branches : c # b => Branch(w, p, b) \cap Branch(w, p, c) = {}
<1> DEFINE j == w.steps[p].join
<1>1. p \in Names(w) /\ \A c \in w.steps[p].branches : c \in Names(w) /\ c \in Edges(w, p)
  BY DEF OfType, Defined, Successors, Edges
<1>2. ASSUME NEW c \in w.steps[p].branches
      PROVE  /\ Branch(w, p, c) \in SUBSET (Names(w) \ {j}) /\ {c} \ {j} \subseteq Branch(w, p, c)
             /\ \A x \in Branch(w, p, c) : Edges(w, x) \ {j} \subseteq Branch(w, p, c)
             /\ \A S \in SUBSET Names(w) :
                  {c} \ {j} \subseteq S /\ (\A x \in S : Edges(w, x) \ {j} \subseteq S)
                    => Branch(w, p, c) \subseteq S
  <2> DEFINE from == {c}
  <2>0. from \in SUBSET Names(w)
    BY <1>1
  <2> HIDE DEF from, j
  <2>1. /\ Closure(w, from, j) \in SUBSET (Names(w) \ {j})
        /\ from \ {j} \subseteq Closure(w, from, j)
        /\ Holds(w, Closure(w, from, j), j)
        /\ \A S \in SUBSET Names(w) :
             from \ {j} \subseteq S /\ Holds(w, S, j) => Closure(w, from, j) \subseteq S
    BY <2>0, ClosureFacts DEF IsGraph
  <2>2. Branch(w, p, c) = Closure(w, from, j)
    BY DEF Branch, from, j
  <2> QED  BY <2>1, <2>2 DEF Holds, from
<1>3. \A r \in Names(w) :
        /\ After(w, r) \in SUBSET Names(w) /\ Edges(w, r) \subseteq After(w, r)
        /\ \A x \in After(w, r) : Edges(w, x) \subseteq After(w, r) /\ After(w, x) \subseteq After(w, r)
        /\ r \notin After(w, r)
  BY AfterFacts, NoWayBack
<1> HIDE DEF j
<1>4. ASSUME NEW c \in w.steps[p].branches
      PROVE  /\ Branch(w, p, c) \subseteq After(w, p) /\ p \notin Branch(w, p, c)
             /\ Branch(w, p, c) \subseteq {c} \cup After(w, c)
  <2>1. Branch(w, p, c) \subseteq After(w, p)
    <3>1. After(w, p) \in SUBSET Names(w) /\ {c} \ {j} \subseteq After(w, p)
          /\ \A x \in After(w, p) : Edges(w, x) \ {j} \subseteq After(w, p)
      BY <1>1, <1>3
    <3> QED  BY <1>2, <3>1
  <2>2. Branch(w, p, c) \subseteq {c} \cup After(w, c)
    <3> DEFINE S == {c} \cup After(w, c)
    <3>1. S \in SUBSET Names(w) /\ {c} \ {j} \subseteq S /\ \A x \in S : Edges(w, x) \ {j} \subseteq S
      BY <1>1, <1>3
    <3> HIDE DEF S
    <3>2. Branch(w, p, c) \subseteq S
      BY <1>2, <3>1
    <3> QED  BY <3>2 DEF S
  <2> QED  BY <1>1, <1>3, <2>1, <2>2
<1>5. ASSUME NEW c \in w.steps[p].branches, NEW x \in Branch(w, p, c), NEW y \in Names(w),
             x \in Edges(w, y)
      PROVE  y \in Branch(w, p, c) \/ y = p
  <2>1. Predecessors(w, x) \subseteq Branch(w, p, c) \cup {p}
    BY DEF Disciplined, Branch
  <2> QED  BY <1>5, <2>1 DEF Predecessors
<1>6. "failure" \in DOMAIN w.steps[p].on => w.steps[p].on["failure"] \notin Branch(w, p, b)
  BY DEF Disciplined, Branch
<1>7. ASSUME NEW c \in w.steps[p].branches, c # b PROVE Branch(w, p, b) \cap Branch(w, p, c) = {}
  <2> DEFINE S == Branch(w, p, b) \ Branch(w, p, c)
  <2>1. b \notin Branch(w, p, c)
    <3> SUFFICES ASSUME b \in Branch(w, p, c) PROVE FALSE
      OBVIOUS
    <3>1. b # j
      BY <1>2
    <3> DEFINE R == {x \in Branch(w, p, c) : x = c \/ \E y \in Branch(w, p, c) : x \in Edges(w, y)}
    <3>2. R \in SUBSET Names(w) /\ {c} \ {j} \subseteq R /\ \A x \in R : Edges(w, x) \ {j} \subseteq R
      BY <1>2
    <3> HIDE DEF R
    <3>3. b \in R
      BY <1>2, <3>2
    <3>4. PICK y \in Branch(w, p, c) : b \in Edges(w, y)
      BY <1>7, <3>3 DEF R
    <3>5. y \in Names(w) /\ y # p
      BY <1>2, <1>4
    <3>6. b \in Branch(w, p, b)
      BY <1>2, <3>1
    <3>7. y \in Branch(w, p, b)
      BY <1>5, <3>4, <3>5, <3>6
    <3>8. y = b \/ y \in After(w, b)
      BY <1>4, <3>7
    <3>9. b \in After(w, b)
      BY <1>1, <1>3, <3>4, <3>8
    <3> QED  BY <1>1, <1>3, <3>9
  <2>2. S \in SUBSET Names(w) /\ {b} \ {j} \subseteq S
    BY <1>2, <2>1
  <2>3. ASSUME NEW x \in S PROVE Edges(w, x) \ {j} \subseteq S
    <3> SUFFICES ASSUME NEW y \in Edges(w, x), y # j, y \in Branch(w, p, c) PROVE FALSE
      BY <1>2
    <3>1. x \in Names(w) /\ x \in Branch(w, p, b) /\ x \notin Branch(w, p, c)
      BY <1>2
    <3>2. x = p
      BY <1>5, <3>1
    <3> QED  BY <1>4, <3>1, <3>2
  <2> HIDE DEF S
  <2>4. Branch(w, p, b) \subseteq S
    BY <1>2, <2>2, <2>3
  <2> QED  BY <2>4 DEF S
<1>8. \A x \in Branch(w, p, b) : \A y \in Edges(w, x) : y \in Branch(w, p, b) \/ y = j
  BY <1>2
<1>9. j \notin Branch(w, p, b) /\ (b # j => b \in Branch(w, p, b))
  BY <1>2
<1> QED  BY <1>1, <1>4, <1>5, <1>6, <1>7, <1>8, <1>9 DEF j

LEMMA StartFacts ==
    ASSUME NEW w, IsGraph(w), StepsAcyclic(w), Defined(w), Disciplined(w), AllReachable(w),
           NEW p \in OfType(w, "parallel"), NEW b \in w.steps[p].branches
    PROVE  w.start \notin Branch(w, p, b)
<1> SUFFICES ASSUME w.start \in Branch(w, p, b) PROVE FALSE
  OBVIOUS
<1> DEFINE s == w.start
           from == {s}
           S == {s} \cup After(w, s)
<1>1. s \in Names(w) /\ p \in Names(w) /\ from \in SUBSET Names(w)
  BY DEF Defined, OfType
<1>2. s \in After(w, p)
  BY BranchFacts
<1>3. \A r \in Names(w) :
        /\ After(w, r) \in SUBSET Names(w) /\ Edges(w, r) \subseteq After(w, r)
        /\ \A x \in After(w, r) : Edges(w, x) \subseteq After(w, r) /\ After(w, x) \subseteq After(w, r)
        /\ r \notin After(w, r)
  BY AfterFacts, NoWayBack
<1>4. Closure(w, from, NoName) = Names(w)
  BY DEF AllReachable
<1>5. S \in SUBSET Names(w) /\ from \ {NoName} \subseteq S /\ Holds(w, S, NoName)
  BY <1>1, <1>3 DEF Holds
<1> HIDE DEF s, from, S
<1>6. Names(w) \subseteq S
  BY <1>1, <1>4, <1>5, ClosureFacts DEF IsGraph
<1>7. p = s \/ p \in After(w, s)
  BY <1>1, <1>6 DEF S
<1> QED  BY <1>1, <1>2, <1>3, <1>7

-----------------------------------------------------------------------------
(***************************************************************************)
(* A location: a token or a step state. Level i of it is the step that its *)
(* i-th frame is inside of, the last level the location's own step.        *)
(***************************************************************************)
StepNames(ws) == UNION {Names(ws[n]) : n \in DOMAIN ws}
Frames(ws) == [wf : DOMAIN ws, step : StepNames(ws), branch : StepNames(ws) \cup {NoName}]
Levels(l) == 1 .. (Len(l.path) + 1)
WfAt(l, i) == IF i <= Len(l.path) THEN l.path[i].wf ELSE l.wf
StepAt(l, i) == IF i <= Len(l.path) THEN l.path[i].step ELSE l.step
At(ws, f) == ws[f.wf].steps[f.step]

\* What is between one level and the next.
Nested(ws, f, inner) ==
    /\ f.branch = NoName => At(ws, f).type = "call" /\ At(ws, f).calls = inner
    /\ f.branch # NoName => At(ws, f).type = "parallel" /\ f.branch \in At(ws, f).branches
                        /\ f.wf = inner
Located(ws, l) ==
    /\ l.path \in Seq(Frames(ws)) /\ WfAt(l, 1) = Main
    /\ \A i \in Levels(l) : WfAt(l, i) \in DOMAIN ws /\ StepAt(l, i) \in Names(ws[WfAt(l, i)])
    /\ \A i \in DOMAIN l.path : Nested(ws, l.path[i], WfAt(l, i + 1))

IsToken(ws, t) ==
    /\ t \in [wf : DOMAIN ws, step : StepNames(ws), path : Seq(Frames(ws)), failing : BOOLEAN]
    /\ Located(ws, t)
IsReached(ws, d) == Located(ws, d) /\ d.run = Run(d)

\* The inductive invariant of NoRecursion: tokens and step states are at
\* locations, and a scenario that runs was accepted.
GraphInv ==
    /\ workflows \in Candidates
    /\ verdict = "accepted" => Accepted(workflows)
    /\ verdict # "accepted" => tokens = {} /\ done = {}
    /\ \A t \in tokens : IsToken(workflows, t)
    /\ \A d \in done : IsReached(workflows, d)

-----------------------------------------------------------------------------
(***************************************************************************)
(* An accepted scenario defines what its steps lead to and call.           *)
(***************************************************************************)
LEMMA AcceptedDefines ==
    ASSUME NEW ws \in Candidates, Accepted(ws), NEW n \in DOMAIN ws, NEW s \in Names(ws[n])
    PROVE  /\ ws[n].start \in Names(ws[n]) /\ NoName \notin Names(ws[n])
           /\ s \in StepNames(ws)
           /\ \A label \in DOMAIN ws[n].steps[s].on : ws[n].steps[s].on[label] \in Edges(ws[n], s)
           /\ ws[n].steps[s].branches \subseteq Edges(ws[n], s)
           /\ Edges(ws[n], s) \subseteq Names(ws[n])
           /\ ws[n].steps[s].type = "call" => ws[n].steps[s].calls \in DOMAIN ws
<1>1. Defined(ws[n]) /\ CallsDefined(ws)
  BY DEF Accepted, CallsAccepted
<1>2. NoName \notin Names(ws[n]) /\ s \in StepNames(ws)
  BY CandidatesOK DEF Names, StepNames
<1>3. Successors(ws[n].steps[s]) \subseteq Names(ws[n]) /\ ws[n].start \in Names(ws[n])
  BY <1>1 DEF Defined
<1>4. ws[n].steps[s].type = "call" => ws[n].steps[s].calls \in DOMAIN ws
  BY <1>1 DEF CallsDefined
<1> QED  BY <1>2, <1>3, <1>4 DEF Successors, Edges

LEMMA LocationFacts ==
    ASSUME NEW ws, NEW l, Located(ws, l)
    PROVE  /\ Len(l.path) \in Nat /\ DOMAIN l.path = 1 .. Len(l.path)
           /\ l.wf \in DOMAIN ws /\ l.step \in Names(ws[l.wf])
           /\ l.path # <<>> => Len(l.path) > 0
           /\ \A i \in DOMAIN l.path : l.path[i] \in Frames(ws)
<1>1. l.path \in Seq(Frames(ws))
  BY DEF Located
<1>2. Len(l.path) \in Nat /\ DOMAIN l.path = 1 .. Len(l.path) /\ (l.path # <<>> => Len(l.path) > 0)
  BY <1>1, LenProperties, EmptySeq
<1>3. Len(l.path) + 1 \in Levels(l) /\ ~(Len(l.path) + 1 <= Len(l.path))
  BY <1>2 DEF Levels
<1>4. WfAt(l, Len(l.path) + 1) = l.wf /\ StepAt(l, Len(l.path) + 1) = l.step
  BY <1>3 DEF WfAt, StepAt
<1>5. l.wf \in DOMAIN ws /\ l.step \in Names(ws[l.wf])
  BY <1>3, <1>4 DEF Located
<1>6. \A i \in DOMAIN l.path : l.path[i] \in Frames(ws)
  BY <1>1, ElementOfSeq, <1>2
<1> QED  BY <1>2, <1>5, <1>6

\* A location may be at any step of its workflow.
LEMMA LocatedBeside ==
    ASSUME NEW ws, NEW l, Located(ws, l), NEW m, m.path = l.path, m.wf = l.wf,
           m.step \in Names(ws[l.wf])
    PROVE  Located(ws, m)
<1>1. Len(l.path) \in Nat /\ DOMAIN l.path = 1 .. Len(l.path) /\ l.wf \in DOMAIN ws
  BY LocationFacts
<1>2. \A i \in Levels(l) : WfAt(m, i) = WfAt(l, i)
  BY DEF WfAt
<1>3. \A i \in Levels(l) : StepAt(m, i) \in Names(ws[WfAt(l, i)])
  <2> SUFFICES ASSUME NEW i \in Levels(l) PROVE StepAt(m, i) \in Names(ws[WfAt(l, i)])
    OBVIOUS
  <2>1. CASE i <= Len(l.path)
    <3>1. StepAt(m, i) = StepAt(l, i)
      BY <2>1 DEF StepAt
    <3> QED  BY <3>1 DEF Located
  <2>2. CASE ~(i <= Len(l.path))
    BY <2>2 DEF StepAt, WfAt
  <2> QED  BY <2>1, <2>2
<1>4. Levels(m) = Levels(l) /\ 1 \in Levels(l) /\ \A i \in DOMAIN l.path : i + 1 \in Levels(l)
  BY <1>1 DEF Levels
<1>5. WfAt(m, 1) = Main /\ \A i \in Levels(m) : WfAt(m, i) \in DOMAIN ws
  BY <1>2, <1>4 DEF Located
<1>6. \A i \in DOMAIN m.path : Nested(ws, m.path[i], WfAt(m, i + 1))
  BY <1>2, <1>4 DEF Located
<1> QED  BY <1>2, <1>3, <1>4, <1>5, <1>6 DEF Located

\* Where a location goes one level deeper.
LEMMA LocatedInside ==
    ASSUME NEW ws, NEW l, Located(ws, l), NEW f \in Frames(ws), f.wf = l.wf, f.step = l.step,
           NEW m, m.path = Append(l.path, f), m.wf \in DOMAIN ws, m.step \in Names(ws[m.wf]),
           Nested(ws, f, m.wf)
    PROVE  Located(ws, m)
<1> DEFINE n == Len(l.path)
<1>1. n \in Nat /\ DOMAIN l.path = 1 .. n
  BY LocationFacts
<1>2. /\ m.path \in Seq(Frames(ws)) /\ Len(m.path) = n + 1
      /\ \A i \in 1 .. n : m.path[i] = l.path[i]
      /\ m.path[n + 1] = f /\ DOMAIN m.path = 1 .. (n + 1)
  <2>1. l.path \in Seq(Frames(ws))
    BY DEF Located
  <2> QED  BY <2>1, <1>1, AppendProperties
<1> HIDE DEF n
<1>3. \A i \in 1 .. (n + 1) : WfAt(m, i) = WfAt(l, i) /\ StepAt(m, i) = StepAt(l, i)
  BY <1>1, <1>2 DEF WfAt, StepAt, n
<1>4. WfAt(m, n + 2) = m.wf /\ StepAt(m, n + 2) = m.step
  BY <1>1, <1>2 DEF WfAt, StepAt
<1>5. Levels(l) = 1 .. (n + 1) /\ Levels(m) = 1 .. (n + 2)
  BY <1>1, <1>2 DEF Levels, n
<1>6. \A i \in Levels(m) : WfAt(m, i) \in DOMAIN ws /\ StepAt(m, i) \in Names(ws[WfAt(m, i)])
  <2> SUFFICES ASSUME NEW i \in Levels(m)
               PROVE  WfAt(m, i) \in DOMAIN ws /\ StepAt(m, i) \in Names(ws[WfAt(m, i)])
    OBVIOUS
  <2>1. CASE i = n + 2
    BY <2>1, <1>4
  <2>2. CASE i # n + 2
    <3>1. i \in 1 .. (n + 1) /\ i \in Levels(l)
      BY <1>1, <1>5, <2>2
    <3> QED  BY <3>1, <1>3 DEF Located
  <2> QED  BY <2>1, <2>2
<1>7. \A i \in DOMAIN m.path : Nested(ws, m.path[i], WfAt(m, i + 1))
  <2> SUFFICES ASSUME NEW i \in 1 .. (n + 1) PROVE Nested(ws, m.path[i], WfAt(m, i + 1))
    BY <1>2
  <2>1. CASE i = n + 1
    <3>1. i + 1 = n + 2
      BY <1>1, <2>1
    <3> QED  BY <1>2, <1>4, <2>1, <3>1
  <2>2. CASE i # n + 1
    <3>1. i \in 1 .. n /\ i + 1 \in 1 .. (n + 1)
      BY <1>1, <2>2
    <3>2. m.path[i] = l.path[i] /\ WfAt(m, i + 1) = WfAt(l, i + 1) /\ i \in DOMAIN l.path
      BY <1>1, <1>2, <1>3, <3>1
    <3> QED  BY <3>2 DEF Located
  <2> QED  BY <2>1, <2>2
<1>8. WfAt(m, 1) = Main
  <2>1. 1 \in 1 .. (n + 1)
    BY <1>1
  <2> QED  BY <2>1, <1>3 DEF Located
<1> QED  BY <1>2, <1>6, <1>7, <1>8 DEF Located

\* What a location is directly inside of.
LEMMA OuterFacts ==
    ASSUME NEW ws, NEW l, Located(ws, l), l.path # <<>>
    PROVE  /\ Outer(l) \in Frames(ws) /\ Nested(ws, Outer(l), l.wf)
           /\ Front(l.path) \in Seq(Frames(ws)) /\ Len(Front(l.path)) = Len(l.path) - 1
           /\ \A i \in 1 .. (Len(l.path) - 1) : Front(l.path)[i] = l.path[i]
           /\ Outer(l).step \in Names(ws[Outer(l).wf]) /\ Outer(l).wf \in DOMAIN ws
<1> DEFINE n == Len(l.path)
<1>1. n \in Nat /\ n > 0 /\ DOMAIN l.path = 1 .. n /\ l.path \in Seq(Frames(ws))
  BY LocationFacts DEF Located
<1>2. n \in DOMAIN l.path /\ n \in Levels(l) /\ l.path[n] \in Frames(ws)
  BY <1>1, LocationFacts DEF Levels
<1>3. WfAt(l, n + 1) = l.wf /\ WfAt(l, n) = l.path[n].wf /\ StepAt(l, n) = l.path[n].step
  BY <1>1 DEF WfAt, StepAt
<1>4. Nested(ws, l.path[n], l.wf)
  BY <1>2, <1>3 DEF Located
<1>5. l.path[n].step \in Names(ws[l.path[n].wf]) /\ l.path[n].wf \in DOMAIN ws
  BY <1>2, <1>3 DEF Located
<1>6. Front(l.path) \in Seq(Frames(ws)) /\ Len(Front(l.path)) = n - 1
      /\ \A i \in 1 .. (n - 1) : Front(l.path)[i] = l.path[i]
  <2>1. 1 \in 1 .. (n + 1) /\ n - 1 \in 1 - 1 .. n
    BY <1>1
  <2>2. SubSeq(l.path, 1, n - 1) \in Seq(Frames(ws)) /\ Len(SubSeq(l.path, 1, n - 1)) = n - 1
        /\ \A i \in 1 .. (n - 1) : SubSeq(l.path, 1, n - 1)[i] = l.path[i]
    BY <1>1, <2>1
  <2>3. Front(l.path) = SubSeq(l.path, 1, n - 1)
    BY DEF Front
  <2> QED  BY <2>2, <2>3
<1> QED  BY <1>2, <1>4, <1>5, <1>6 DEF Outer

LEMMA LocatedAround ==
    ASSUME NEW ws, NEW l, Located(ws, l), l.path # <<>>, NEW m, m.path = Front(l.path),
           m.wf = Outer(l).wf, m.step \in Names(ws[m.wf])
    PROVE  Located(ws, m)
<1> DEFINE n == Len(l.path)
<1>1. n \in Nat /\ n > 0 /\ DOMAIN l.path = 1 .. n
  BY LocationFacts
<1>2. /\ m.path \in Seq(Frames(ws)) /\ Len(m.path) = n - 1
      /\ \A i \in 1 .. (n - 1) : m.path[i] = l.path[i]
      /\ m.wf \in DOMAIN ws /\ m.wf = l.path[n].wf
  BY OuterFacts DEF Outer
<1>a. DOMAIN m.path = 1 .. (n - 1)
  BY <1>2, LenProperties
<1> HIDE DEF n
<1>3. Levels(l) = 1 .. (n + 1) /\ Levels(m) = 1 .. n
  BY <1>1, <1>2 DEF Levels, n
<1>4. \A i \in 1 .. n : WfAt(m, i) = WfAt(l, i)
  BY <1>1, <1>2 DEF WfAt, n
<1>5. \A i \in 1 .. (n - 1) : StepAt(m, i) = StepAt(l, i)
  BY <1>1, <1>2 DEF StepAt, n
<1>6. StepAt(m, n) = m.step /\ WfAt(m, n) = m.wf
  BY <1>1, <1>2 DEF StepAt, WfAt
<1>7. \A i \in Levels(m) : WfAt(m, i) \in DOMAIN ws /\ StepAt(m, i) \in Names(ws[WfAt(m, i)])
  <2> SUFFICES ASSUME NEW i \in 1 .. n
               PROVE  WfAt(m, i) \in DOMAIN ws /\ StepAt(m, i) \in Names(ws[WfAt(m, i)])
    BY <1>3
  <2>1. CASE i = n
    BY <2>1, <1>2, <1>6
  <2>2. CASE i # n
    <3>1. i \in 1 .. (n - 1) /\ i \in Levels(l)
      BY <1>1, <1>3, <2>2
    <3> QED  BY <3>1, <1>4, <1>5 DEF Located
  <2> QED  BY <2>1, <2>2
<1>8. \A i \in DOMAIN m.path : Nested(ws, m.path[i], WfAt(m, i + 1))
  <2> SUFFICES ASSUME NEW i \in 1 .. (n - 1) PROVE Nested(ws, m.path[i], WfAt(m, i + 1))
    BY <1>a
  <2>1. i \in DOMAIN l.path /\ i + 1 \in 1 .. n
    BY <1>1
  <2> QED  BY <2>1, <1>2, <1>4 DEF Located
<1>9. WfAt(m, 1) = Main
  BY <1>1, <1>4 DEF Located
<1> QED  BY <1>2, <1>7, <1>8, <1>9 DEF Located
-----------------------------------------------------------------------------
(***************************************************************************)
(* What control does leaves every token at a step of its workflow.         *)
(***************************************************************************)
Tokens(ws) ==
    [wf : DOMAIN ws, step : StepNames(ws), path : Seq(Frames(ws)), failing : BOOLEAN]

LEMMA TokenAt ==
    ASSUME NEW ws \in Candidates, Accepted(ws), NEW wf, NEW step, NEW path,
           Located(ws, Token(wf, step, path))
    PROVE  IsToken(ws, Token(wf, step, path))
<1> DEFINE m == Token(wf, step, path)
<1>1. m.wf = wf /\ m.step = step /\ m.path = path /\ m.failing = FALSE
  BY DEF Token
<1>2. wf \in DOMAIN ws /\ step \in Names(ws[wf])
  <2>0. Located(ws, m)
    OBVIOUS
  <2> HIDE DEF m
  <2>1. m.wf \in DOMAIN ws /\ m.step \in Names(ws[m.wf])
    BY <2>0, LocationFacts
  <2> QED  BY <1>1, <2>1
<1>3. step \in StepNames(ws)
  BY <1>2 DEF StepNames
<1>4. path \in Seq(Frames(ws))
  BY <1>1 DEF Located
<1> QED  BY <1>2, <1>3, <1>4 DEF IsToken, Token

LEMMA LeaveToken ==
    ASSUME workflows \in Candidates, Accepted(workflows), NEW t \in Tokens(workflows), NEW label,
           NEW path, Located(workflows, [t EXCEPT !.path = path])
    PROVE  IsToken(workflows, Leave(t, label, path))
<1> DEFINE ws == workflows
           here == [t EXCEPT !.path = path]
<1>0. Located(ws, here)
  OBVIOUS
<1>1. here.wf = t.wf /\ here.step = t.step /\ here.path = path
  BY DEF Tokens
<1>2. t.wf \in DOMAIN ws /\ t.step \in Names(ws[t.wf])
  <2> HIDE DEF here
  <2>1. here.wf \in DOMAIN ws /\ here.step \in Names(ws[here.wf])
    BY <1>0, LocationFacts
  <2> QED  BY <1>1, <2>1
<1>3. path \in Seq(Frames(ws))
  BY <1>0, <1>1 DEF Located
<1>4. CASE label \in DOMAIN Step(t).on
  <2> DEFINE m == Token(t.wf, Step(t).on[label], path)
  <2>1. Step(t).on[label] \in Names(ws[t.wf])
    BY <1>2, <1>4, AcceptedDefines DEF Step
  <2>2. m.path = path /\ m.wf = t.wf /\ m.step = Step(t).on[label]
    BY DEF Token
  <2>3. Located(ws, m)
    <3> HIDE DEF m, here
    <3> QED  BY <1>0, <1>1, <2>1, <2>2, LocatedBeside
  <2>4. IsToken(ws, m)
    BY <2>3, TokenAt
  <2>5. Leave(t, label, path) = m
    BY <1>4 DEF Leave
  <2> QED  BY <2>4, <2>5
<1>5. CASE label \notin DOMAIN Step(t).on
  <2> DEFINE m == [t EXCEPT !.path = path, !.failing = TRUE]
  <2>1. m \in Tokens(ws) /\ m.path = path /\ m.wf = t.wf /\ m.step = t.step
    BY <1>3 DEF Tokens
  <2>2. Located(ws, m)
    <3> HIDE DEF m, here
    <3> QED  BY <1>0, <1>1, <1>2, <2>1, LocatedBeside
  <2>3. Leave(t, label, path) = m
    BY <1>5 DEF Leave
  <2> HIDE DEF m
  <2> QED  BY <2>1, <2>2, <2>3 DEF IsToken, Tokens
<1> QED  BY <1>4, <1>5

LEMMA CallerFacts ==
    ASSUME NEW ws \in Candidates, Accepted(ws), NEW t, IsToken(ws, t), t.path # <<>>
    PROVE  /\ Caller(t) \in Tokens(ws) /\ Located(ws, Caller(t))
           /\ Caller(t).path = Front(t.path) /\ Caller(t).wf = Outer(t).wf
           /\ Caller(t).step = Outer(t).step /\ Caller(t).failing = t.failing
<1>1. Located(ws, t) /\ t \in Tokens(ws)
  BY DEF IsToken, Tokens
<1>2. /\ Outer(t) \in Frames(ws) /\ Front(t.path) \in Seq(Frames(ws))
      /\ Outer(t).step \in Names(ws[Outer(t).wf]) /\ Outer(t).wf \in DOMAIN ws
  BY <1>1, OuterFacts
<1> DEFINE m == Caller(t)
<1>3. /\ m \in Tokens(ws) /\ m.path = Front(t.path) /\ m.wf = Outer(t).wf
      /\ m.step = Outer(t).step /\ m.failing = t.failing
  <2>1. Outer(t).step \in StepNames(ws)
    BY <1>2 DEF StepNames
  <2> HIDE DEF m
  <2>2. m = [t EXCEPT !.wf = Outer(t).wf, !.step = Outer(t).step, !.path = Front(t.path)]
    BY DEF m, Caller
  <2> QED  BY <1>1, <1>2, <2>1, <2>2 DEF Tokens
<1>4. Located(ws, m)
  <2> HIDE DEF m
  <2> QED  BY <1>1, <1>2, <1>3, LocatedAround
<1> QED  BY <1>3, <1>4

LEMMA ReachedAt ==
    ASSUME NEW ws, NEW t, Located(ws, t), NEW outcome
    PROVE  IsReached(ws, Reached(t, outcome))
<1> DEFINE d == Reached(t, outcome)
<1>1. /\ d.path = t.path /\ d.wf = t.wf /\ d.step = t.step /\ d.run = Run(t)
      /\ t.step \in Names(ws[t.wf])
  BY LocationFacts DEF Reached
<1>2. Run(d) = Run(t)
  BY <1>1 DEF Run
<1> HIDE DEF d
<1>3. Located(ws, d)
  BY <1>1, LocatedBeside
<1> QED  BY <1>1, <1>2, <1>3 DEF IsReached, d

\* A join belongs to the workflow of the parallel step around it.
LEMMA JoinFacts ==
    ASSUME NEW ws \in Candidates, Accepted(ws), NEW t, IsToken(ws, t), t.path # <<>>,
           Outer(t).branch # NoName
    PROVE  /\ Outer(t).wf = t.wf
           /\ [t EXCEPT !.step = Outer(t).step, !.path = Front(t.path)] = Caller(t)
           /\ Located(ws, [t EXCEPT !.path = Front(t.path)])
<1>1. Located(ws, t) /\ t \in Tokens(ws)
  BY DEF IsToken, Tokens
<1>2. Outer(t).wf = t.wf
  BY <1>1, OuterFacts DEF Nested
<1>3. [t EXCEPT !.step = Outer(t).step, !.path = Front(t.path)] = Caller(t)
  BY <1>1, <1>2 DEF Caller, Tokens
<1> DEFINE m == [t EXCEPT !.path = Front(t.path)]
<1>4. m.path = Front(t.path) /\ m.wf = t.wf /\ m.step = t.step
  BY <1>1 DEF Tokens
<1>5. t.step \in Names(ws[t.wf])
  BY <1>1, LocationFacts
<1>6. Located(ws, m)
  <2> HIDE DEF m
  <2> QED  BY <1>1, <1>2, <1>4, <1>5, LocatedAround
<1> QED  BY <1>2, <1>3, <1>6

LEMMA ForkToken ==
    ASSUME NEW ws \in Candidates, Accepted(ws), NEW t, IsToken(ws, t),
           At(ws, t).type = "parallel", NEW b \in At(ws, t).branches
    PROVE  LET f == [wf |-> t.wf, step |-> t.step, branch |-> b]
           IN  f \in Frames(ws) /\ Located(ws, Token(t.wf, b, Append(t.path, f)))
<1> DEFINE f == [wf |-> t.wf, step |-> t.step, branch |-> b]
           m == Token(t.wf, b, Append(t.path, f))
<1>1. Located(ws, t) /\ t.wf \in DOMAIN ws /\ t.step \in Names(ws[t.wf])
  BY LocationFacts DEF IsToken
<1>2. b \in Names(ws[t.wf]) /\ b # NoName /\ t.step \in StepNames(ws) /\ b \in StepNames(ws)
  <2>1. /\ NoName \notin Names(ws[t.wf]) /\ t.step \in StepNames(ws)
        /\ ws[t.wf].steps[t.step].branches \subseteq Edges(ws[t.wf], t.step)
        /\ Edges(ws[t.wf], t.step) \subseteq Names(ws[t.wf])
    BY <1>1, AcceptedDefines
  <2> QED  BY <1>1, <2>1 DEF At, StepNames
<1>3. f \in Frames(ws) /\ f.wf = t.wf /\ f.step = t.step /\ f.branch = b
  BY <1>1, <1>2 DEF Frames
<1>4. m.path = Append(t.path, f) /\ m.wf = t.wf /\ m.step = b
  BY DEF Token
<1> HIDE DEF f
<1>5. Nested(ws, f, t.wf)
  BY <1>2, <1>3 DEF Nested, At
<1> HIDE DEF m
<1>6. Located(ws, m)
  BY <1>1, <1>2, <1>3, <1>4, <1>5, LocatedInside
<1> QED  BY <1>3, <1>6 DEF m, f

LEMMA CallToken ==
    ASSUME NEW ws \in Candidates, Accepted(ws), NEW t, IsToken(ws, t), At(ws, t).type = "call"
    PROVE  LET f == [wf |-> t.wf, step |-> t.step, branch |-> NoName]
               callee == At(ws, t).calls
           IN  f \in Frames(ws)
                 /\ Located(ws, Token(callee, ws[callee].start, Append(t.path, f)))
<1> DEFINE f == [wf |-> t.wf, step |-> t.step, branch |-> NoName]
           callee == At(ws, t).calls
           m == Token(callee, ws[callee].start, Append(t.path, f))
<1>1. Located(ws, t) /\ t.wf \in DOMAIN ws /\ t.step \in Names(ws[t.wf])
  BY LocationFacts DEF IsToken
<1>2. callee \in DOMAIN ws /\ t.step \in StepNames(ws)
  BY <1>1, AcceptedDefines DEF At
<1>3. f \in Frames(ws) /\ f.wf = t.wf /\ f.step = t.step /\ f.branch = NoName
  BY <1>1, <1>2 DEF Frames
<1>4. m.path = Append(t.path, f) /\ m.wf = callee /\ m.step = ws[callee].start
  BY DEF Token
<1>5. ws[callee].start \in Names(ws[callee])
  <2>1. Defined(ws[callee])
    BY <1>2 DEF Accepted
  <2> QED  BY <2>1 DEF Defined
<1> HIDE DEF f
<1>6. Nested(ws, f, callee)
  BY <1>3 DEF Nested, At
<1> HIDE DEF m, callee
<1>7. Located(ws, m)
  BY <1>1, <1>2, <1>3, <1>4, <1>5, <1>6, LocatedInside
<1> QED  BY <1>3, <1>7 DEF m, f, callee

LEMMA AdvanceLocated ==
    ASSUME GraphInv, NEW t \in tokens, Advance(t)
    PROVE  GraphInv'
<1> DEFINE ws == workflows
<1>1. /\ workflows' = ws /\ verdict' = verdict /\ verdict = "accepted"
      /\ ws \in Candidates /\ Accepted(ws) /\ \A u \in tokens : IsToken(ws, u)
      /\ \A d \in done : IsReached(ws, d)
  BY DEF GraphInv, Advance
<1>2. t \in Tokens(ws) /\ Located(ws, t) /\ IsToken(ws, t)
  BY <1>1 DEF IsToken, Tokens
<1>3. SUFFICES (\A u \in tokens' : IsToken(ws, u)) /\ (\A d \in done' : IsReached(ws, d))
  BY <1>1 DEF GraphInv
<1>4. [t EXCEPT !.path = t.path] = t
  BY <1>2 DEF Tokens
<1>5. \A label : IsToken(ws, Leave(t, label, t.path))
  BY <1>1, <1>2, <1>4, LeaveToken
<1>6. Step(t) = At(ws, t)
  BY DEF Step, At
<1>7. ASSUME t.path # <<>>, NEW label, NEW outcome
      PROVE  /\ IsToken(ws, Leave(Caller(t), label, Front(t.path)))
             /\ IsToken(ws, Leave([Caller(t) EXCEPT !.failing = FALSE], label, Front(t.path)))
             /\ IsReached(ws, Reached(Caller(t), outcome))
  <2>1. /\ Caller(t) \in Tokens(ws) /\ Located(ws, Caller(t))
        /\ Caller(t).path = Front(t.path)
    BY <1>1, <1>2, <1>7, CallerFacts
  <2> DEFINE c == [Caller(t) EXCEPT !.failing = FALSE]
             p == Front(t.path)
  <2>2. /\ c \in Tokens(ws) /\ [Caller(t) EXCEPT !.path = p] = Caller(t)
        /\ [c EXCEPT !.path = p] = c
    BY <2>1 DEF Tokens
  <2>3. c.path = Caller(t).path /\ c.wf = Caller(t).wf /\ c.step = Caller(t).step
    BY <2>1 DEF Tokens
  <2>4. Located(ws, c)
    <3>1. Caller(t).step \in Names(ws[Caller(t).wf])
      BY <2>1, LocationFacts
    <3> HIDE DEF c
    <3> QED  BY <2>1, <2>3, <3>1, LocatedBeside
  <2> HIDE DEF c, p
  <2>5. IsToken(ws, Leave(Caller(t), label, p)) /\ IsToken(ws, Leave(c, label, p))
    BY <1>1, <2>1, <2>2, <2>4, LeaveToken
  <2>6. IsReached(ws, Reached(Caller(t), outcome))
    BY <2>1, ReachedAt
  <2> QED  BY <2>5, <2>6 DEF c, p
<1>8. CASE Execute(t)
  <2>1. \A outcome : IsReached(ws, Reached(t, outcome))
    BY <1>2, ReachedAt
  <2> QED  BY <1>1, <1>5, <1>8, <2>1 DEF Execute
<1>9. CASE Decide(t)
  BY <1>1, <1>5, <1>9 DEF Decide
<1>10. CASE Fork(t)
  <2>1. ASSUME NEW b \in Step(t).branches
        PROVE  IsToken(ws, Token(t.wf, b,
                   Append(t.path, [wf |-> t.wf, step |-> t.step, branch |-> b])))
    <3> DEFINE path == Append(t.path, [wf |-> t.wf, step |-> t.step, branch |-> b])
    <3>1. Located(ws, Token(t.wf, b, path))
      BY <1>1, <1>2, <1>6, <1>10, ForkToken DEF Fork
    <3> HIDE DEF path
    <3>2. IsToken(ws, Token(t.wf, b, path))
      BY <1>1, <3>1, TokenAt
    <3> QED  BY <3>2 DEF path
  <2> QED  BY <1>1, <1>10, <2>1 DEF Fork
<1>11. CASE Converge(t)
  <2>1. t.path # <<>> /\ Outer(t).branch # NoName
    BY <1>11 DEF Converge
  <2>2. /\ Located(ws, [t EXCEPT !.path = Front(t.path)])
        /\ [t EXCEPT !.step = Outer(t).step, !.path = Front(t.path)] = Caller(t)
    BY <1>1, <1>2, <2>1, JoinFacts
  <2>3. IsToken(ws, Leave(t, "next", Front(t.path)))
    BY <1>1, <1>2, <2>2, LeaveToken
  <2>4. IsReached(ws, Reached(Caller(t), "succeeded"))
    BY <1>7, <2>1
  <2>5. /\ tokens' \subseteq tokens \cup {Leave(t, "next", Front(t.path))}
        /\ done' = done \cup {Reached(Caller(t), "succeeded")}
    BY <1>11, <2>2 DEF Converge
  <2> QED  BY <1>1, <2>3, <2>4, <2>5
<1>12. CASE Call(t)
  <2> DEFINE path == Append(t.path, [wf |-> t.wf, step |-> t.step, branch |-> NoName])
             callee == At(ws, t).calls
  <2>1. Located(ws, Token(callee, ws[callee].start, path))
    BY <1>1, <1>2, <1>6, <1>12, CallToken DEF Call
  <2>2. tokens' = (tokens \ {t}) \cup {Token(callee, ws[callee].start, path)} /\ done' = done
    BY <1>6, <1>12 DEF Call
  <2> HIDE DEF path, callee
  <2>3. IsToken(ws, Token(callee, ws[callee].start, path))
    BY <1>1, <2>1, TokenAt
  <2> QED  BY <1>1, <2>2, <2>3
<1>13. CASE EndStep(t)
  BY <1>1, <1>7, <1>13 DEF EndStep
<1>14. CASE t.failing /\ Fail(t)
  <2>1. CASE t.path = <<>>
    BY <1>1, <1>14, <2>1 DEF Fail
  <2>2. CASE t.path # <<>>
    <3> DEFINE p == Front(t.path)
               next == Leave([Caller(t) EXCEPT !.failing = FALSE], "failure", p)
               reached == Reached(Caller(t), "failed")
    <3>1. IsToken(ws, next) /\ IsReached(ws, reached)
      BY <1>7, <2>2
    <3>2. tokens' \subseteq tokens \cup {next} /\ done' = done \cup {reached}
      BY <1>14, <2>2 DEF Fail
    <3> HIDE DEF next, reached
    <3> QED  BY <1>1, <3>1, <3>2
  <2> QED  BY <2>1, <2>2
<1> QED  BY <1>8, <1>9, <1>10, <1>11, <1>12, <1>13, <1>14 DEF Advance

LEMMA LocatedStep == GraphInv /\ [GraphNext]_graphVars => GraphInv'
<1> SUFFICES ASSUME GraphInv, [GraphNext]_graphVars PROVE GraphInv'
  OBVIOUS
<1>1. CASE UNCHANGED graphVars
  BY <1>1 DEF graphVars, GraphInv
<1>2. CASE Validate
  <2>1. CASE Accepted(workflows)
    <3> DEFINE m == Token(Main, workflows[Main].start, <<>>)
    <3>1. Main \in DOMAIN workflows /\ workflows \in Candidates
      BY CandidatesOK DEF GraphInv
    <3>2. workflows[Main].start \in Names(workflows[Main])
      BY <2>1, <3>1 DEF Accepted, Defined
    <3>3. m.path = <<>> /\ m.wf = Main /\ m.step = workflows[Main].start
      BY DEF Token
    <3> HIDE DEF m
    <3>4. Located(workflows, m)
      <4>1. Len(m.path) = 0 /\ DOMAIN m.path = {} /\ m.path \in Seq(Frames(workflows))
        BY <3>3, EmptySeq
      <4>2. Levels(m) = {1} /\ WfAt(m, 1) = Main /\ StepAt(m, 1) = m.step
        BY <3>3, <4>1 DEF Levels, WfAt, StepAt
      <4> QED  BY <3>1, <3>2, <3>3, <4>1, <4>2 DEF Located
    <3>5. IsToken(workflows, m)
      BY <2>1, <3>1, <3>4, TokenAt DEF m
    <3>6. tokens' = {m} /\ verdict' = "accepted" /\ UNCHANGED <<workflows, done>> /\ done = {}
      BY <1>2, <2>1 DEF Validate, GraphInv, m
    <3> QED  BY <2>1, <3>1, <3>5, <3>6 DEF GraphInv
  <2>2. CASE ~Accepted(workflows)
    BY <1>2, <2>2 DEF Validate, GraphInv
  <2> QED  BY <2>1, <2>2
<1>3. CASE \E t \in tokens : Advance(t)
  BY <1>3, AdvanceLocated
<1> QED  BY <1>1, <1>2, <1>3 DEF GraphNext

-----------------------------------------------------------------------------
(***************************************************************************)
(* Between two levels in the same workflow there is no call.               *)
(***************************************************************************)
LEMMA NoReturn ==
    ASSUME NEW ws \in Candidates, Accepted(ws), NEW l, Located(ws, l),
           NEW i \in Levels(l), NEW j \in Levels(l), i < j, WfAt(l, i) = WfAt(l, j)
    PROVE  l.path[i].branch # NoName
<1> SUFFICES ASSUME l.path[i].branch = NoName PROVE FALSE
  OBVIOUS
<1> DEFINE n == Len(l.path)
           S == {WfAt(l, m) : m \in i .. j}
<1>1. n \in Nat /\ DOMAIN l.path = 1 .. n
  BY LocationFacts
<1>a. /\ Levels(l) = 1 .. (n + 1)
      /\ \A m \in 1 .. n : WfAt(l, m) = l.path[m].wf /\ StepAt(l, m) = l.path[m].step
  BY DEF Levels, WfAt, StepAt
<1> HIDE DEF n
<1>2. i \in Nat /\ j \in Nat /\ i >= 1 /\ j <= n + 1
  BY <1>1, <1>a
<1>3. S \subseteq DOMAIN ws /\ S # {}
  <2>1. \A m \in i .. j : m \in Levels(l)
    BY <1>1, <1>a, <1>2
  <2>2. i \in i .. j
    BY <1>2
  <2> QED  BY <2>1, <2>2 DEF Located
<1>4. Acyclic(Calls(ws)) /\ DOMAIN Calls(ws) = DOMAIN ws
  BY DEF Accepted, CallsAccepted, Calls
<1>5. PICK s \in S : Calls(ws)[s] \cap S = {}
  <2> HIDE DEF S
  <2> QED  BY <1>3, <1>4 DEF Acyclic
<1> DEFINE M == {m \in i .. j : WfAt(l, m) = s}
<1>6. ASSUME NEW m \in i .. (j - 1) PROVE
        /\ l.path[m].branch = NoName => WfAt(l, m + 1) \in Calls(ws)[WfAt(l, m)]
        /\ l.path[m].branch # NoName => WfAt(l, m + 1) = WfAt(l, m)
  <2>1. m \in DOMAIN l.path /\ m <= n /\ m \in Levels(l) /\ m + 1 \in Levels(l)
    BY <1>1, <1>a, <1>2
  <2>2. /\ Nested(ws, l.path[m], WfAt(l, m + 1)) /\ WfAt(l, m) \in DOMAIN ws
        /\ WfAt(l, m + 1) \in DOMAIN ws /\ StepAt(l, m) \in Names(ws[WfAt(l, m)])
    BY <2>1 DEF Located
  <2>3. WfAt(l, m) = l.path[m].wf /\ StepAt(l, m) = l.path[m].step
    BY <1>1, <1>a, <2>1
  <2>4. CASE l.path[m].branch # NoName
    BY <2>2, <2>3, <2>4 DEF Nested
  <2>5. CASE l.path[m].branch = NoName
    <3>1. StepAt(l, m) \in OfType(ws[WfAt(l, m)], "call")
      BY <2>2, <2>3, <2>5 DEF Nested, At, OfType
    <3>2. ws[WfAt(l, m)].steps[StepAt(l, m)].calls = WfAt(l, m + 1)
      BY <2>2, <2>3, <2>5 DEF Nested, At
    <3> QED  BY <2>2, <2>5, <3>1, <3>2 DEF Calls
  <2> QED  BY <2>4, <2>5
<1>7. PICK m \in M : \A k \in M : k <= m
  <2>1. M \in SUBSET Int /\ M # {}
    BY <1>2
  <2>2. IsFiniteSet(M)
    <3>1. IsFiniteSet(i .. j) /\ M \in SUBSET (i .. j)
      BY <1>2, FS_Interval
    <3> HIDE DEF M
    <3> QED  BY <3>1, FS_Subset
  <2> HIDE DEF M
  <2> QED  BY <2>1, <2>2, GreatestExists
<1>8. CASE m = j
  <2>1. WfAt(l, i) = s /\ i \in i .. (j - 1) /\ i + 1 \in i .. j
    BY <1>2, <1>7, <1>8
  <2>2. WfAt(l, i + 1) \in Calls(ws)[s] /\ WfAt(l, i + 1) \in S
    BY <1>6, <2>1
  <2> QED  BY <1>5, <2>2
<1>9. CASE m # j
  <2>1. m \in i .. (j - 1) /\ m + 1 \in i .. j /\ WfAt(l, m) = s /\ ~(m + 1 <= m)
    BY <1>2, <1>7, <1>9
  <2>2. WfAt(l, m + 1) \in S
    BY <2>1
  <2>3. WfAt(l, m + 1) # s
    BY <1>7, <2>1
  <2> QED  BY <1>5, <1>6, <2>1, <2>2, <2>3
<1> QED  BY <1>8, <1>9

(***************************************************************************)
(* No workflow is called from within itself: the calls around a token lead *)
(* along the calls between workflows, and the validator accepts no cycle   *)
(* of those.                                                               *)
(***************************************************************************)
THEOREM NoRecursionCorrect == GraphSpec => []NoRecursion
<1>1. GraphInit => GraphInv
  BY DEF GraphInit, GraphInv
<1>2. GraphInv => NoRecursion
  <2> SUFFICES ASSUME GraphInv, NEW t \in tokens, NEW i \in CallsAround(t.path)
               PROVE  /\ t.path[i].wf # t.wf
                      /\ \A k \in CallsAround(t.path) : t.path[k].wf = t.path[i].wf => k = i
    BY DEF NoRecursion
  <2> DEFINE n == Len(t.path)
  <2>1. Located(workflows, t) /\ Accepted(workflows) /\ workflows \in Candidates
    BY DEF GraphInv, IsToken
  <2>2. n \in Nat /\ DOMAIN t.path = 1 .. n
    BY <2>1, LocationFacts
  <2>a. /\ Levels(t) = 1 .. (n + 1) /\ \A k \in 1 .. n : WfAt(t, k) = t.path[k].wf
        /\ ~(n + 1 <= n) => WfAt(t, n + 1) = t.wf
    BY DEF Levels, WfAt
  <2> HIDE DEF n
  <2>3. \A k \in CallsAround(t.path) :
            k \in 1 .. n /\ t.path[k].branch = NoName /\ k \in Levels(t) /\ WfAt(t, k) = t.path[k].wf
    BY <2>2, <2>a DEF CallsAround
  <2>4. n + 1 \in Levels(t) /\ WfAt(t, n + 1) = t.wf
    BY <2>2, <2>a
  <2>5. \A k \in CallsAround(t.path) : \A j \in Levels(t) :
            k < j => WfAt(t, k) # WfAt(t, j)
    BY <2>1, <2>3, NoReturn
  <2>6. t.path[i].wf # t.wf
    <3>1. i < n + 1
      BY <2>2, <2>3
    <3> QED  BY <2>3, <2>4, <2>5, <3>1
  <2>7. ASSUME NEW k \in CallsAround(t.path), t.path[k].wf = t.path[i].wf PROVE k = i
    <3>1. ~(k < i) /\ ~(i < k)
      BY <2>3, <2>5, <2>7
    <3> QED  BY <2>2, <2>3, <3>1
  <2> QED  BY <2>6, <2>7
<1> QED  BY <1>1, <1>2, LocatedStep, PTL DEF GraphSpec

-----------------------------------------------------------------------------
(***************************************************************************)
(* Where a location is in the branches of its workflow: in those of the    *)
(* parallel steps around it and in no others, unless it waits at the join. *)
(***************************************************************************)
Sound(w) ==
    /\ IsGraph(w) /\ StepsAcyclic(w) /\ Defined(w) /\ Disciplined(w)
    /\ AllReachable(w) /\ JoinsOwned(w) /\ \A s \in Names(w) : WellFormed(w.steps[s])

Waits(w, p, s) == s = w.steps[p].join /\ s \in After(w, p)
Placed(ws, path, n, wf, s) ==
    /\ \A m \in 1 .. n : path[m].wf = wf =>
          s \in Branch(ws[wf], path[m].step, path[m].branch) \/ Waits(ws[wf], path[m].step, s)
    /\ \A p \in OfType(ws[wf], "parallel") : \A b \in ws[wf].steps[p].branches :
          s \in Branch(ws[wf], p, b) =>
            \E m \in 1 .. n : path[m] = [wf |-> wf, step |-> p, branch |-> b]
Regions(ws, l) ==
    \A i \in Levels(l) : Placed(ws, l.path, i - 1, WfAt(l, i), StepAt(l, i))

LEMMA AcceptedSound ==
    ASSUME NEW ws \in Candidates, Accepted(ws), NEW n \in DOMAIN ws, Disciplined(ws[n])
    PROVE  Sound(ws[n])
<1>1. IsGraph(ws[n])
  BY CandidatesOK DEF IsGraph, Names
<1> QED  BY <1>1 DEF Sound, Accepted

LEMMA Between ==
    ASSUME NEW ws \in Candidates, Accepted(ws), NEW l, Located(ws, l),
           NEW m \in Levels(l), NEW i \in Levels(l), WfAt(l, m) = WfAt(l, i),
           NEW k \in m .. i
    PROVE  WfAt(l, k) = WfAt(l, i)
<1> DEFINE n == Len(l.path)
           A == {c \in Nat : m + c <= i => WfAt(l, m + c) = WfAt(l, i)}
<1>1. n \in Nat /\ Levels(l) = 1 .. (n + 1) /\ DOMAIN l.path = 1 .. n
  BY LocationFacts DEF Levels
<1>a. \A c \in 1 .. n : WfAt(l, c) = l.path[c].wf
  BY DEF WfAt
<1> HIDE DEF n
<1>2. 0 \in A
  BY <1>1
<1>3. ASSUME NEW c \in Nat, c \in A PROVE c + 1 \in A
  <2> SUFFICES ASSUME m + (c + 1) <= i PROVE WfAt(l, m + (c + 1)) = WfAt(l, i)
    OBVIOUS
  <2>1. /\ m + c \in Levels(l) /\ m + c < i /\ m + c \in DOMAIN l.path
        /\ m + (c + 1) = (m + c) + 1 /\ m + c <= i /\ m + c \in 1 .. n
    BY <1>1
  <2>2. WfAt(l, m + c) = WfAt(l, i)
    BY <1>3, <2>1
  <2>3. l.path[m + c].branch # NoName
    BY <2>1, <2>2, NoReturn
  <2>4. Nested(ws, l.path[m + c], WfAt(l, (m + c) + 1))
    BY <2>1 DEF Located
  <2> QED  BY <1>a, <2>1, <2>2, <2>3, <2>4 DEF Nested
<1>4. k - m \in Nat /\ m + (k - m) = k /\ m + (k - m) <= i
  BY <1>1
<1>5. k - m \in A
  <2> HIDE DEF A
  <2> QED  BY <1>2, <1>3, <1>4, SetInduction
<1> QED  BY <1>4, <1>5

\* The frames in a location's own workflow are branches of parallel steps.
LEMMA LocalFrames ==
    ASSUME NEW ws \in Candidates, Accepted(ws), NEW l, Located(ws, l),
           NEW i \in Levels(l), NEW m \in 1 .. (i - 1), l.path[m].wf = WfAt(l, i)
    PROVE  /\ m \in DOMAIN l.path /\ m \in Levels(l)
           /\ WfAt(l, m) = WfAt(l, i) /\ StepAt(l, m) = l.path[m].step
           /\ l.path[m].branch # NoName
           /\ l.path[m].step \in OfType(ws[WfAt(l, i)], "parallel")
           /\ l.path[m].branch \in ws[WfAt(l, i)].steps[l.path[m].step].branches
           /\ l.path[m] = [wf |-> WfAt(l, i), step |-> l.path[m].step, branch |-> l.path[m].branch]
<1> DEFINE n == Len(l.path)
<1>1. n \in Nat /\ Levels(l) = 1 .. (n + 1) /\ DOMAIN l.path = 1 .. n
  BY LocationFacts DEF Levels
<1>a. \A c \in 1 .. n : WfAt(l, c) = l.path[c].wf /\ StepAt(l, c) = l.path[c].step
  BY DEF WfAt, StepAt
<1> HIDE DEF n
<1>2. m \in DOMAIN l.path /\ m \in Levels(l) /\ m < i /\ m \in 1 .. n
  BY <1>1
<1>3. WfAt(l, m) = WfAt(l, i) /\ StepAt(l, m) = l.path[m].step
  BY <1>a, <1>2
<1>4. l.path[m].branch # NoName
  BY <1>2, <1>3, NoReturn
<1>5. /\ Nested(ws, l.path[m], WfAt(l, m + 1)) /\ StepAt(l, m) \in Names(ws[WfAt(l, m)])
  BY <1>2 DEF Located
<1>6. l.path[m] \in Frames(ws)
  BY <1>2, LocationFacts
<1> QED  BY <1>2, <1>3, <1>4, <1>5, <1>6 DEF Nested, At, OfType, Frames

LEMMA RegionsBeside ==
    ASSUME NEW ws, NEW l, Located(ws, l), Regions(ws, l), NEW m, m.path = l.path, m.wf = l.wf,
           Placed(ws, l.path, Len(l.path), l.wf, m.step)
    PROVE  Regions(ws, m)
<1> DEFINE n == Len(l.path)
<1>1. n \in Nat /\ Levels(l) = 1 .. (n + 1) /\ Levels(m) = 1 .. (n + 1)
  BY LocationFacts DEF Levels
<1>2. \A i \in Levels(l) : /\ WfAt(m, i) = WfAt(l, i)
                           /\ i <= n => StepAt(m, i) = StepAt(l, i)
                           /\ ~(i <= n) => StepAt(m, i) = m.step /\ WfAt(m, i) = l.wf
  BY DEF WfAt, StepAt
<1>3. Placed(ws, l.path, n, l.wf, m.step)
  OBVIOUS
<1> HIDE DEF n
<1> SUFFICES ASSUME NEW i \in Levels(l)
             PROVE  Placed(ws, l.path, i - 1, WfAt(m, i), StepAt(m, i))
  BY <1>1 DEF Regions
<1>4. CASE i <= n
  BY <1>2, <1>4 DEF Regions
<1>5. CASE ~(i <= n)
  <2>1. i - 1 = n
    BY <1>1, <1>5
  <2> QED  BY <1>2, <1>3, <1>5, <2>1
<1> QED  BY <1>4, <1>5

\* What is placed looks at the frames around it only.
LEMMA PlacedAlike ==
    ASSUME NEW ws, NEW path, NEW other, NEW n \in Nat, \A k \in 1 .. n : other[k] = path[k],
           NEW wf, NEW s, Placed(ws, path, n, wf, s)
    PROVE  Placed(ws, other, n, wf, s)
BY DEF Placed

LEMMA RegionsInside ==
    ASSUME NEW ws, NEW l, Located(ws, l), Regions(ws, l), NEW f \in Frames(ws),
           f.wf = l.wf, f.step = l.step,
           NEW m, m.path = Append(l.path, f),
           Placed(ws, m.path, Len(l.path) + 1, m.wf, m.step)
    PROVE  Regions(ws, m)
<1> DEFINE n == Len(l.path)
<1>1. n \in Nat /\ Levels(l) = 1 .. (n + 1)
  BY LocationFacts DEF Levels
<1>2. /\ Len(m.path) = n + 1 /\ m.path[n + 1] = f
      /\ \A i \in 1 .. n : m.path[i] = l.path[i]
  <2>1. l.path \in Seq(Frames(ws))
    BY DEF Located
  <2> QED  BY <2>1, <1>1, AppendProperties
<1>3. Levels(m) = 1 .. ((n + 1) + 1)
  BY <1>2 DEF Levels
<1>4. \A i \in Levels(l) : /\ i <= n => WfAt(l, i) = l.path[i].wf /\ StepAt(l, i) = l.path[i].step
                           /\ ~(i <= n) => WfAt(l, i) = l.wf /\ StepAt(l, i) = l.step
  BY DEF WfAt, StepAt
<1>5. \A i \in Levels(m) :
        /\ i <= n + 1 => WfAt(m, i) = m.path[i].wf /\ StepAt(m, i) = m.path[i].step
        /\ ~(i <= n + 1) => WfAt(m, i) = m.wf /\ StepAt(m, i) = m.step
  BY <1>2 DEF WfAt, StepAt
<1>6. Placed(ws, m.path, n + 1, m.wf, m.step)
  OBVIOUS
<1> HIDE DEF n
<1> SUFFICES ASSUME NEW i \in Levels(m)
             PROVE  Placed(ws, m.path, i - 1, WfAt(m, i), StepAt(m, i))
  BY DEF Regions
<1>7. CASE i = n + 2
  <2>1. i - 1 = n + 1 /\ ~(i <= n + 1)
    BY <1>1, <1>7
  <2> QED  BY <1>5, <1>6, <2>1
<1>8. CASE i # n + 2
  <2>1. i \in Levels(l) /\ i <= n + 1 /\ i - 1 \in Nat /\ \A k \in 1 .. (i - 1) : k \in 1 .. n
    BY <1>1, <1>3, <1>8
  <2>2. WfAt(m, i) = WfAt(l, i) /\ StepAt(m, i) = StepAt(l, i)
    <3>1. CASE i = n + 1
      <4>1. ~(i <= n)
        BY <1>1, <3>1
      <4> QED  BY <1>2, <1>4, <1>5, <2>1, <3>1, <4>1
    <3>2. CASE i # n + 1
      <4>1. i \in 1 .. n /\ i <= n
        BY <1>1, <1>3, <1>8, <3>2
      <4> QED  BY <1>2, <1>4, <1>5, <2>1, <4>1
    <3> QED  BY <3>1, <3>2
  <2>3. Placed(ws, l.path, i - 1, WfAt(l, i), StepAt(l, i))
    BY <2>1 DEF Regions
  <2>4. \A k \in 1 .. (i - 1) : m.path[k] = l.path[k]
    BY <1>2, <2>1
  <2> DEFINE c == i - 1
  <2> HIDE DEF c
  <2>5. Placed(ws, m.path, c, WfAt(l, i), StepAt(l, i))
    <3>1. c \in Nat /\ Placed(ws, l.path, c, WfAt(l, i), StepAt(l, i))
          /\ \A k \in 1 .. c : m.path[k] = l.path[k]
      BY <2>1, <2>3, <2>4 DEF c
    <3> QED  BY <3>1, PlacedAlike
  <2> QED  BY <2>2, <2>5 DEF c
<1> QED  BY <1>7, <1>8

LEMMA RegionsAround ==
    ASSUME NEW ws, NEW l, Located(ws, l), Regions(ws, l), l.path # <<>>,
           NEW m, m.path = Front(l.path), m.wf = Outer(l).wf, m.step = Outer(l).step
    PROVE  Regions(ws, m)
<1> DEFINE n == Len(l.path)
<1>1. n \in Nat /\ n > 0 /\ Levels(l) = 1 .. (n + 1)
  BY LocationFacts DEF Levels
<1>2. /\ Len(m.path) = n - 1 /\ \A i \in 1 .. (n - 1) : m.path[i] = l.path[i]
      /\ m.wf = l.path[n].wf /\ m.step = l.path[n].step
  BY OuterFacts DEF Outer
<1>3. Levels(m) = 1 .. ((n - 1) + 1)
  BY <1>2 DEF Levels
<1>4. \A i \in Levels(l) : i <= n => WfAt(l, i) = l.path[i].wf /\ StepAt(l, i) = l.path[i].step
  BY DEF WfAt, StepAt
<1>5. \A i \in Levels(m) :
        /\ i <= n - 1 => WfAt(m, i) = m.path[i].wf /\ StepAt(m, i) = m.path[i].step
        /\ ~(i <= n - 1) => WfAt(m, i) = m.wf /\ StepAt(m, i) = m.step
  BY <1>2 DEF WfAt, StepAt
<1> HIDE DEF n
<1> SUFFICES ASSUME NEW i \in Levels(m)
             PROVE  Placed(ws, m.path, i - 1, WfAt(m, i), StepAt(m, i))
  BY DEF Regions
<1>6. i \in Levels(l) /\ i <= n /\ i - 1 \in Nat /\ \A k \in 1 .. (i - 1) : k \in 1 .. (n - 1)
  BY <1>1, <1>3
<1>7. WfAt(m, i) = WfAt(l, i) /\ StepAt(m, i) = StepAt(l, i)
  <2>1. CASE i = n
    <3>1. ~(i <= n - 1)
      BY <1>1, <2>1
    <3> QED  BY <1>2, <1>4, <1>5, <1>6, <2>1, <3>1
  <2>2. CASE i # n
    <3>1. i \in 1 .. (n - 1) /\ i <= n - 1
      BY <1>1, <1>3, <2>2
    <3> QED  BY <1>2, <1>4, <1>5, <1>6, <3>1
  <2> QED  BY <2>1, <2>2
<1>8. Placed(ws, l.path, i - 1, WfAt(l, i), StepAt(l, i))
  BY <1>6 DEF Regions
<1> DEFINE c == i - 1
<1>9. c \in Nat /\ Placed(ws, l.path, c, WfAt(l, i), StepAt(l, i))
      /\ \A k \in 1 .. c : m.path[k] = l.path[k]
  BY <1>2, <1>6, <1>8
<1> HIDE DEF c
<1>10. Placed(ws, m.path, c, WfAt(l, i), StepAt(l, i))
  BY <1>9, PlacedAlike
<1> QED  BY <1>7, <1>10 DEF c

\* The scenarios whose steps are reached once.
Orderly(ws) == ws \in Candidates /\ Accepted(ws) /\ \A n \in DOMAIN ws : Disciplined(ws[n])

LEMMA Structure ==
    ASSUME NEW ws, Orderly(ws), NEW n \in DOMAIN ws
    PROVE  /\ Sound(ws[n])
           /\ \A s \in Names(ws[n]) :
                /\ s \notin After(ws[n], s) /\ Edges(ws[n], s) \subseteq After(ws[n], s)
                /\ \A x \in After(ws[n], s) : /\ Edges(ws[n], x) \subseteq After(ws[n], s)
                                              /\ After(ws[n], x) \subseteq After(ws[n], s)
           /\ \A p \in OfType(ws[n], "parallel") :
                /\ p \in Names(ws[n]) /\ ws[n].steps[ws[n].steps[p].join].type = "join"
                /\ \A q \in OfType(ws[n], "parallel") :
                     ws[n].steps[q].join = ws[n].steps[p].join => q = p
<1> DEFINE w == ws[n]
<1>1. Sound(w)
  BY AcceptedSound DEF Orderly
<1> HIDE DEF w
<1>2. \A s \in Names(w) :
        /\ s \notin After(w, s) /\ Edges(w, s) \subseteq After(w, s)
        /\ \A x \in After(w, s) : Edges(w, x) \subseteq After(w, s) /\ After(w, x) \subseteq After(w, s)
  BY <1>1, AfterFacts, NoWayBack DEF Sound
<1>3. ASSUME NEW p \in OfType(w, "parallel")
      PROVE  /\ p \in Names(w) /\ w.steps[w.steps[p].join].type = "join"
             /\ \A q \in OfType(w, "parallel") : w.steps[q].join = w.steps[p].join => q = p
  <2> DEFINE j == w.steps[p].join
  <2>1. j \in OfType(w, "join") /\ Cardinality(Owners(w, j)) = 1
    BY <1>1 DEF Sound, JoinsOwned
  <2>2. IsFiniteSet(Owners(w, j))
    <3>1. Owners(w, j) \in SUBSET Names(w) /\ IsFiniteSet(Names(w))
      BY <1>1 DEF Owners, OfType, Sound, IsGraph
    <3> QED  BY <3>1, FS_Subset
  <2>3. PICK x : Owners(w, j) = {x}
    BY <2>1, <2>2, FS_Singleton
  <2>4. \A q \in OfType(w, "parallel") : w.steps[q].join = j => q \in Owners(w, j)
    BY DEF Owners
  <2> QED  BY <2>1, <2>3, <2>4 DEF OfType
<1> QED  BY <1>1, <1>2, <1>3 DEF w

\* Where a step is that another leads to, within a branch around that.
LEMMA Onwards ==
    ASSUME NEW w, Sound(w), NEW p \in OfType(w, "parallel"), NEW b \in w.steps[p].branches,
           NEW s \in Branch(w, p, b), NEW x \in Edges(w, s)
    PROVE  x \in Branch(w, p, b) \/ Waits(w, p, x)
<1>1. s \in After(w, p) /\ (x \in Branch(w, p, b) \/ x = w.steps[p].join)
  BY BranchFacts DEF Sound
<1>2. p \in Names(w)
  BY DEF OfType
<1>3. x \in After(w, p)
  BY <1>1, <1>2, AfterFacts DEF Sound
<1> QED  BY <1>1, <1>3 DEF Waits

\* A step that a parallel step leads to, or another step, is entered in the branches
\* of the step before.
LEMMA Before ==
    ASSUME NEW w, Sound(w), NEW p \in OfType(w, "parallel"), NEW b \in w.steps[p].branches,
           NEW s \in Names(w), NEW x \in Edges(w, s), x \in Branch(w, p, b)
    PROVE  s \in Branch(w, p, b) \/ s = p
BY BranchFacts DEF Sound

\* The branches around a level that is not a join.
Above(i) == 1 .. (i - 1)
Into(w, f, s) ==
    /\ f.step \in OfType(w, "parallel") /\ f.branch \in w.steps[f.step].branches
    /\ s \in Branch(w, f.step, f.branch)

LEMMA InBranch ==
    ASSUME NEW ws, Orderly(ws), NEW l, Located(ws, l), Regions(ws, l), NEW i \in Levels(l),
           NEW wf, wf = WfAt(l, i), NEW s, s = StepAt(l, i), ws[wf].steps[s].type # "join",
           NEW m \in Above(i), l.path[m].wf = wf
    PROVE  Into(ws[wf], l.path[m], s)
<1> DEFINE w == ws[wf]
<1>1. wf \in DOMAIN ws
  BY DEF Located
<1>2. Placed(ws, l.path, i - 1, wf, s)
  BY DEF Regions
<1>3. s \in Branch(w, l.path[m].step, l.path[m].branch) \/ Waits(w, l.path[m].step, s)
  BY <1>2 DEF Placed, Above
<1>4. /\ l.path[m].step \in OfType(w, "parallel")
      /\ l.path[m].branch \in w.steps[l.path[m].step].branches
      /\ l.path[m] = [wf |-> wf, step |-> l.path[m].step, branch |-> l.path[m].branch]
  BY LocalFrames DEF Orderly, Above
<1>5. w.steps[w.steps[l.path[m].step].join].type = "join"
  BY <1>1, <1>4, Structure
<1>6. ~Waits(w, l.path[m].step, s)
  BY <1>5 DEF Waits
<1> QED  BY <1>3, <1>4, <1>6 DEF Into

-----------------------------------------------------------------------------
(***************************************************************************)
(* Every move of control keeps to the branches.                            *)
(***************************************************************************)
LEMMA LastLevel ==
    ASSUME NEW ws, NEW l, Located(ws, l)
    PROVE  /\ Len(l.path) \in Nat /\ DOMAIN l.path = 1 .. Len(l.path)
           /\ Len(l.path) + 1 \in Levels(l)
           /\ WfAt(l, Len(l.path) + 1) = l.wf /\ StepAt(l, Len(l.path) + 1) = l.step
           /\ (Len(l.path) + 1) - 1 = Len(l.path)
           /\ \A i \in DOMAIN l.path : /\ i \in Levels(l) /\ WfAt(l, i) = l.path[i].wf
                                       /\ StepAt(l, i) = l.path[i].step
           /\ \A i \in Levels(l) : i # Len(l.path) + 1 => i \in DOMAIN l.path
<1>1. Len(l.path) \in Nat /\ DOMAIN l.path = 1 .. Len(l.path)
  BY LocationFacts
<1> QED  BY <1>1 DEF Levels, WfAt, StepAt

LEMMA PlacedNext ==
    ASSUME NEW ws, Orderly(ws), NEW l, Located(ws, l), Regions(ws, l),
           ws[l.wf].steps[l.step].type # "join", NEW x \in Edges(ws[l.wf], l.step),
           l.step \in OfType(ws[l.wf], "parallel") =>
             \A b \in ws[l.wf].steps[l.step].branches : x \notin Branch(ws[l.wf], l.step, b)
    PROVE  Placed(ws, l.path, Len(l.path), l.wf, x)
<1> DEFINE n == Len(l.path)
           w == ws[l.wf]
<1>1. /\ n \in Nat /\ n + 1 \in Levels(l) /\ WfAt(l, n + 1) = l.wf /\ StepAt(l, n + 1) = l.step
      /\ (n + 1) - 1 = n /\ l.wf \in DOMAIN ws /\ l.step \in Names(w)
  BY LastLevel, LocationFacts
<1>2. Placed(ws, l.path, n, l.wf, l.step)
  BY <1>1 DEF Regions
<1>3. Sound(w)
  BY <1>1, Structure
<1> HIDE DEF n
<1>4. ASSUME NEW m \in 1 .. n, l.path[m].wf = l.wf
      PROVE  x \in Branch(w, l.path[m].step, l.path[m].branch) \/ Waits(w, l.path[m].step, x)
  <2>1. /\ l.step \in Branch(w, l.path[m].step, l.path[m].branch)
        /\ l.path[m].step \in OfType(w, "parallel")
        /\ l.path[m].branch \in w.steps[l.path[m].step].branches
    <3> DEFINE i == n + 1
    <3>1. i \in Levels(l) /\ WfAt(l, i) = l.wf /\ StepAt(l, i) = l.step /\ m \in Above(i)
      BY <1>1 DEF Above
    <3> HIDE DEF i
    <3>2. Into(w, l.path[m], l.step)
      BY <1>4, <3>1, InBranch
    <3> QED  BY <3>2 DEF Into
  <2> QED  BY <1>3, <2>1, Onwards
<1>5. ASSUME NEW p \in OfType(w, "parallel"), NEW b \in w.steps[p].branches, x \in Branch(w, p, b)
      PROVE  \E m \in 1 .. n : l.path[m] = [wf |-> l.wf, step |-> p, branch |-> b]
  <2>1. l.step \in Branch(w, p, b) \/ l.step = p
    BY <1>1, <1>3, <1>5, Before
  <2>2. l.step # p
    BY <1>5
  <2> QED  BY <1>2, <2>1, <2>2 DEF Placed
<1> QED  BY <1>4, <1>5 DEF Placed, n

LEMMA PlacedFork ==
    ASSUME NEW ws, Orderly(ws), NEW l, Located(ws, l), Regions(ws, l),
           l.step \in OfType(ws[l.wf], "parallel"), NEW b \in ws[l.wf].steps[l.step].branches,
           NEW f, f = [wf |-> l.wf, step |-> l.step, branch |-> b]
    PROVE  Placed(ws, Append(l.path, f), Len(l.path) + 1, l.wf, b)
<1> DEFINE n == Len(l.path)
           w == ws[l.wf]
           path == Append(l.path, f)
<1>1. /\ n \in Nat /\ n + 1 \in Levels(l) /\ WfAt(l, n + 1) = l.wf /\ StepAt(l, n + 1) = l.step
      /\ (n + 1) - 1 = n /\ l.wf \in DOMAIN ws /\ l.step \in Names(w)
  BY LastLevel, LocationFacts
<1>2. Placed(ws, l.path, n, l.wf, l.step)
  BY <1>1 DEF Regions
<1>3. Sound(w) /\ w.steps[l.step].type # "join"
  BY <1>1, Structure DEF OfType
<1>4. path[n + 1] = f /\ \A m \in 1 .. n : path[m] = l.path[m]
  BY <1>1, AppendProperties DEF Located
<1>5. b \in Edges(w, l.step) /\ b \in After(w, l.step)
      /\ (b \in Branch(w, l.step, b) \/ Waits(w, l.step, b))
  <2>1. b \in Edges(w, l.step) /\ (b # w.steps[l.step].join => b \in Branch(w, l.step, b))
    BY <1>3, BranchFacts DEF Sound
  <2>2. b \in After(w, l.step)
    BY <1>1, <2>1, Structure
  <2> QED  BY <2>1, <2>2 DEF Waits
<1> HIDE DEF n, path
<1>6. ASSUME NEW m \in 1 .. (n + 1), path[m].wf = l.wf
      PROVE  b \in Branch(w, path[m].step, path[m].branch) \/ Waits(w, path[m].step, b)
  <2>1. CASE m = n + 1
    <3>1. path[m].step = l.step /\ path[m].branch = b
      BY <1>4, <2>1
    <3> QED  BY <1>5, <3>1
  <2>2. CASE m # n + 1
    <3>1. m \in 1 .. n /\ path[m] = l.path[m] /\ l.path[m].wf = l.wf
      BY <1>1, <1>4, <1>6, <2>2
    <3>2. /\ l.step \in Branch(w, l.path[m].step, l.path[m].branch)
          /\ l.path[m].step \in OfType(w, "parallel")
          /\ l.path[m].branch \in w.steps[l.path[m].step].branches
      <4> DEFINE i == n + 1
      <4>1. i \in Levels(l) /\ WfAt(l, i) = l.wf /\ StepAt(l, i) = l.step /\ m \in Above(i)
        BY <1>1, <3>1 DEF Above
      <4> HIDE DEF i
      <4>2. Into(w, l.path[m], l.step)
        BY <1>3, <3>1, <4>1, InBranch
      <4> QED  BY <4>2 DEF Into
    <3> QED  BY <1>3, <1>5, <3>1, <3>2, Onwards
  <2> QED  BY <2>1, <2>2
<1>7. ASSUME NEW p \in OfType(w, "parallel"), NEW c \in w.steps[p].branches, b \in Branch(w, p, c)
      PROVE  \E m \in 1 .. (n + 1) : path[m] = [wf |-> l.wf, step |-> p, branch |-> c]
  <2>1. l.step \in Branch(w, p, c) \/ l.step = p
    BY <1>1, <1>3, <1>5, <1>7, Before
  <2>2. CASE l.step \in Branch(w, p, c)
    <3>1. PICK m \in 1 .. n : l.path[m] = [wf |-> l.wf, step |-> p, branch |-> c]
      BY <1>2, <2>2 DEF Placed
    <3>2. m \in 1 .. (n + 1) /\ path[m] = l.path[m]
      BY <1>1, <1>4
    <3> QED  BY <3>1, <3>2
  <2>3. CASE l.step = p
    <3>1. b \in Branch(w, p, b)
      <4>1. b # w.steps[p].join
        BY <1>3, <1>7, BranchFacts DEF Sound
      <4> QED  BY <1>5, <2>3, <4>1 DEF Waits
    <3>2. c = b
      BY <1>3, <1>7, <2>3, <3>1, BranchFacts DEF Sound
    <3>3. n + 1 \in 1 .. (n + 1)
      BY <1>1
    <3> QED  BY <1>4, <2>3, <3>2, <3>3
  <2> QED  BY <2>1, <2>2, <2>3
<1> QED  BY <1>6, <1>7 DEF Placed, n, path

LEMMA PlacedCall ==
    ASSUME NEW ws, Orderly(ws), NEW l, Located(ws, l), l.path # <<>>, Outer(l).branch = NoName,
           l.step = ws[l.wf].start
    PROVE  Placed(ws, l.path, Len(l.path), l.wf, l.step)
<1> DEFINE n == Len(l.path)
<1>1. /\ n \in Nat /\ n > 0 /\ n \in Levels(l) /\ n + 1 \in Levels(l) /\ WfAt(l, n + 1) = l.wf
      /\ l.wf \in DOMAIN ws /\ l.path[n].branch = NoName
      /\ \A m \in 1 .. n : m \in Levels(l) /\ WfAt(l, m) = l.path[m].wf
  <2>1. n \in Nat /\ n > 0
    BY LocationFacts
  <2> QED  BY <2>1, LastLevel, LocationFacts DEF Outer
<1>2. WfAt(l, n) # WfAt(l, n + 1)
  <2> DEFINE i == n + 1
  <2>1. i \in Levels(l) /\ n < i
    BY <1>1
  <2> HIDE DEF i, n
  <2>2. WfAt(l, n) # WfAt(l, i)
    BY <1>1, <2>1, NoReturn DEF Orderly
  <2> QED  BY <2>2 DEF i
<1>3. ASSUME NEW m \in 1 .. n, l.path[m].wf = l.wf PROVE FALSE
  <2> DEFINE i == n + 1
  <2>1. i \in Levels(l) /\ n \in m .. i /\ m \in Levels(l) /\ WfAt(l, m) = WfAt(l, i)
    BY <1>1, <1>3
  <2> HIDE DEF i, n
  <2>2. WfAt(l, n) = WfAt(l, i)
    BY <2>1, Between DEF Orderly
  <2> QED  BY <1>2, <2>2 DEF i
<1>4. \A p \in OfType(ws[l.wf], "parallel") : \A b \in ws[l.wf].steps[p].branches :
        l.step \notin Branch(ws[l.wf], p, b)
  BY <1>1, Structure, StartFacts DEF Sound
<1> QED  BY <1>3, <1>4 DEF Placed

LEMMA PlacedJoin ==
    ASSUME NEW ws, Orderly(ws), NEW l, Located(ws, l), Regions(ws, l), l.path # <<>>,
           Outer(l).branch # NoName, l.step = ws[l.wf].steps[Outer(l).step].join,
           NEW x \in Edges(ws[l.wf], l.step)
    PROVE  /\ Placed(ws, Front(l.path), Len(Front(l.path)), l.wf, x)
           /\ x \in After(ws[l.wf], Outer(l).step)
<1> DEFINE n == Len(l.path)
           w == ws[l.wf]
           p == Outer(l).step
           b == Outer(l).branch
           path == Front(l.path)
<1>1. /\ n \in Nat /\ n > 0 /\ n \in Levels(l) /\ n + 1 \in Levels(l)
      /\ WfAt(l, n + 1) = l.wf /\ StepAt(l, n + 1) = l.step
      /\ l.wf \in DOMAIN ws /\ l.step \in Names(w)
      /\ \A m \in 1 .. n : m \in Levels(l) /\ WfAt(l, m) = l.path[m].wf /\ StepAt(l, m) = l.path[m].step
      /\ Outer(l) = l.path[n] /\ (n + 1) - 1 = n /\ n \in 1 .. n
  <2>1. n \in Nat /\ n > 0 /\ l.wf \in DOMAIN ws /\ l.step \in Names(w)
    BY LocationFacts
  <2>2. Outer(l) = l.path[n]
    BY DEF Outer
  <2>3. /\ 1 .. n = DOMAIN l.path
        /\ n + 1 \in Levels(l) /\ WfAt(l, n + 1) = l.wf /\ StepAt(l, n + 1) = l.step
    BY LastLevel
  <2>4. \A m \in DOMAIN l.path :
          m \in Levels(l) /\ WfAt(l, m) = l.path[m].wf /\ StepAt(l, m) = l.path[m].step
    BY LastLevel
  <2> HIDE DEF n, w
  <2>5. n \in 1 .. n /\ (n + 1) - 1 = n
    BY <2>1
  <2> QED  BY <2>1, <2>2, <2>3, <2>4, <2>5
<1>2. /\ Len(path) = n - 1 /\ \A m \in 1 .. (n - 1) : path[m] = l.path[m]
      /\ Outer(l).wf = l.wf /\ p \in OfType(w, "parallel") /\ b \in w.steps[p].branches
      /\ Outer(l) = [wf |-> l.wf, step |-> p, branch |-> b]
  <2>1. /\ Outer(l) \in Frames(ws) /\ Nested(ws, Outer(l), l.wf) /\ Len(path) = n - 1
        /\ \A m \in 1 .. (n - 1) : path[m] = l.path[m] /\ p \in Names(ws[Outer(l).wf])
    BY OuterFacts
  <2>2. p \in Names(ws[Outer(l).wf])
    BY OuterFacts
  <2> QED  BY <2>1, <2>2 DEF Nested, At, OfType, Frames
<1>3. Sound(w) /\ w.steps[l.step].type = "join" /\ p \in Names(w)
      /\ l.step = w.steps[p].join /\ l.step \notin Branch(w, p, b)
  <2>0. l.step = w.steps[p].join
    OBVIOUS
  <2> HIDE DEF p, b
  <2>1. Sound(w) /\ w.steps[w.steps[p].join].type = "join" /\ p \in Names(w)
    BY <1>1, <1>2, Structure
  <2> QED  BY <1>2, <2>0, <2>1, BranchFacts DEF Sound
<1>4. /\ \A m \in 1 .. n : l.path[m].wf = l.wf =>
            l.step \in Branch(w, l.path[m].step, l.path[m].branch) \/ Waits(w, l.path[m].step, l.step)
      /\ \A q \in OfType(w, "parallel") : \A c \in w.steps[q].branches :
            l.step \in Branch(w, q, c) =>
              \E m \in 1 .. n : l.path[m] = [wf |-> l.wf, step |-> q, branch |-> c]
  <2>1. Placed(ws, l.path, n, l.wf, l.step)
    BY <1>1 DEF Regions
  <2> QED  BY <2>1 DEF Placed
<1>5. /\ x \in Edges(w, l.step)
      /\ \A y \in After(w, p) : Edges(w, y) \subseteq After(w, p)
      /\ \A q \in OfType(w, "parallel") : w.steps[q].join = w.steps[p].join => q = p
  BY <1>1, <1>2, <1>3, Structure
<1>6. ASSUME NEW m \in 1 .. n, m # n, l.path[m].wf = l.wf, NEW q, q = l.path[m].step,
             NEW c, c = l.path[m].branch
      PROVE  p \in Branch(w, q, c) /\ q \in OfType(w, "parallel") /\ c \in w.steps[q].branches
  <2>1. m \in Above(n) /\ n \in Levels(l) /\ WfAt(l, m) = l.wf /\ WfAt(l, n) = l.wf /\ StepAt(l, n) = p
    <3> HIDE DEF n, w, b
    <3> QED  BY <1>1, <1>2, <1>6 DEF Above, p
  <2>2. w.steps[p].type # "join"
    BY <1>2 DEF OfType
  <2>3. Into(w, l.path[m], p)
    BY <1>6, <2>1, <2>2, InBranch
  <2> QED  BY <1>6, <2>3 DEF Into
<1> HIDE DEF n, path, w, p, b
<1>7. l.path[n].wf = l.wf /\ l.path[n].step = p /\ l.path[n].branch = b
  BY <1>1, <1>2
<1>8. l.step \in After(w, p) /\ x \in After(w, p)
  <2>1. Waits(w, p, l.step)
    BY <1>1, <1>3, <1>4, <1>7
  <2> QED  BY <1>5, <2>1 DEF Waits
<1>9. ASSUME NEW m \in 1 .. (n - 1), path[m].wf = l.wf
      PROVE  x \in Branch(w, path[m].step, path[m].branch) \/ Waits(w, path[m].step, x)
  <2> DEFINE q == l.path[m].step
             c == l.path[m].branch
  <2>1. m \in 1 .. n /\ m # n /\ path[m] = l.path[m] /\ l.path[m].wf = l.wf
    BY <1>1, <1>2, <1>9
  <2>2. p \in Branch(w, q, c) /\ q \in OfType(w, "parallel") /\ c \in w.steps[q].branches
    BY <1>6, <2>1
  <2>3. l.step \in Branch(w, q, c) \/ Waits(w, q, l.step)
    BY <1>4, <2>1
  <2>4. path[m].step = q /\ path[m].branch = c
    BY <2>1
  <2> HIDE DEF q, c
  <2>5. q \notin Branch(w, q, c)
    BY <1>3, <2>2, BranchFacts DEF Sound
  <2>6. ~ Waits(w, q, l.step)
    <3> SUFFICES ASSUME Waits(w, q, l.step) PROVE FALSE
      OBVIOUS
    <3>1. w.steps[q].join = w.steps[p].join
      BY <1>3 DEF Waits
    <3> QED  BY <1>5, <2>2, <2>5, <3>1
  <2>7. l.step \in Names(w)
    BY <1>1
  <2> QED  BY <1>3, <1>5, <2>2, <2>3, <2>4, <2>6, <2>7, Onwards
<1>10. ASSUME NEW q \in OfType(w, "parallel"), NEW c \in w.steps[q].branches, x \in Branch(w, q, c)
       PROVE  \E m \in 1 .. (n - 1) : path[m] = [wf |-> l.wf, step |-> q, branch |-> c]
  <2>1. l.step \in Branch(w, q, c) \/ l.step = q
    BY <1>1, <1>3, <1>5, <1>10, Before
  <2>2. l.step # q
    BY <1>3 DEF OfType
  <2>3. PICK m \in 1 .. n : l.path[m] = [wf |-> l.wf, step |-> q, branch |-> c]
    BY <1>4, <2>1, <2>2
  <2>4. m # n
    <3> SUFFICES ASSUME m = n PROVE FALSE
      OBVIOUS
    <3>1. q = p /\ c = b
      BY <1>7, <2>3
    <3> QED  BY <1>3, <2>1, <2>2, <3>1
  <2>5. m \in 1 .. (n - 1) /\ path[m] = l.path[m]
    BY <1>1, <1>2, <2>4
  <2> QED  BY <2>3, <2>5
<1>11. Placed(ws, path, n - 1, l.wf, x)
  BY <1>9, <1>10 DEF Placed, w
<1> QED  BY <1>2, <1>8, <1>11 DEF path, n, w, p

(***************************************************************************)
(* Two locations whose frames agree up to a level are in one workflow      *)
(* there.                                                                  *)
(***************************************************************************)
Agree(p, q, i) == \A k \in 1 .. (i - 1) : p[k] = q[k]

LEMMA SameWf ==
    ASSUME NEW ws, NEW d, Located(ws, d), NEW e, Located(ws, e),
           NEW i \in Levels(d), i \in Levels(e), Agree(d.path, e.path, i)
    PROVE  WfAt(d, i) = WfAt(e, i)
<1>1. /\ Len(d.path) \in Nat /\ DOMAIN d.path = 1 .. Len(d.path)
      /\ Len(e.path) \in Nat /\ DOMAIN e.path = 1 .. Len(e.path)
  BY LocationFacts
<1>2. CASE i = 1
  BY <1>2 DEF Located
<1>3. CASE i # 1
  <2> DEFINE k == i - 1
  <2>1. k \in 1 .. (i - 1) /\ k \in DOMAIN d.path /\ k \in DOMAIN e.path /\ k + 1 = i
    BY <1>1, <1>3 DEF Levels
  <2> HIDE DEF k
  <2>2. d.path[k] = e.path[k]
    BY <2>1 DEF Agree
  <2>3. Nested(ws, d.path[k], WfAt(d, i)) /\ Nested(ws, d.path[k], WfAt(e, i))
    BY <2>1, <2>2 DEF Located
  <2> QED  BY <2>3 DEF Nested
<1> QED  BY <1>2, <1>3

\* The step of a level is in the branch of an earlier level of its workflow.
Parts(w, d, e, i, a) ==
    /\ i < a /\ i \in DOMAIN d.path /\ i \in DOMAIN e.path
    /\ d.path[i] = e.path[i] \/ e.path[i].step \in After(w, d.path[i].step)

LEMMA Diverge ==
    ASSUME NEW ws, Orderly(ws), NEW d, Located(ws, d), Regions(ws, d),
           NEW e, Located(ws, e), Regions(ws, e), NEW i, i \in Levels(d), i \in Levels(e),
           Agree(d.path, e.path, i), NEW wf, wf = WfAt(d, i), wf = WfAt(e, i),
           NEW a, a \in Levels(d), i <= a, wf = WfAt(d, a),
           NEW b, b \in Levels(e), i < b, wf = WfAt(e, b),
           NEW s, s = StepAt(d, a), s = StepAt(e, b), ws[wf].steps[s].type # "join"
    PROVE  Parts(ws[wf], d, e, i, a)
<1> DEFINE w == ws[wf]
           nd == Len(d.path)
           ne == Len(e.path)
<1>0. wf \in DOMAIN ws
  BY DEF Located
<1>1. /\ nd \in Nat /\ DOMAIN d.path = 1 .. nd /\ Levels(d) = 1 .. (nd + 1)
      /\ ne \in Nat /\ DOMAIN e.path = 1 .. ne /\ Levels(e) = 1 .. (ne + 1)
      /\ \A k \in 1 .. nd : WfAt(d, k) = d.path[k].wf /\ StepAt(d, k) = d.path[k].step
      /\ \A k \in 1 .. ne : WfAt(e, k) = e.path[k].wf /\ StepAt(e, k) = e.path[k].step
  BY LastLevel DEF Levels
<1> HIDE DEF nd, ne, w
<1>2. i \in 1 .. ne /\ e.path[i].wf = wf /\ StepAt(e, i) = e.path[i].step
  <2>1. i \in 1 .. (ne + 1) /\ b \in 1 .. (ne + 1)
    BY <1>1
  <2>2. i \in 1 .. ne
    BY <1>1, <2>1
  <2> QED  BY <1>1, <2>2
<1> DEFINE f == e.path[i]
<1>3. /\ f.step \in OfType(w, "parallel") /\ f.branch \in w.steps[f.step].branches
      /\ s \in Branch(w, f.step, f.branch)
  <2>1. i \in Above(b)
    BY <1>1 DEF Above
  <2>2. Into(ws[wf], e.path[i], s)
    BY <1>2, <2>1, InBranch
  <2> QED  BY <2>2 DEF Into, w
<1>4. f = [wf |-> wf, step |-> f.step, branch |-> f.branch]
  <2>1. i \in 1 .. (b - 1) /\ e.path[i].wf = WfAt(e, b)
    BY <1>1, <1>2
  <2> QED  BY <2>1, LocalFrames DEF Orderly
<1>5. f.step \notin Branch(w, f.step, f.branch)
  <2>1. Sound(w)
    BY <1>0, Structure DEF w
  <2> HIDE DEF f
  <2> QED  BY <1>3, <2>1, BranchFacts DEF Sound
<1>6. w.steps[f.step].type # "join"
  BY <1>3 DEF OfType
<1>7. PICK m \in 1 .. (a - 1) : d.path[m] = f
  <2>1. Placed(ws, d.path, a - 1, wf, s)
    BY DEF Regions
  <2> HIDE DEF f
  <2> QED  BY <1>3, <1>4, <2>1 DEF Placed, w
<1>8. m \in 1 .. nd /\ WfAt(d, m) = wf /\ StepAt(d, m) = f.step /\ m \in Levels(d)
  <2>1. m \in 1 .. nd /\ m \in Levels(d)
    BY <1>1
  <2> QED  BY <1>1, <1>2, <1>7, <2>1
<1>9. m >= i
  <2> SUFFICES ASSUME m < i PROVE FALSE
    BY <1>1
  <2>1. m \in 1 .. (i - 1) /\ m \in Above(i)
    BY <1>1 DEF Above
  <2>2. e.path[m] = f
    BY <1>7, <2>1 DEF Agree
  <2>3. Into(ws[wf], e.path[m], f.step)
    <3> DEFINE p == f.step
    <3>1. ws[wf].steps[p].type # "join" /\ p = StepAt(e, i) /\ e.path[m].wf = wf
      BY <1>2, <1>6, <2>2 DEF w
    <3> HIDE DEF p, f
    <3>2. Into(ws[wf], e.path[m], p)
      BY <2>1, <3>1, InBranch
    <3> QED  BY <3>2 DEF p
  <2> QED  BY <1>5, <2>2, <2>3 DEF Into, w
<1>10. i < a /\ i \in 1 .. nd
  BY <1>1, <1>8, <1>9
<1>11. CASE m = i
  BY <1>1, <1>2, <1>7, <1>10, <1>11 DEF Parts
<1>12. CASE m # i
  <2>1. i \in Above(m) /\ d.path[i].wf = wf
    <3>1. i \in 1 .. (m - 1)
      BY <1>1, <1>8, <1>9, <1>10, <1>12
    <3> QED  BY <1>1, <1>10, <3>1 DEF Above
  <2>2. Into(ws[wf], d.path[i], f.step)
    <3> DEFINE p == f.step
    <3>1. ws[wf].steps[p].type # "join" /\ p = StepAt(d, m) /\ wf = WfAt(d, m)
      BY <1>6, <1>8 DEF w
    <3> HIDE DEF p, f
    <3>2. Into(ws[wf], d.path[i], p)
      BY <1>8, <2>1, <3>1, InBranch
    <3> QED  BY <3>2 DEF p
  <2>3. f.step \in After(w, d.path[i].step)
    <3>1. Sound(w)
      BY <1>0, Structure DEF w
    <3> QED  BY <2>2, <3>1, BranchFacts DEF Into, Sound, w
  <2> QED  BY <1>1, <1>2, <1>10, <2>3 DEF w, Parts
<1> QED  BY <1>11, <1>12 DEF Parts

\* The last level of a location in a workflow: its own or a call.
LEMMA LastIn ==
    ASSUME NEW ws, Orderly(ws), NEW d, Located(ws, d), NEW i \in Levels(d), WfAt(d, i) # d.wf
    PROVE  \E a \in DOMAIN d.path : /\ i <= a /\ d.path[a].wf = WfAt(d, i)
                                    /\ d.path[a].branch = NoName
<1> DEFINE n == Len(d.path)
<1>1. /\ n \in Nat /\ DOMAIN d.path = 1 .. n /\ Levels(d) = 1 .. (n + 1)
      /\ WfAt(d, n + 1) = d.wf
      /\ \A k \in 1 .. n : WfAt(d, k) = d.path[k].wf
  BY LastLevel DEF Levels
<1> HIDE DEF n
<1> DEFINE M == {m \in i .. (n + 1) : WfAt(d, m) = WfAt(d, i)}
<1>2. PICK a \in M : \A k \in M : k <= a
  <2>1. M \in SUBSET Int /\ M # {}
    BY <1>1
  <2>2. IsFiniteSet(M)
    <3>1. IsFiniteSet(i .. (n + 1)) /\ M \in SUBSET (i .. (n + 1))
      BY <1>1, FS_Interval
    <3> HIDE DEF M
    <3> QED  BY <3>1, FS_Subset
  <2> HIDE DEF M
  <2> QED  BY <2>1, <2>2, GreatestExists
<1>3. a # n + 1
  BY <1>1, <1>2
<1>4. a \in 1 .. n /\ i <= a /\ a + 1 \in i .. (n + 1) /\ ~(a + 1 <= a)
  BY <1>1, <1>2, <1>3
<1>5. WfAt(d, a + 1) # WfAt(d, i)
  BY <1>2, <1>4
<1>6. Nested(ws, d.path[a], WfAt(d, a + 1))
  BY <1>1, <1>4 DEF Located
<1>7. d.path[a].wf = WfAt(d, i)
  BY <1>1, <1>2, <1>4
<1>8. d.path[a].branch = NoName
  BY <1>5, <1>6, <1>7 DEF Nested
<1> QED  BY <1>1, <1>4, <1>7, <1>8

(***************************************************************************)
(* Two locations at one step of one run took the same way there.           *)
(***************************************************************************)
LEMMA SamePath ==
    ASSUME NEW ws, Orderly(ws), NEW d, Located(ws, d), Regions(ws, d),
           NEW e, Located(ws, e), Regions(ws, e), Run(d) = Run(e), d.wf = e.wf, d.step = e.step,
           ws[d.wf].steps[d.step].type # "join"
    PROVE  d.path = e.path
<1> DEFINE nd == Len(d.path)
           ne == Len(e.path)
           Differ(k) == k \notin DOMAIN d.path \/ k \notin DOMAIN e.path \/ d.path[k] # e.path[k]
           S == {k \in Levels(d) \cap Levels(e) : Differ(k)}
<1>1. /\ nd \in Nat /\ DOMAIN d.path = 1 .. nd /\ Levels(d) = 1 .. (nd + 1)
      /\ ne \in Nat /\ DOMAIN e.path = 1 .. ne /\ Levels(e) = 1 .. (ne + 1)
      /\ nd + 1 \in Levels(d) /\ WfAt(d, nd + 1) = d.wf /\ StepAt(d, nd + 1) = d.step
      /\ ne + 1 \in Levels(e) /\ WfAt(e, ne + 1) = e.wf /\ StepAt(e, ne + 1) = e.step
      /\ \A k \in 1 .. nd : WfAt(d, k) = d.path[k].wf /\ StepAt(d, k) = d.path[k].step
      /\ \A k \in 1 .. ne : WfAt(e, k) = e.path[k].wf /\ StepAt(e, k) = e.path[k].step
  BY LastLevel DEF Levels
<1>2. d.path \in Seq(Frames(ws)) /\ e.path \in Seq(Frames(ws)) /\ Len(d.path) = nd /\ Len(e.path) = ne
  BY DEF Located
<1> HIDE DEF nd, ne
<1>3. PICK i \in S : \A k \in S : i <= k
  <2>1. S \in SUBSET Int /\ S # {}
    <3>1. S \subseteq Levels(d) /\ Levels(d) \subseteq Int
      BY <1>1
    <3>2. nd + 1 \notin DOMAIN d.path /\ ne + 1 \notin DOMAIN e.path
      BY <1>1
    <3>3. nd + 1 \in Levels(e) \/ ne + 1 \in Levels(d)
      BY <1>1
    <3>4. nd + 1 \in S \/ ne + 1 \in S
      BY <1>1, <3>2, <3>3
    <3> HIDE DEF S
    <3> QED  BY <3>1, <3>4
  <2>2. S \subseteq Nat
    BY <1>1
  <2> HIDE DEF S
  <2> QED  BY <2>1, <2>2, MinIsLeast
<1>4. i \in Levels(d) /\ i \in Levels(e) /\ Differ(i)
  BY <1>3
<1>5. Agree(d.path, e.path, i)
  <2> SUFFICES ASSUME NEW k \in 1 .. (i - 1), d.path[k] # e.path[k] PROVE FALSE
    BY DEF Agree
  <2>1. k \in S /\ ~(i <= k)
    BY <1>1, <1>4
  <2> QED  BY <1>3, <2>1
<1> HIDE DEF S
<1> DEFINE wf == WfAt(d, i)
<1>6. WfAt(e, i) = wf
  BY <1>4, <1>5, SameWf
<1>7. wf \in DOMAIN ws
  BY <1>4 DEF Located
<1> HIDE DEF wf, Differ
\* A level of each at one step, with the same frame if any.
<1>8. \E a \in Levels(d) : \E b \in Levels(e) : \E s :
        /\ i <= a /\ i <= b /\ wf = WfAt(d, a) /\ wf = WfAt(e, b)
        /\ s = StepAt(d, a) /\ s = StepAt(e, b) /\ ws[wf].steps[s].type # "join"
        /\ a = i /\ b = i => ~Differ(i) \/ (i = nd + 1 /\ i = ne + 1)
  <2>1. CASE wf = d.wf
    <3>1. i <= nd + 1 /\ i <= ne + 1
      BY <1>1, <1>4
    <3> QED  BY <1>1, <2>1, <3>1
  <2>2. CASE wf # d.wf
    <3>1. PICK a \in DOMAIN d.path : i <= a /\ d.path[a].wf = wf /\ d.path[a].branch = NoName
      BY <1>4, <2>2, LastIn DEF wf
    <3>2. d.path[a] \in Run(d)
      BY <3>1 DEF Run, CallsAround
    <3>3. PICK b \in DOMAIN e.path : e.path[b] = d.path[a]
      BY <3>2 DEF Run, CallsAround
    <3>4. b >= i
      <4> SUFFICES ASSUME b < i PROVE FALSE
        BY <1>1, <1>4
      <4>1. b \in 1 .. (i - 1) /\ b \in 1 .. nd /\ b \in Levels(d)
        BY <1>1, <1>4
      <4>2. d.path[b] = e.path[b]
        BY <1>5, <4>1 DEF Agree
      <4>3. d.path[b].branch = NoName /\ WfAt(d, b) = WfAt(d, i)
        BY <1>1, <3>1, <3>3, <4>1, <4>2 DEF wf
      <4> QED  BY <1>4, <4>1, <4>3, NoReturn DEF Orderly
    <3>5. /\ a \in Levels(d) /\ b \in Levels(e) /\ a \in 1 .. nd /\ b \in 1 .. ne
          /\ wf = WfAt(d, a) /\ wf = WfAt(e, b) /\ StepAt(d, a) = StepAt(e, b)
      <4>1. a \in Levels(d) /\ b \in Levels(e) /\ a \in 1 .. nd /\ b \in 1 .. ne
        BY <1>1
      <4> QED  BY <1>1, <3>1, <3>3, <4>1
    <3>6. ws[wf].steps[StepAt(d, a)].type # "join"
      <4>1. Nested(ws, d.path[a], WfAt(d, a + 1)) /\ StepAt(d, a) = d.path[a].step
        BY <1>1, <3>5 DEF Located
      <4> QED  BY <3>1, <4>1 DEF Nested, At
    <3>7. a = i /\ b = i => ~Differ(i)
      BY <1>1, <3>3 DEF Differ
    <3>8. i <= b
      BY <1>1, <1>4, <3>4
    <3> QED  BY <3>1, <3>5, <3>6, <3>7, <3>8
  <2> QED  BY <2>1, <2>2
<1>9. PICK a \in Levels(d), b \in Levels(e) : \E s :
        /\ i <= a /\ i <= b /\ wf = WfAt(d, a) /\ wf = WfAt(e, b)
        /\ s = StepAt(d, a) /\ s = StepAt(e, b) /\ ws[wf].steps[s].type # "join"
        /\ a = i /\ b = i => ~Differ(i) \/ (i = nd + 1 /\ i = ne + 1)
  BY <1>8
<1>10. PICK s :
        /\ i <= a /\ i <= b /\ wf = WfAt(d, a) /\ wf = WfAt(e, b)
        /\ s = StepAt(d, a) /\ s = StepAt(e, b) /\ ws[wf].steps[s].type # "join"
        /\ a = i /\ b = i => ~Differ(i) \/ (i = nd + 1 /\ i = ne + 1)
  BY <1>9
<1>11. i < b => Parts(ws[wf], d, e, i, a)
  <2>1. wf = WfAt(d, i) /\ wf = WfAt(e, i)
    BY <1>6 DEF wf
  <2> QED  BY <1>4, <1>5, <1>10, <2>1, Diverge
<1>12. i < a => Parts(ws[wf], e, d, i, b)
  <2>1. Agree(e.path, d.path, i)
    BY <1>5 DEF Agree
  <2>2. wf = WfAt(d, i) /\ wf = WfAt(e, i)
    BY <1>6 DEF wf
  <2> QED  BY <1>4, <1>10, <2>1, <2>2, Diverge
<1>13. a = i /\ b = i
  <2> SUFFICES ASSUME i < a \/ i < b PROVE FALSE
    BY <1>1, <1>4, <1>10
  <2>1. /\ i \in DOMAIN d.path /\ i \in DOMAIN e.path /\ d.path[i] # e.path[i]
        /\ e.path[i].step \in After(ws[wf], d.path[i].step)
        /\ d.path[i].step \in After(ws[wf], e.path[i].step)
    BY <1>4, <1>11, <1>12 DEF Differ, Parts
  <2>2. d.path[i].step \in Names(ws[wf])
    <3>1. StepAt(d, i) = d.path[i].step
      BY <1>1, <2>1
    <3> QED  BY <1>4, <3>1 DEF Located, wf
  <2> QED  BY <1>7, <2>1, <2>2, Structure
<1>14. i = nd + 1 /\ i = ne + 1
  BY <1>4, <1>10, <1>13
<1>15. nd = ne /\ \A k \in 1 .. nd : d.path[k] = e.path[k]
  BY <1>1, <1>5, <1>14 DEF Agree
<1> QED  BY <1>2, <1>15, SeqEqual

(***************************************************************************)
(* Two tokens are in different branches of one passage of a parallel step, *)
(* and a token has passed, at every level that it shares with a step state,*)
(* the step of that.                                                       *)
(***************************************************************************)
Apart(p, q) ==
    \E i \in DOMAIN p \cap DOMAIN q :
        /\ Agree(p, q, i)
        /\ p[i].wf = q[i].wf /\ p[i].step = q[i].step /\ p[i].branch # q[i].branch
Passed(ws, t, d, i) ==
    /\ StepAt(d, i) \notin After(ws[WfAt(t, i)], StepAt(t, i))
    /\ StepAt(d, i) = StepAt(t, i) =>
         \/ i \in DOMAIN t.path /\ i \in DOMAIN d.path
         \/ i \notin DOMAIN t.path /\ t.failing
Behind(ws, t, d) ==
    \A i \in Levels(t) : i \in Levels(d) /\ Agree(t.path, d.path, i) => Passed(ws, t, d, i)

\* Control goes on to a later step, or fails at the step it is at.
Onward(ws, wf, step, m) ==
    /\ m.wf = wf /\ m.step \in Names(ws[wf])
    /\ m.step \in After(ws[wf], step) \/ (m.step = step /\ m.failing)

LEMMA PassedBeside ==
    ASSUME NEW ws, Orderly(ws), NEW wf \in DOMAIN ws, NEW step \in Names(ws[wf]),
           NEW m, Onward(ws, wf, step, m), NEW s, s \notin After(ws[wf], step)
    PROVE  /\ s \notin After(ws[wf], m.step)
           /\ s = m.step => m.failing
BY Structure DEF Onward

LEMMA BehindBeside ==
    ASSUME NEW ws, Orderly(ws), NEW t, Located(ws, t), NEW d, Located(ws, d), Behind(ws, t, d),
           NEW m, m.path = t.path, Onward(ws, t.wf, t.step, m)
    PROVE  Behind(ws, m, d)
<1> DEFINE n == Len(t.path)
<1>1. /\ n \in Nat /\ DOMAIN t.path = 1 .. n /\ Levels(t) = 1 .. (n + 1) /\ Levels(m) = Levels(t)
      /\ WfAt(t, n + 1) = t.wf /\ StepAt(t, n + 1) = t.step
      /\ \A i \in Levels(t) : i # n + 1 => i \in DOMAIN t.path
      /\ t.wf \in DOMAIN ws /\ t.step \in Names(ws[t.wf])
  BY LastLevel, LocationFacts DEF Levels
<1>2. /\ \A i \in 1 .. n : WfAt(m, i) = WfAt(t, i) /\ StepAt(m, i) = StepAt(t, i)
      /\ ~(n + 1 <= n) => WfAt(m, n + 1) = m.wf /\ StepAt(m, n + 1) = m.step
  BY DEF WfAt, StepAt
<1> HIDE DEF n
<1> SUFFICES ASSUME NEW i \in Levels(t), i \in Levels(d), Agree(t.path, d.path, i)
             PROVE  Passed(ws, m, d, i)
  BY <1>1 DEF Behind
<1>3. Passed(ws, t, d, i)
  BY DEF Behind
<1>4. CASE i # n + 1
  BY <1>1, <1>2, <1>3, <1>4 DEF Passed
<1>5. CASE i = n + 1
  <2>1. /\ WfAt(m, i) = t.wf /\ StepAt(m, i) = m.step /\ i \notin DOMAIN t.path
    BY <1>1, <1>2, <1>5 DEF Onward
  <2>2. StepAt(d, i) \notin After(ws[t.wf], t.step)
    BY <1>1, <1>3, <1>5 DEF Passed
  <2> DEFINE s == StepAt(d, i)
  <2> HIDE DEF s
  <2>3. s \notin After(ws[t.wf], m.step) /\ (s = m.step => m.failing)
    BY <1>1, <2>2, PassedBeside DEF s
  <2> QED  BY <2>1, <2>3 DEF Passed, s
<1> QED  BY <1>4, <1>5

LEMMA BehindSelf ==
    ASSUME NEW ws, Orderly(ws), NEW t, Located(ws, t),
           NEW m, m.path = t.path, Onward(ws, t.wf, t.step, m),
           NEW d, d.path = t.path, d.step = t.step
    PROVE  Behind(ws, m, d)
<1> DEFINE n == Len(t.path)
<1>1. /\ n \in Nat /\ DOMAIN t.path = 1 .. n /\ Levels(t) = 1 .. (n + 1)
      /\ Levels(m) = Levels(t)
      /\ \A i \in Levels(t) : i # n + 1 => i \in DOMAIN t.path
      /\ t.wf \in DOMAIN ws /\ t.step \in Names(ws[t.wf])
  BY LastLevel, LocationFacts DEF Levels
<1>2. /\ \A i \in 1 .. n : /\ WfAt(m, i) = WfAt(t, i) /\ StepAt(m, i) = StepAt(t, i)
                           /\ StepAt(d, i) = StepAt(t, i)
      /\ ~(n + 1 <= n) => WfAt(m, n + 1) = m.wf /\ StepAt(m, n + 1) = m.step /\ StepAt(d, n + 1) = d.step
  BY DEF WfAt, StepAt
<1> HIDE DEF n
<1> SUFFICES ASSUME NEW i \in Levels(t) PROVE Passed(ws, m, d, i)
  BY <1>1 DEF Behind
<1>3. CASE i # n + 1
  <2>1. /\ i \in 1 .. n /\ WfAt(m, i) = WfAt(t, i) /\ StepAt(m, i) = StepAt(t, i)
        /\ StepAt(d, i) = StepAt(t, i)
    BY <1>1, <1>2, <1>3
  <2>2. WfAt(t, i) \in DOMAIN ws /\ StepAt(t, i) \in Names(ws[WfAt(t, i)])
    BY DEF Located
  <2>3. StepAt(t, i) \notin After(ws[WfAt(t, i)], StepAt(t, i))
    BY <2>2, Structure
  <2> QED  BY <1>1, <2>1, <2>3 DEF Passed
<1>4. CASE i = n + 1
  <2>1. /\ WfAt(m, i) = t.wf /\ StepAt(m, i) = m.step /\ StepAt(d, i) = t.step
        /\ i \notin DOMAIN t.path
    BY <1>1, <1>2, <1>4 DEF Onward
  <2>2. t.step \notin After(ws[t.wf], t.step)
    BY <1>1, Structure
  <2> DEFINE s == t.step
  <2>3. s \notin After(ws[t.wf], m.step) /\ (s = m.step => m.failing)
    BY <1>1, <2>2, PassedBeside
  <2> QED  BY <2>1, <2>3 DEF Passed
<1> QED  BY <1>3, <1>4

LEMMA BehindInside ==
    ASSUME NEW ws, NEW t, Located(ws, t), NEW d, Located(ws, d), Behind(ws, t, d),
           ~t.failing, NEW f \in Frames(ws), f.wf = t.wf, f.step = t.step,
           NEW m, m.path = Append(t.path, f)
    PROVE  Behind(ws, m, d)
<1> DEFINE n == Len(t.path)
           k == Len(d.path)
<1>1. /\ n \in Nat /\ DOMAIN t.path = 1 .. n /\ Levels(t) = 1 .. (n + 1)
      /\ WfAt(t, n + 1) = t.wf /\ StepAt(t, n + 1) = t.step
      /\ k \in Nat /\ DOMAIN d.path = 1 .. k /\ Levels(d) = 1 .. (k + 1)
      /\ \A i \in DOMAIN d.path : StepAt(d, i) = d.path[i].step
  BY LastLevel DEF Levels
<1>2. /\ Len(m.path) = n + 1 /\ DOMAIN m.path = 1 .. (n + 1) /\ m.path[n + 1] = f
      /\ \A i \in 1 .. n : m.path[i] = t.path[i]
  <2>1. t.path \in Seq(Frames(ws))
    BY DEF Located
  <2> QED  BY <2>1, <1>1, AppendProperties
<1>3. Levels(m) = 1 .. ((n + 1) + 1)
  BY <1>2 DEF Levels
<1>4. \A i \in 1 .. n : WfAt(t, i) = t.path[i].wf /\ StepAt(t, i) = t.path[i].step
  BY DEF WfAt, StepAt
<1>5. \A i \in 1 .. (n + 1) : WfAt(m, i) = m.path[i].wf /\ StepAt(m, i) = m.path[i].step
  BY <1>2 DEF WfAt, StepAt
<1> HIDE DEF n, k
<1>6. \A i \in 1 .. (n + 1) : WfAt(m, i) = WfAt(t, i) /\ StepAt(m, i) = StepAt(t, i)
  BY <1>1, <1>2, <1>4, <1>5
<1>7. ASSUME n + 1 \in Levels(d), Agree(t.path, d.path, n + 1)
      PROVE  /\ StepAt(d, n + 1) \notin After(ws[t.wf], t.step) /\ StepAt(d, n + 1) # t.step
  <2> DEFINE j == n + 1
  <2>1. j \in Levels(t) /\ j \notin DOMAIN t.path /\ WfAt(t, j) = t.wf /\ StepAt(t, j) = t.step
    BY <1>1
  <2> HIDE DEF j
  <2>2. Passed(ws, t, d, j)
    BY <1>7, <2>1 DEF Behind, j
  <2> QED  BY <2>1, <2>2 DEF Passed, j
<1> SUFFICES ASSUME NEW i \in Levels(m), i \in Levels(d), Agree(m.path, d.path, i)
             PROVE  Passed(ws, m, d, i)
  BY DEF Behind
<1>8. i <= n + 1 => Agree(t.path, d.path, i)
  BY <1>1, <1>2 DEF Agree
<1>9. CASE i <= n
  <2>1. i \in 1 .. n /\ i \in Levels(t) /\ i \in DOMAIN m.path /\ i \in 1 .. (n + 1) /\ i <= n + 1
    BY <1>1, <1>2, <1>3, <1>9
  <2>2. Passed(ws, t, d, i)
    BY <1>8, <2>1 DEF Behind
  <2> QED  BY <1>1, <1>6, <2>1, <2>2 DEF Passed
<1>10. CASE i = n + 1
  BY <1>1, <1>6, <1>7, <1>8, <1>10 DEF Passed
<1>11. CASE i = n + 2
  <2>1. /\ n + 1 \in Levels(d) /\ n + 1 \in DOMAIN d.path /\ n + 1 \in 1 .. (i - 1)
    BY <1>1, <1>11
  <2>2. d.path[n + 1] = f
    BY <1>2, <2>1 DEF Agree
  <2>3. StepAt(d, n + 1) = t.step
    BY <1>1, <2>1, <2>2
  <2>4. Agree(t.path, d.path, n + 1)
    BY <1>1, <1>2, <1>11 DEF Agree
  <2> QED  BY <1>7, <2>1, <2>3, <2>4
<1> QED  BY <1>1, <1>3, <1>9, <1>10, <1>11

LEMMA BehindAround ==
    ASSUME NEW ws, Orderly(ws), NEW t, Located(ws, t), t.path # <<>>, NEW d, Located(ws, d),
           Behind(ws, t, d), NEW m, m.path = Front(t.path),
           Onward(ws, Outer(t).wf, Outer(t).step, m)
    PROVE  Behind(ws, m, d)
<1> DEFINE n == Len(t.path)
<1>1. /\ n \in Nat /\ n > 0 /\ DOMAIN t.path = 1 .. n /\ Levels(t) = 1 .. (n + 1)
      /\ \A i \in DOMAIN t.path : WfAt(t, i) = t.path[i].wf /\ StepAt(t, i) = t.path[i].step
      /\ Outer(t) = t.path[n]
  BY LastLevel, LocationFacts DEF Levels, Outer
<1>2. /\ m.path \in Seq(Frames(ws)) /\ Len(m.path) = n - 1
      /\ \A i \in 1 .. (n - 1) : m.path[i] = t.path[i]
      /\ Outer(t).wf \in DOMAIN ws /\ Outer(t).step \in Names(ws[Outer(t).wf])
  BY OuterFacts
<1>3. Levels(m) = 1 .. ((n - 1) + 1) /\ DOMAIN m.path = 1 .. (n - 1)
  BY <1>2, LenProperties DEF Levels
<1>4. /\ \A i \in 1 .. (n - 1) : WfAt(m, i) = m.path[i].wf /\ StepAt(m, i) = m.path[i].step
      /\ ~(n <= n - 1) => WfAt(m, n) = m.wf /\ StepAt(m, n) = m.step
  BY <1>2 DEF WfAt, StepAt
<1> HIDE DEF n
<1> SUFFICES ASSUME NEW i \in Levels(m), i \in Levels(d), Agree(m.path, d.path, i)
             PROVE  Passed(ws, m, d, i)
  BY DEF Behind
<1>5. i \in 1 .. n /\ i \in Levels(t) /\ i \in DOMAIN t.path
  BY <1>1, <1>3
<1>6. Agree(t.path, d.path, i)
  BY <1>1, <1>2, <1>5 DEF Agree
<1>7. Passed(ws, t, d, i)
  BY <1>5, <1>6 DEF Behind
<1>8. CASE i # n
  <2>1. i \in 1 .. (n - 1) /\ i \in DOMAIN m.path
    BY <1>1, <1>3, <1>5, <1>8
  <2>2. WfAt(m, i) = WfAt(t, i) /\ StepAt(m, i) = StepAt(t, i)
    BY <1>1, <1>2, <1>4, <1>5, <2>1
  <2> QED  BY <1>5, <1>7, <2>1, <2>2 DEF Passed
<1>9. CASE i = n
  <2>1. WfAt(m, i) = m.wf /\ StepAt(m, i) = m.step /\ i \notin DOMAIN m.path
    BY <1>1, <1>3, <1>4, <1>9
  <2> DEFINE s == StepAt(d, i)
             wf == Outer(t).wf
  <2>2. s \notin After(ws[wf], Outer(t).step)
    BY <1>1, <1>5, <1>7, <1>9 DEF Passed
  <2>3. wf \in DOMAIN ws /\ m.wf = wf /\ Outer(t).step \in Names(ws[wf])
        /\ Onward(ws, wf, Outer(t).step, m)
    BY <1>2 DEF Onward
  <2> HIDE DEF s, wf
  <2>4. s \notin After(ws[wf], m.step) /\ (s = m.step => m.failing)
    BY <2>2, <2>3, PassedBeside
  <2> QED  BY <2>1, <2>3, <2>4 DEF Passed, s
<1> QED  BY <1>8, <1>9

LEMMA BehindApart ==
    ASSUME NEW ws, Orderly(ws), NEW u, Located(ws, u), NEW d, Located(ws, d),
           Apart(u.path, d.path)
    PROVE  Behind(ws, u, d)
<1>1. PICK j \in DOMAIN u.path \cap DOMAIN d.path :
        /\ Agree(u.path, d.path, j)
        /\ u.path[j].wf = d.path[j].wf /\ u.path[j].step = d.path[j].step
        /\ u.path[j].branch # d.path[j].branch
  BY DEF Apart
<1> DEFINE n == Len(u.path)
           k == Len(d.path)
<1>2. /\ n \in Nat /\ DOMAIN u.path = 1 .. n /\ Levels(u) = 1 .. (n + 1)
      /\ \A i \in DOMAIN u.path : StepAt(u, i) = u.path[i].step
      /\ k \in Nat /\ DOMAIN d.path = 1 .. k /\ Levels(d) = 1 .. (k + 1)
      /\ \A i \in DOMAIN d.path : StepAt(d, i) = d.path[i].step
  BY LastLevel DEF Levels
<1> HIDE DEF n, k
<1> SUFFICES ASSUME NEW i \in Levels(u), i \in Levels(d), Agree(u.path, d.path, i)
             PROVE  Passed(ws, u, d, i)
  BY DEF Behind
<1>3. i <= j
  <2> SUFFICES ASSUME j < i PROVE FALSE
    BY <1>2
  <2>1. j \in 1 .. (i - 1)
    BY <1>2
  <2>2. u.path[j] = d.path[j]
    BY <2>1 DEF Agree
  <2> QED  BY <1>1, <2>2
<1>4. i \in DOMAIN u.path /\ i \in DOMAIN d.path
  BY <1>2, <1>3
<1>5. u.path[i].step = d.path[i].step
  <2>1. CASE i = j
    BY <1>1, <2>1
  <2>2. CASE i # j
    <3>1. i \in 1 .. (j - 1)
      BY <1>2, <1>3, <2>2
    <3> QED  BY <1>1, <3>1 DEF Agree
  <2> QED  BY <2>1, <2>2
<1>6. StepAt(d, i) = StepAt(u, i)
  BY <1>2, <1>4, <1>5
<1>7. WfAt(u, i) \in DOMAIN ws /\ StepAt(u, i) \in Names(ws[WfAt(u, i)])
  BY DEF Located
<1>8. StepAt(u, i) \notin After(ws[WfAt(u, i)], StepAt(u, i))
  BY <1>7, Structure
<1> QED  BY <1>4, <1>6, <1>8 DEF Passed

\* Control has not yet passed the step it is at, nor that it is directly inside of.
LEMMA NotYet ==
    ASSUME NEW ws, NEW t, Located(ws, t), NEW d, Behind(ws, t, d), d.path = t.path, d.step = t.step
    PROVE  t.failing
<1> DEFINE n == Len(t.path)
           i == n + 1
<1>1. /\ i \in Levels(t) /\ StepAt(t, i) = t.step /\ i \notin DOMAIN t.path
      /\ n \in Nat /\ ~(n + 1 <= n)
  BY LastLevel
<1>2. Levels(d) = Levels(t) /\ StepAt(d, i) = t.step
  BY <1>1 DEF Levels, StepAt
<1>3. Agree(t.path, d.path, i)
  BY DEF Agree
<1> HIDE DEF i
<1>4. Passed(ws, t, d, i)
  BY <1>1, <1>2, <1>3 DEF Behind
<1> QED  BY <1>1, <1>2, <1>4 DEF Passed

LEMMA NotYetAround ==
    ASSUME NEW ws, NEW t, Located(ws, t), t.path # <<>>, NEW d, Behind(ws, t, d),
           d.path = Front(t.path), d.step = Outer(t).step
    PROVE  FALSE
<1> DEFINE n == Len(t.path)
<1>1. /\ n \in Nat /\ n > 0 /\ DOMAIN t.path = 1 .. n /\ n \in Levels(t)
      /\ StepAt(t, n) = Outer(t).step
  <2>1. n \in Nat /\ n > 0 /\ DOMAIN t.path = 1 .. n
    BY LocationFacts
  <2> QED  BY <2>1, LastLevel DEF Outer
<1>2. /\ d.path \in Seq(Frames(ws)) /\ Len(d.path) = n - 1
      /\ \A i \in 1 .. (n - 1) : d.path[i] = t.path[i]
  BY OuterFacts
<1>3. DOMAIN d.path = 1 .. (n - 1) /\ Levels(d) = 1 .. ((n - 1) + 1)
  BY <1>2, LenProperties DEF Levels
<1>4. ~(n <= n - 1) => StepAt(d, n) = d.step
  BY <1>2 DEF StepAt
<1> HIDE DEF n
<1>5. n \in Levels(d) /\ n \notin DOMAIN d.path /\ StepAt(d, n) = StepAt(t, n)
  BY <1>1, <1>3, <1>4
<1>6. Agree(t.path, d.path, n)
  BY <1>2 DEF Agree
<1>7. Passed(ws, t, d, n)
  BY <1>1, <1>5, <1>6 DEF Behind
<1> QED  BY <1>1, <1>5, <1>7 DEF Passed

-----------------------------------------------------------------------------
LEMMA ApartBoth == ASSUME NEW p, NEW q, Apart(p, q) PROVE Apart(q, p)
BY DEF Apart, Agree

LEMMA ApartInside ==
    ASSUME NEW S, NEW p \in Seq(S), NEW q, Apart(p, q), NEW f
    PROVE  Apart(Append(p, f), q)
<1>1. Len(p) \in Nat /\ DOMAIN p = 1 .. Len(p)
  BY LenProperties
<1> DEFINE r == Append(p, f)
<1>2. DOMAIN r = 1 .. (Len(p) + 1) /\ \A i \in 1 .. Len(p) : r[i] = p[i]
  <2>1. p \in Seq(S \cup {f}) /\ f \in S \cup {f}
    OBVIOUS
  <2> QED  BY <2>1, AppendProperties
<1>3. PICK i \in DOMAIN p \cap DOMAIN q :
        /\ Agree(p, q, i)
        /\ p[i].wf = q[i].wf /\ p[i].step = q[i].step /\ p[i].branch # q[i].branch
  BY DEF Apart
<1> HIDE DEF r
<1>4. i \in DOMAIN r /\ r[i] = p[i]
  BY <1>1, <1>2, <1>3
<1>5. Agree(r, q, i)
  <2>1. \A k \in 1 .. (i - 1) : k \in 1 .. Len(p)
    BY <1>1
  <2> QED  BY <1>2, <1>3, <2>1 DEF Agree
<1>6. Apart(r, q)
  BY <1>3, <1>4, <1>5 DEF Apart
<1> QED  BY <1>6 DEF r

LEMMA ApartForks ==
    ASSUME NEW S, NEW p \in Seq(S), NEW f \in S, NEW g \in S, f.wf = g.wf, f.step = g.step,
           f.branch # g.branch
    PROVE  Apart(Append(p, f), Append(p, g))
<1>1. Len(p) \in Nat
  BY LenProperties
<1> DEFINE r == Append(p, f)
           q == Append(p, g)
<1>2. /\ DOMAIN r = 1 .. (Len(p) + 1) /\ r[Len(p) + 1] = f /\ \A i \in 1 .. Len(p) : r[i] = p[i]
      /\ DOMAIN q = 1 .. (Len(p) + 1) /\ q[Len(p) + 1] = g /\ \A i \in 1 .. Len(p) : q[i] = p[i]
  BY AppendProperties
<1> HIDE DEF r, q
<1> DEFINE i == Len(p) + 1
<1>3. i \in DOMAIN r /\ i \in DOMAIN q
  BY <1>1, <1>2
<1>4. Agree(r, q, i)
  BY <1>1, <1>2 DEF Agree
<1>5. r[i] = f /\ q[i] = g
  BY <1>2
<1> HIDE DEF i
<1>6. Apart(r, q)
  BY <1>3, <1>4, <1>5 DEF Apart
<1> QED  BY <1>6 DEF r, q

\* Who is not inside of what a token leaves is apart from it afterwards.
LEMMA ApartAround ==
    ASSUME NEW ws, NEW t, Located(ws, t), t.path # <<>>, NEW u \in tokens, Located(ws, u),
           Apart(t.path, u.path),
           Outer(t).branch # NoName => u \notin Inside(Front(t.path), Outer(t).wf, Outer(t).step)
    PROVE  Apart(Front(t.path), u.path)
<1> DEFINE n == Len(t.path)
           prefix == Front(t.path)
<1>1. /\ n \in Nat /\ n > 0 /\ DOMAIN t.path = 1 .. n /\ Outer(t) = t.path[n]
      /\ Len(u.path) \in Nat /\ DOMAIN u.path = 1 .. Len(u.path) /\ u.path \in Seq(Frames(ws))
  BY LocationFacts DEF Outer, Located
<1>2. /\ prefix \in Seq(Frames(ws)) /\ Len(prefix) = n - 1
      /\ \A i \in 1 .. (n - 1) : prefix[i] = t.path[i]
  BY OuterFacts
<1>a. DOMAIN prefix = 1 .. (n - 1)
  BY <1>2, LenProperties
<1>3. PICK i \in DOMAIN t.path \cap DOMAIN u.path :
        /\ Agree(t.path, u.path, i) /\ t.path[i].wf = u.path[i].wf
        /\ t.path[i].step = u.path[i].step /\ t.path[i].branch # u.path[i].branch
  BY DEF Apart
<1> HIDE DEF n, prefix
<1>4. Agree(prefix, u.path, i)
  BY <1>1, <1>2, <1>3 DEF Agree
<1>5. CASE i # n
  <2>1. i \in 1 .. (n - 1)
    BY <1>1, <1>3, <1>5
  <2> QED  BY <1>2, <1>a, <1>3, <1>4, <2>1 DEF Apart, prefix
<1>6. CASE i = n /\ Outer(t).branch # NoName
  <2>1. n \in 1 .. Len(u.path)
    BY <1>1, <1>6
  <2>2. SubSeq(u.path, 1, n - 1) = prefix
    <3> DEFINE v == SubSeq(u.path, 1, n - 1)
    <3>1. n - 1 \in 0 .. Len(u.path) /\ 1 \in 1 .. (Len(u.path) + 1)
      BY <1>1, <2>1
    <3>2. /\ v \in Seq(Frames(ws)) /\ Len(v) = n - 1
          /\ \A k \in 1 .. (n - 1) : v[k] = u.path[k]
      BY <1>1, <3>1
    <3> HIDE DEF v
    <3>3. \A k \in 1 .. (n - 1) : v[k] = prefix[k]
      BY <1>4, <1>6, <3>2 DEF Agree
    <3>4. v = prefix
      BY <1>2, <3>2, <3>3, SeqEqual
    <3> QED  BY <3>4 DEF v
  <2>3. Len(u.path) > Len(prefix) /\ Len(prefix) + 1 = n
    BY <1>1, <1>2, <2>1
  <2>4. u.path[n].wf = Outer(t).wf /\ u.path[n].step = Outer(t).step
    BY <1>1, <1>3, <1>6
  <2>5. u \in Inside(prefix, Outer(t).wf, Outer(t).step)
    BY <1>2, <2>2, <2>3, <2>4 DEF Inside
  <2> QED  BY <1>6, <2>5 DEF prefix
<1>7. CASE i = n /\ Outer(t).branch = NoName
  <2>1. Nested(ws, t.path[n], WfAt(t, n + 1)) /\ Nested(ws, u.path[n], WfAt(u, n + 1))
    BY <1>1, <1>3, <1>7 DEF Located
  <2>2. At(ws, t.path[n]) = At(ws, u.path[n])
    BY <1>3, <1>7 DEF At
  <2> QED  BY <1>1, <1>3, <1>7, <2>1, <2>2 DEF Nested
<1> QED  BY <1>5, <1>6, <1>7

(***************************************************************************)
(* What makes a step be reached once: every location is where its branches *)
(* say, tokens are apart, and no token is at or before what was reached.   *)
(***************************************************************************)
Good(ws, T, D) ==
    /\ \A t \in T : IsToken(ws, t) /\ Regions(ws, t)
    /\ \A d \in D : IsReached(ws, d) /\ Regions(ws, d) /\ At(ws, d).type # "join"
    /\ \A t \in T : \A u \in T : t # u => Apart(t.path, u.path)
    /\ \A t \in T : \A d \in D : Behind(ws, t, d)
    /\ \A d \in D : \A e \in D : d.path = e.path /\ d.wf = e.wf /\ d.step = e.step => d = e

LEMMA GoodTokens ==
    ASSUME NEW ws, NEW T, NEW D, Good(ws, T, D), NEW U \in SUBSET T
    PROVE  Good(ws, U, D)
BY DEF Good

LEMMA GoodBeside ==
    ASSUME NEW ws, Orderly(ws), NEW T, NEW D, Good(ws, T, D), NEW t \in T, ~t.failing,
           At(ws, t).type # "join",
           NEW m, IsToken(ws, m), Regions(ws, m), m.path = t.path, Onward(ws, t.wf, t.step, m),
           NEW e, IsReached(ws, e), e.path = t.path, e.wf = t.wf, e.step = t.step,
           NEW E \in SUBSET {e}
    PROVE  Good(ws, (T \ {t}) \cup {m}, D \cup E)
<1>1. Located(ws, t) /\ Located(ws, m) /\ Located(ws, e) /\ Regions(ws, t)
  BY DEF Good, IsToken, IsReached
<1>2. Regions(ws, e) /\ At(ws, e).type # "join"
  <2>1. Placed(ws, t.path, Len(t.path), t.wf, t.step)
    <3>1. Len(t.path) + 1 \in Levels(t) /\ WfAt(t, Len(t.path) + 1) = t.wf
          /\ StepAt(t, Len(t.path) + 1) = t.step /\ (Len(t.path) + 1) - 1 = Len(t.path)
      BY <1>1, LastLevel
    <3> QED  BY <1>1, <3>1 DEF Regions
  <2> QED  BY <1>1, <2>1, RegionsBeside DEF At
<1>3. \A u \in T \ {t} : Located(ws, u) /\ Apart(t.path, u.path) /\ Apart(u.path, t.path)
  BY DEF Good, IsToken
<1>4. \A d \in D : Located(ws, d) /\ Behind(ws, m, d)
  <2> SUFFICES ASSUME NEW d \in D PROVE Located(ws, d) /\ Behind(ws, m, d)
    OBVIOUS
  <2>1. Located(ws, d) /\ Behind(ws, t, d)
    BY DEF Good, IsReached
  <2> QED  BY <1>1, <2>1, BehindBeside
<1>5. Behind(ws, m, e)
  BY <1>1, BehindSelf
<1>6. \A u \in T \ {t} : Behind(ws, u, e)
  <2> SUFFICES ASSUME NEW u \in T \ {t} PROVE Behind(ws, u, e)
    OBVIOUS
  <2>1. Located(ws, u) /\ Apart(u.path, e.path)
    BY <1>3
  <2> QED  BY <1>1, <2>1, BehindApart
<1>7. \A d \in D : ~(d.path = e.path /\ d.step = e.step)
  <2> SUFFICES ASSUME NEW d \in D, d.path = e.path, d.step = e.step PROVE FALSE
    OBVIOUS
  <2>1. Behind(ws, t, d) /\ d.path = t.path /\ d.step = t.step
    BY DEF Good
  <2> QED  BY <1>1, <2>1, NotYet
<1> QED  BY <1>2, <1>3, <1>4, <1>5, <1>6, <1>7 DEF Good

LEMMA GoodInside ==
    ASSUME NEW ws, Orderly(ws), NEW T, NEW D, Good(ws, T, D), NEW t \in T, ~t.failing,
           NEW N, \A m \in N : /\ IsToken(ws, m) /\ Regions(ws, m)
                               /\ \E f \in Frames(ws) : /\ f.wf = t.wf /\ f.step = t.step
                                                        /\ m.path = Append(t.path, f),
           \A m \in N : \A k \in N : m # k => Apart(m.path, k.path)
    PROVE  Good(ws, (T \ {t}) \cup N, D)
<1>1. Located(ws, t) /\ t.path \in Seq(Frames(ws))
  BY DEF Good, IsToken, Located
<1>2. \A u \in T \ {t} : \A m \in N : Apart(m.path, u.path) /\ Apart(u.path, m.path)
  <2> SUFFICES ASSUME NEW u \in T \ {t}, NEW m \in N
               PROVE  Apart(m.path, u.path) /\ Apart(u.path, m.path)
    OBVIOUS
  <2>1. PICK f : m.path = Append(t.path, f)
    OBVIOUS
  <2>2. Apart(t.path, u.path)
    BY DEF Good
  <2>3. Apart(m.path, u.path)
    BY <1>1, <2>1, <2>2, ApartInside
  <2> QED  BY <2>3, ApartBoth
<1>3. \A m \in N : \A d \in D : Behind(ws, m, d)
  <2> SUFFICES ASSUME NEW m \in N, NEW d \in D PROVE Behind(ws, m, d)
    OBVIOUS
  <2>1. PICK f \in Frames(ws) : /\ f.wf = t.wf /\ f.step = t.step
                                /\ m.path = Append(t.path, f)
    OBVIOUS
  <2>2. Located(ws, d) /\ Behind(ws, t, d)
    BY DEF Good, IsReached
  <2> QED  BY <1>1, <2>1, <2>2, BehindInside
<1> QED  BY <1>2, <1>3 DEF Good

LEMMA GoodAround ==
    ASSUME NEW ws, Orderly(ws), NEW T, NEW D, Good(ws, T, D), NEW t \in T, t.path # <<>>,
           NEW R, t \in R, \A u \in T \ R : Apart(Front(t.path), u.path),
           NEW m, IsToken(ws, m), Regions(ws, m), m.path = Front(t.path),
           Onward(ws, Outer(t).wf, Outer(t).step, m),
           NEW e, IsReached(ws, e), e.path = Front(t.path), e.wf = Outer(t).wf,
           e.step = Outer(t).step
    PROVE  Good(ws, (T \ R) \cup {m}, D \cup {e})
<1>1. Located(ws, t) /\ Located(ws, m) /\ Located(ws, e) /\ Regions(ws, t)
  BY DEF Good, IsToken, IsReached
<1>2. Regions(ws, e) /\ At(ws, e).type # "join"
  <2>1. Nested(ws, Outer(t), t.wf)
    BY <1>1, OuterFacts
  <2> QED  BY <1>1, <2>1, RegionsAround DEF At, Nested
<1>3. \A u \in T \ R : Located(ws, u) /\ Apart(m.path, u.path) /\ Apart(u.path, m.path)
  <2> SUFFICES ASSUME NEW u \in T \ R
               PROVE  Located(ws, u) /\ Apart(m.path, u.path) /\ Apart(u.path, m.path)
    OBVIOUS
  <2>1. Located(ws, u) /\ Apart(m.path, u.path)
    BY DEF Good, IsToken
  <2> QED  BY <2>1, ApartBoth
<1>4. \A d \in D : Located(ws, d) /\ Behind(ws, m, d)
  <2> SUFFICES ASSUME NEW d \in D PROVE Located(ws, d) /\ Behind(ws, m, d)
    OBVIOUS
  <2>1. Located(ws, d) /\ Behind(ws, t, d)
    BY DEF Good, IsReached
  <2> QED  BY <1>1, <2>1, BehindAround
<1>5. Behind(ws, m, e)
  <2>1. Onward(ws, e.wf, e.step, m) /\ m.path = e.path
    OBVIOUS
  <2> QED  BY <1>1, <2>1, BehindSelf
<1>6. \A u \in T \ R : Behind(ws, u, e)
  <2> SUFFICES ASSUME NEW u \in T \ R PROVE Behind(ws, u, e)
    OBVIOUS
  <2>1. Located(ws, u) /\ Apart(u.path, e.path)
    BY <1>3
  <2> QED  BY <1>1, <2>1, BehindApart
<1>7. \A d \in D : ~(d.path = e.path /\ d.step = e.step)
  <2> SUFFICES ASSUME NEW d \in D, d.path = e.path, d.step = e.step PROVE FALSE
    OBVIOUS
  <2>1. Behind(ws, t, d) /\ d.path = Front(t.path) /\ d.step = Outer(t).step
    BY DEF Good
  <2> QED  BY <1>1, <2>1, NotYetAround
<1> QED  BY <1>2, <1>3, <1>4, <1>5, <1>6, <1>7 DEF Good

-----------------------------------------------------------------------------
\* Where control is when it leaves a step that is not a join.
LEMMA LeaveFrom ==
    ASSUME Orderly(workflows), NEW t \in Tokens(workflows), Located(workflows, t),
           Regions(workflows, t), At(workflows, t).type # "join", NEW label,
           label \in DOMAIN At(workflows, t).on /\ At(workflows, t).type = "parallel"
             => label = "failure"
    PROVE  LET m == Leave(t, label, t.path)
           IN  /\ IsToken(workflows, m) /\ Regions(workflows, m) /\ m.path = t.path
               /\ Onward(workflows, t.wf, t.step, m)
<1> DEFINE ws == workflows
           m == Leave(t, label, t.path)
           step == At(ws, t)
<1>1. t.wf \in DOMAIN ws /\ t.step \in Names(ws[t.wf]) /\ Step(t) = step
      /\ step = ws[t.wf].steps[t.step]
  BY LocationFacts DEF Step, At
<1>2. IsToken(ws, m)
  <2>1. [t EXCEPT !.path = t.path] = t
    BY DEF Tokens
  <2> QED  BY <2>1, LeaveToken DEF Orderly
<1>3. CASE label \in DOMAIN step.on
  <2> DEFINE x == step.on[label]
  <2>1. m = Token(t.wf, x, t.path)
    BY <1>1, <1>3 DEF Leave
  <2>2. m.path = t.path /\ m.wf = t.wf /\ m.step = x
    BY <2>1 DEF Token
  <2>3. x \in Edges(ws[t.wf], t.step)
    BY <1>1, <1>3, AcceptedDefines DEF Orderly
  <2>4. x \in After(ws[t.wf], t.step) /\ x \in Names(ws[t.wf])
    BY <1>1, <2>3, Structure DEF Edges
  <2>5. t.step \in OfType(ws[t.wf], "parallel") =>
          \A b \in ws[t.wf].steps[t.step].branches : x \notin Branch(ws[t.wf], t.step, b)
    <3> SUFFICES ASSUME t.step \in OfType(ws[t.wf], "parallel"),
                        NEW b \in ws[t.wf].steps[t.step].branches
                 PROVE  x \notin Branch(ws[t.wf], t.step, b)
      OBVIOUS
    <3>1. Sound(ws[t.wf])
      BY <1>1, Structure
    <3>2. label = "failure" /\ "failure" \in DOMAIN ws[t.wf].steps[t.step].on
          /\ x = ws[t.wf].steps[t.step].on["failure"]
      BY <1>1, <1>3 DEF OfType
    <3> QED  BY <3>1, <3>2, BranchFacts DEF Sound
  <2>6. ws[t.wf].steps[t.step].type # "join"
    BY <1>1
  <2> HIDE DEF x, step, m
  <2>7. Placed(ws, t.path, Len(t.path), t.wf, x)
    BY <2>3, <2>5, <2>6, PlacedNext
  <2>8. Regions(ws, m)
    BY <2>2, <2>7, RegionsBeside
  <2>9. Onward(ws, t.wf, t.step, m)
    BY <2>2, <2>4 DEF Onward
  <2> QED  BY <1>2, <2>2, <2>8, <2>9 DEF m
<1>4. CASE label \notin DOMAIN step.on
  <2>1. m = [t EXCEPT !.path = t.path, !.failing = TRUE]
    BY <1>1, <1>4 DEF Leave
  <2>2. m.path = t.path /\ m.wf = t.wf /\ m.step = t.step /\ m.failing = TRUE
    BY <2>1 DEF Tokens
  <2>3. Len(t.path) + 1 \in Levels(t) /\ WfAt(t, Len(t.path) + 1) = t.wf
        /\ StepAt(t, Len(t.path) + 1) = t.step /\ (Len(t.path) + 1) - 1 = Len(t.path)
    BY LastLevel
  <2>4. Placed(ws, t.path, Len(t.path), t.wf, t.step)
    BY <2>3 DEF Regions
  <2> HIDE DEF m, step
  <2>5. Regions(ws, m)
    BY <2>2, <2>4, RegionsBeside
  <2>6. Onward(ws, t.wf, t.step, m)
    BY <1>1, <2>2 DEF Onward
  <2> QED  BY <1>2, <2>2, <2>5, <2>6 DEF m
<1> QED  BY <1>3, <1>4

\* A token that fails or ends leaves what it is directly inside of.
LEMMA LeaveAround ==
    ASSUME Orderly(workflows), Good(workflows, tokens, done), NEW t \in tokens, t.path # <<>>,
           NEW R, R = Inside(Front(t.path), Outer(t).wf, Outer(t).step)
                    \/ (R = {t} /\ Outer(t).branch = NoName),
           NEW c, c = Caller(t) \/ c = [Caller(t) EXCEPT !.failing = FALSE],
           NEW label, At(workflows, Outer(t)).type = "parallel" => label = "failure",
           NEW outcome
    PROVE  Good(workflows, (tokens \ R) \cup {Leave(c, label, Front(t.path))},
                done \cup {Reached(Caller(t), outcome)})
<1> DEFINE ws == workflows
           m == Leave(c, label, Front(t.path))
           e == Reached(Caller(t), outcome)
<1>1. /\ IsToken(ws, t) /\ Located(ws, t) /\ Regions(ws, t)
      /\ ws \in Candidates /\ Accepted(ws)
  BY DEF Good, IsToken, Orderly
<1>2. /\ Caller(t) \in Tokens(ws) /\ Located(ws, Caller(t))
      /\ Caller(t).path = Front(t.path) /\ Caller(t).wf = Outer(t).wf
      /\ Caller(t).step = Outer(t).step
  BY <1>1, CallerFacts
<1>3. c \in Tokens(ws) /\ c.path = Front(t.path) /\ c.wf = Outer(t).wf /\ c.step = Outer(t).step
  BY <1>2 DEF Tokens
<1>4. Located(ws, c) /\ Regions(ws, c)
  <2>1. Located(ws, c)
    <3>1. c.step \in Names(ws[c.wf])
      BY <1>1, <1>3, OuterFacts
    <3> QED  BY <1>1, <1>3, <3>1, LocatedAround
  <2>2. Regions(ws, c)
    BY <1>1, <1>3, RegionsAround
  <2> QED  BY <2>1, <2>2
<1>5. At(ws, c) = At(ws, Outer(t)) /\ At(ws, c).type # "join"
  <2>1. Nested(ws, Outer(t), t.wf)
    BY <1>1, OuterFacts
  <2> QED  BY <1>3, <2>1 DEF At, Nested
<1>6. /\ IsToken(ws, m) /\ Regions(ws, m) /\ m.path = Front(t.path)
      /\ Onward(ws, Outer(t).wf, Outer(t).step, m)
  <2>1. LET k == Leave(c, label, c.path)
        IN  /\ IsToken(ws, k) /\ Regions(ws, k) /\ k.path = c.path
            /\ Onward(ws, c.wf, c.step, k)
    BY <1>3, <1>4, <1>5, LeaveFrom
  <2> QED  BY <1>3, <2>1
<1>7. IsReached(ws, e) /\ e.path = Front(t.path) /\ e.wf = Outer(t).wf /\ e.step = Outer(t).step
  <2>1. IsReached(ws, e)
    BY <1>2, ReachedAt
  <2> QED  BY <1>2, <2>1 DEF Reached
<1>8. t \in R
  <2>1. t \in Inside(Front(t.path), Outer(t).wf, Outer(t).step)
    <3>1. Len(t.path) \in Nat /\ Len(t.path) > 0 /\ Len(Front(t.path)) = Len(t.path) - 1
      BY <1>1, LocationFacts, OuterFacts
    <3>2. Front(t.path) = SubSeq(t.path, 1, Len(t.path) - 1)
      BY DEF Front
    <3> QED  BY <3>1, <3>2 DEF Inside, Outer
  <2> QED  BY <2>1
<1>9. \A u \in tokens \ R : Apart(Front(t.path), u.path)
  <2> SUFFICES ASSUME NEW u \in tokens, u \notin R PROVE Apart(Front(t.path), u.path)
    OBVIOUS
  <2>1. Located(ws, u) /\ Apart(t.path, u.path)
    BY <1>8 DEF Good, IsToken
  <2> QED  BY <1>1, <2>1, ApartAround
<1> HIDE DEF m, e
<1>10. Good(ws, (tokens \ R) \cup {m}, done \cup {e})
  BY <1>6, <1>7, <1>8, <1>9, GoodAround
<1> QED  BY <1>10 DEF m, e

LEMMA ConvergeGood ==
    ASSUME Orderly(workflows), Good(workflows, tokens, done), NEW t \in tokens, Converge(t)
    PROVE  Good(workflows, tokens', done')
<1> DEFINE ws == workflows
           R == Inside(Front(t.path), Outer(t).wf, Outer(t).step)
           m == Leave(t, "next", Front(t.path))
           e == Reached(Caller(t), "succeeded")
           c == Caller(t)
<1>1. /\ IsToken(ws, t) /\ t \in Tokens(ws) /\ Located(ws, t) /\ Regions(ws, t)
      /\ ws \in Candidates /\ Accepted(ws)
  BY DEF Good, IsToken, Orderly, Tokens
<1>2. t.path # <<>> /\ Outer(t).branch # NoName /\ Step(t).type = "join"
  BY DEF Converge
<1>3. /\ Outer(t).wf = t.wf
      /\ [t EXCEPT !.step = Outer(t).step, !.path = Front(t.path)] = c
      /\ Located(ws, [t EXCEPT !.path = Front(t.path)])
  BY <1>1, <1>2, JoinFacts
<1>4. /\ c \in Tokens(ws) /\ Located(ws, c)
      /\ c.path = Front(t.path) /\ c.wf = Outer(t).wf
      /\ c.step = Outer(t).step
  BY <1>1, <1>2, CallerFacts
<1>5. /\ tokens' = (tokens \ R) \cup {m} /\ done' = done \cup {e}
      /\ Step(c).join = t.step
  BY <1>3 DEF Converge
<1> HIDE DEF c
<1>6. t.step = ws[t.wf].steps[Outer(t).step].join
  BY <1>3, <1>4, <1>5 DEF Step
<1>7. t.wf \in DOMAIN ws /\ t.step \in Names(ws[t.wf]) /\ Step(t) = ws[t.wf].steps[t.step]
  BY <1>1, LocationFacts DEF Step
<1> DEFINE x == Step(t).on["next"]
<1>8. "next" \in DOMAIN Step(t).on /\ x \in Edges(ws[t.wf], t.step)
  <2>1. WellFormed(Step(t))
    BY <1>1, <1>7 DEF Accepted
  <2>2. "next" \in DOMAIN Step(t).on
    BY <1>2, <2>1 DEF WellFormed, Shapes
  <2> QED  BY <1>1, <1>7, <2>2, AcceptedDefines
<1>9. m.path = Front(t.path) /\ m.wf = t.wf /\ m.step = x
  BY <1>8 DEF Leave, Token
<1>10. IsToken(ws, m)
  BY <1>1, <1>3, LeaveToken
<1> HIDE DEF x, m
<1>11. /\ Placed(ws, Front(t.path), Len(Front(t.path)), t.wf, x)
       /\ x \in After(ws[t.wf], Outer(t).step) /\ x \in Names(ws[t.wf])
  BY <1>1, <1>2, <1>6, <1>8, PlacedJoin DEF Edges
<1>12. Regions(ws, m)
  <2>1. Regions(ws, c)
    BY <1>1, <1>2, <1>4, RegionsAround
  <2>2. m.path = c.path /\ m.wf = c.wf /\ Placed(ws, c.path, Len(c.path), c.wf, m.step)
    BY <1>3, <1>4, <1>9, <1>11
  <2> QED  BY <1>4, <2>1, <2>2, RegionsBeside
<1>13. Onward(ws, Outer(t).wf, Outer(t).step, m)
  BY <1>3, <1>9, <1>11 DEF Onward
<1>14. IsReached(ws, e) /\ e.path = Front(t.path) /\ e.wf = Outer(t).wf /\ e.step = Outer(t).step
  <2>1. IsReached(ws, e)
    BY <1>4, ReachedAt DEF c
  <2> QED  BY <1>4, <2>1 DEF Reached, c
<1>15. t \in R
  <2>1. Len(t.path) \in Nat /\ Len(t.path) > 0 /\ Len(Front(t.path)) = Len(t.path) - 1
    BY <1>1, <1>2, LocationFacts, OuterFacts
  <2>2. Front(t.path) = SubSeq(t.path, 1, Len(t.path) - 1)
    BY DEF Front
  <2> QED  BY <2>1, <2>2 DEF Inside, Outer
<1>16. \A u \in tokens \ R : Apart(Front(t.path), u.path)
  <2> SUFFICES ASSUME NEW u \in tokens, u \notin R PROVE Apart(Front(t.path), u.path)
    OBVIOUS
  <2>1. Located(ws, u) /\ Apart(t.path, u.path)
    BY <1>15 DEF Good, IsToken
  <2> QED  BY <1>1, <1>2, <2>1, ApartAround
<1> HIDE DEF e, R
<1>17. Good(ws, (tokens \ R) \cup {m}, done \cup {e})
  BY <1>2, <1>9, <1>10, <1>12, <1>13, <1>14, <1>15, <1>16, GoodAround
<1> QED  BY <1>5, <1>17

LEMMA ForkGood ==
    ASSUME Orderly(workflows), Good(workflows, tokens, done), NEW t \in tokens, ~t.failing, Fork(t)
    PROVE  Good(workflows, tokens', done')
<1> DEFINE ws == workflows
           frame(b) == [wf |-> t.wf, step |-> t.step, branch |-> b]
           into(b) == Token(t.wf, b, Append(t.path, frame(b)))
           N == {into(b) : b \in Step(t).branches}
<1>1. /\ IsToken(ws, t) /\ Located(ws, t) /\ Regions(ws, t)
      /\ ws \in Candidates /\ Accepted(ws) /\ t.path \in Seq(Frames(ws))
  BY DEF Good, IsToken, Orderly, Located
<1>2. /\ Step(t) = At(ws, t) /\ At(ws, t) = ws[t.wf].steps[t.step] /\ At(ws, t).type = "parallel"
      /\ t.step \in OfType(ws[t.wf], "parallel")
      /\ tokens' = (tokens \ {t}) \cup N /\ done' = done
  BY <1>1, LocationFacts DEF Fork, Step, At, OfType
<1>3. ASSUME NEW b \in Step(t).branches
      PROVE  /\ IsToken(ws, into(b)) /\ Regions(ws, into(b))
             /\ frame(b) \in Frames(ws) /\ frame(b).wf = t.wf /\ frame(b).step = t.step
             /\ frame(b).branch = b /\ into(b).path = Append(t.path, frame(b))
  <2> DEFINE f == frame(b)
             m == Token(t.wf, b, Append(t.path, f))
  <2>1. f \in Frames(ws) /\ Located(ws, m)
    BY <1>1, <1>2, ForkToken
  <2>2. m.path = Append(t.path, f) /\ m.wf = t.wf /\ m.step = b
    BY DEF Token
  <2>3. f.wf = t.wf /\ f.step = t.step /\ f.branch = b
    OBVIOUS
  <2>4. Placed(ws, Append(t.path, f), Len(t.path) + 1, t.wf, b)
    BY <1>1, <1>2, PlacedFork
  <2> HIDE DEF f
  <2>5. IsToken(ws, m)
    BY <1>1, <2>1, TokenAt
  <2> HIDE DEF m
  <2>6. Regions(ws, m)
    BY <1>1, <2>1, <2>2, <2>3, <2>4, RegionsInside
  <2> QED  BY <2>1, <2>2, <2>3, <2>5, <2>6 DEF m, f
<1>4. \A m \in N : \A k \in N : m # k => Apart(m.path, k.path)
  <2> SUFFICES ASSUME NEW b \in Step(t).branches, NEW a \in Step(t).branches, into(b) # into(a)
               PROVE  Apart(into(b).path, into(a).path)
    OBVIOUS
  <2>1. b # a
    OBVIOUS
  <2> HIDE DEF into, frame
  <2>2. Apart(Append(t.path, frame(b)), Append(t.path, frame(a)))
    BY <1>1, <1>3, <2>1, ApartForks
  <2> QED  BY <1>3, <2>2
<1>5. \A m \in N : /\ IsToken(ws, m) /\ Regions(ws, m)
                   /\ \E f \in Frames(ws) : /\ f.wf = t.wf /\ f.step = t.step
                                            /\ m.path = Append(t.path, f)
  <2> HIDE DEF into, frame
  <2> QED  BY <1>3
<1> HIDE DEF N
<1>6. Good(ws, (tokens \ {t}) \cup N, done)
  BY <1>4, <1>5, GoodInside
<1> QED  BY <1>2, <1>6

LEMMA CallGood ==
    ASSUME Orderly(workflows), Good(workflows, tokens, done), NEW t \in tokens, ~t.failing, Call(t)
    PROVE  Good(workflows, tokens', done')
<1> DEFINE ws == workflows
           f == [wf |-> t.wf, step |-> t.step, branch |-> NoName]
           callee == At(ws, t).calls
           m == Token(callee, ws[callee].start, Append(t.path, f))
<1>1. /\ IsToken(ws, t) /\ Located(ws, t) /\ Regions(ws, t)
      /\ ws \in Candidates /\ Accepted(ws) /\ t.path \in Seq(Frames(ws))
  BY DEF Good, IsToken, Orderly, Located
<1>2. /\ At(ws, t).type = "call" /\ tokens' = (tokens \ {t}) \cup {m} /\ done' = done
  BY DEF Call, Step, At
<1>3. f \in Frames(ws) /\ Located(ws, m)
  BY <1>1, <1>2, CallToken
<1>4. /\ m.path = Append(t.path, f) /\ m.wf = callee /\ m.step = ws[callee].start
      /\ f.wf = t.wf /\ f.step = t.step /\ f.branch = NoName
  BY DEF Token
<1> HIDE DEF f
<1>5. IsToken(ws, m)
  BY <1>1, <1>3, TokenAt
<1>6. m.step = ws[m.wf].start
  BY <1>4
<1> HIDE DEF m
<1>7. /\ Len(m.path) = Len(t.path) + 1 /\ m.path[Len(t.path) + 1] = f /\ Len(t.path) \in Nat
      /\ m.path # <<>> /\ Outer(m) = f
  <2>1. /\ Len(m.path) = Len(t.path) + 1 /\ m.path[Len(t.path) + 1] = f /\ Len(t.path) \in Nat
    BY <1>1, <1>3, <1>4, AppendProperties, LenProperties
  <2>2. m.path # <<>>
    <3>1. Len(m.path) # 0
      BY <2>1
    <3> QED  BY <3>1, EmptySeq
  <2> QED  BY <2>1, <2>2 DEF Outer
<1>8. Placed(ws, m.path, Len(m.path), m.wf, m.step)
  BY <1>3, <1>4, <1>6, <1>7, PlacedCall
<1>9. Regions(ws, m)
  BY <1>1, <1>3, <1>4, <1>7, <1>8, RegionsInside
<1> DEFINE N == {m}
<1>10. /\ \A k \in N : /\ IsToken(ws, k) /\ Regions(ws, k)
                       /\ \E g \in Frames(ws) : /\ g.wf = t.wf /\ g.step = t.step
                                                /\ k.path = Append(t.path, g)
       /\ \A k \in N : \A j \in N : k # j => Apart(k.path, j.path)
  BY <1>3, <1>4, <1>5, <1>9
<1> HIDE DEF N
<1>11. Good(ws, (tokens \ {t}) \cup N, done)
  BY <1>10, GoodInside
<1> QED  BY <1>2, <1>11 DEF N

LEMMA AdvanceGood ==
    ASSUME Orderly(workflows), Good(workflows, tokens, done), NEW t \in tokens, Advance(t)
    PROVE  Good(workflows, tokens', done')
<1> DEFINE ws == workflows
<1>1. /\ IsToken(ws, t) /\ Located(ws, t) /\ Regions(ws, t) /\ t \in Tokens(ws)
      /\ ws \in Candidates /\ Accepted(ws) /\ Step(t) = At(ws, t)
  BY DEF Good, IsToken, Orderly, Tokens, Step, At
<1>2. ASSUME ~t.failing, NEW label, NEW outcome, NEW E \in SUBSET {Reached(t, outcome)},
             At(ws, t).type # "join", At(ws, t).type # "parallel"
      PROVE  Good(ws, (tokens \ {t}) \cup {Leave(t, label, t.path)}, done \cup E)
  <2> DEFINE m == Leave(t, label, t.path)
             e == Reached(t, outcome)
  <2>1. /\ IsToken(ws, m) /\ Regions(ws, m) /\ m.path = t.path
        /\ Onward(ws, t.wf, t.step, m)
    BY <1>1, <1>2, LeaveFrom
  <2>2. IsReached(ws, e) /\ e.path = t.path /\ e.wf = t.wf /\ e.step = t.step
    <3>1. IsReached(ws, e)
      BY <1>1, ReachedAt
    <3> QED  BY <3>1 DEF Reached
  <2>3. E \in SUBSET {e}
    OBVIOUS
  <2> HIDE DEF m, e
  <2>4. Good(ws, (tokens \ {t}) \cup {m}, done \cup E)
    BY <1>2, <2>1, <2>2, <2>3, GoodBeside
  <2> QED  BY <2>4 DEF m
<1>3. CASE t.failing
  <2>1. CASE t.path = <<>>
    <3>1. tokens' \in SUBSET tokens /\ done' = done
      BY <1>3, <2>1 DEF Advance, Fail
    <3> QED  BY <3>1, GoodTokens
  <2>2. CASE t.path # <<>>
    <3> DEFINE R == Inside(Front(t.path), Outer(t).wf, Outer(t).step)
               c == [Caller(t) EXCEPT !.failing = FALSE]
    <3>1. /\ tokens' = (tokens \ R) \cup {Leave(c, "failure", Front(t.path))}
          /\ done' = done \cup {Reached(Caller(t), "failed")}
      BY <1>3, <2>2 DEF Advance, Fail
    <3> HIDE DEF R, c
    <3>2. Good(ws, (tokens \ R) \cup {Leave(c, "failure", Front(t.path))},
               done \cup {Reached(Caller(t), "failed")})
      BY <2>2, LeaveAround DEF R, c
    <3> QED  BY <3>1, <3>2
  <2> QED  BY <2>1, <2>2
<1>4. CASE ~t.failing
  <2>1. CASE Execute(t)
    <3>1. PICK outcome : /\ tokens' = (tokens \ {t}) \cup {Leave(t, Label(outcome), t.path)}
                         /\ done' = done \cup {Reached(t, outcome)}
      BY <2>1 DEF Execute
    <3>2. At(ws, t).type # "join" /\ At(ws, t).type # "parallel"
      BY <1>1, <2>1 DEF Execute
    <3>3. Good(ws, (tokens \ {t}) \cup {Leave(t, Label(outcome), t.path)},
               done \cup {Reached(t, outcome)})
      BY <1>2, <1>4, <3>2
    <3> QED  BY <3>1, <3>3
  <2>2. CASE Decide(t)
    <3>1. PICK label : tokens' = (tokens \ {t}) \cup {Leave(t, label, t.path)} /\ done' = done
      BY <2>2 DEF Decide
    <3>2. At(ws, t).type # "join" /\ At(ws, t).type # "parallel"
      BY <1>1, <2>2 DEF Decide
    <3>3. \A E : E = {} => Good(ws, (tokens \ {t}) \cup {Leave(t, label, t.path)}, done \cup E)
      BY <1>2, <1>4, <3>2
    <3>4. done \cup {} = done
      OBVIOUS
    <3>5. Good(ws, (tokens \ {t}) \cup {Leave(t, label, t.path)}, done)
      BY <3>3, <3>4
    <3> QED  BY <3>1, <3>5
  <2>3. CASE Fork(t)
    BY <1>4, <2>3, ForkGood
  <2>4. CASE Converge(t)
    BY <2>4, ConvergeGood
  <2>5. CASE Call(t)
    BY <1>4, <2>5, CallGood
  <2>6. CASE EndStep(t)
    <3>1. CASE tokens' = tokens \ {t} /\ UNCHANGED done
      <4>1. tokens' \in SUBSET tokens /\ done' = done
        BY <3>1
      <4> QED  BY <4>1, GoodTokens
    <3>2. CASE /\ t.path # <<>> /\ Outer(t).branch = NoName
               /\ tokens' = (tokens \ {t}) \cup {Leave(Caller(t), "success", Front(t.path))}
               /\ done' = done \cup {Reached(Caller(t), "succeeded")}
      <4>1. At(ws, Outer(t)).type # "parallel"
        BY <1>1, <3>2, OuterFacts DEF Nested
      <4> DEFINE R == {t}
                 c == Caller(t)
      <4>2. (R = {t} /\ Outer(t).branch = NoName) /\ c = Caller(t)
        BY <3>2
      <4> HIDE DEF R, c
      <4>3. Good(ws, (tokens \ R) \cup {Leave(c, "success", Front(t.path))},
                 done \cup {Reached(Caller(t), "succeeded")})
        BY <3>2, <4>1, <4>2, LeaveAround
      <4> QED  BY <3>2, <4>2, <4>3
    <3> QED  BY <2>6, <3>1, <3>2 DEF EndStep
  <2> QED  BY <1>4, <2>1, <2>2, <2>3, <2>4, <2>5, <2>6 DEF Advance
<1> QED  BY <1>3, <1>4

\* The inductive invariant of StepsReachedOnce.
GoodIfDisciplined == AllDisciplined => Good(workflows, tokens, done)

LEMMA StaysGood == GraphInv /\ GoodIfDisciplined /\ [GraphNext]_graphVars => GoodIfDisciplined'
<1> SUFFICES ASSUME GraphInv, GoodIfDisciplined, [GraphNext]_graphVars, AllDisciplined'
             PROVE  Good(workflows', tokens', done')
  BY DEF GoodIfDisciplined
<1>1. CASE UNCHANGED graphVars
  <2>1. AllDisciplined
    BY <1>1 DEF graphVars, AllDisciplined
  <2> QED  BY <1>1, <2>1 DEF graphVars, GoodIfDisciplined
<1>2. CASE Validate
  <2>1. /\ workflows' = workflows /\ Accepted(workflows) /\ workflows \in Candidates
        /\ tokens' = {Token(Main, workflows[Main].start, <<>>)} /\ done' = {}
    BY <1>2 DEF Validate, AllDisciplined, GraphInv
  <2>2. Orderly(workflows)
    BY <2>1 DEF Orderly, AllDisciplined
  <2> DEFINE m == Token(Main, workflows[Main].start, <<>>)
  <2>3. GraphInv'
    BY LocatedStep
  <2>4. IsToken(workflows, m)
    BY <2>1, <2>3 DEF GraphInv
  <2>5. m.wf = Main /\ m.step = workflows[Main].start /\ m.path = <<>>
    BY DEF Token
  <2>6. Regions(workflows, m)
    <3> HIDE DEF m
    <3>1. Located(workflows, m) /\ Len(m.path) = 0
      BY <2>4, <2>5, EmptySeq DEF IsToken
    <3>2. Levels(m) = {1} /\ WfAt(m, 1) = Main /\ StepAt(m, 1) = workflows[Main].start
      BY <2>5, <3>1 DEF Levels, WfAt, StepAt
    <3>3. Main \in DOMAIN workflows
      BY <2>5, <3>1, LocationFacts
    <3>4. \A p \in OfType(workflows[Main], "parallel") :
            \A b \in workflows[Main].steps[p].branches :
              workflows[Main].start \notin Branch(workflows[Main], p, b)
      BY <2>2, <3>3, Structure, StartFacts DEF Sound
    <3> QED  BY <3>2, <3>4 DEF Regions, Placed
  <2> HIDE DEF m
  <2> QED  BY <2>1, <2>4, <2>6 DEF Good, m
<1>3. ASSUME NEW t \in tokens, Advance(t) PROVE Good(workflows', tokens', done')
  <2>1. workflows' = workflows /\ verdict' = verdict
    BY <1>3 DEF Advance
  <2>2. AllDisciplined
    BY <2>1 DEF AllDisciplined
  <2>3. Orderly(workflows) /\ Good(workflows, tokens, done)
    BY <2>2 DEF Orderly, AllDisciplined, GraphInv, GoodIfDisciplined
  <2> QED  BY <1>3, <2>1, <2>3, AdvanceGood
<1> QED  BY <1>1, <1>2, <1>3 DEF GraphNext

(***************************************************************************)
(* An accepted and disciplined scenario reaches each step at most once in  *)
(* a run, however its branches interleave, converge, fail and are          *)
(* abandoned: the result contract never sees a second attempt.             *)
(***************************************************************************)
THEOREM StepsReachedOnceCorrect == GraphSpec => []StepsReachedOnce
<1>1. GraphInit => GraphInv /\ GoodIfDisciplined
  BY DEF GraphInit, GraphInv, GoodIfDisciplined, AllDisciplined
<1>2. GraphInv /\ GoodIfDisciplined => StepsReachedOnce
  <2> SUFFICES ASSUME GraphInv, GoodIfDisciplined, AllDisciplined, NEW d \in done, NEW e \in done,
                      d.run = e.run, d.wf = e.wf, d.step = e.step
               PROVE  d = e
    BY DEF StepsReachedOnce
  <2>1. Orderly(workflows) /\ Good(workflows, tokens, done)
    BY DEF Orderly, AllDisciplined, GraphInv, GoodIfDisciplined
  <2>2. /\ Located(workflows, d) /\ Regions(workflows, d) /\ d.run = Run(d)
        /\ Located(workflows, e) /\ Regions(workflows, e) /\ e.run = Run(e)
        /\ workflows[d.wf].steps[d.step].type # "join"
    BY <2>1 DEF Good, IsReached, At
  <2>3. d.path = e.path
    BY <2>1, <2>2, SamePath
  <2> QED  BY <2>1, <2>3 DEF Good
<1> QED  BY <1>1, <1>2, LocatedStep, StaysGood, PTL DEF GraphSpec

-----------------------------------------------------------------------------
(* WorkflowGraph: what a predicate reads has been reported. What Available *)
(* and Guaranteed compute is used by what each step of a graph adds to it. *)

LEMMA CommonFacts ==
    ASSUME NEW E, NEW h, NEW x
    PROVE  x \in Common({h[t] : t \in E}) <=> E # {} /\ \A t \in E : x \in h[t]
<1> DEFINE sets == {h[t] : t \in E}
<1>1. x \in UNION sets <=> \E t \in E : x \in h[t]
  OBVIOUS
<1>2. (\A S \in sets : x \in S) <=> \A t \in E : x \in h[t]
  OBVIOUS
<1> HIDE DEF sets
<1>3. x \in Common(sets) <=> (\E t \in E : x \in h[t]) /\ \A t \in E : x \in h[t]
  BY <1>1, <1>2 DEF Common
<1> QED  BY <1>3 DEF sets

\* How many steps are not being visited.
Depth(N) == [visiting \in SUBSET N |-> Cardinality(N \ visiting)]

LEMMA Visits ==
    ASSUME NEW N, IsFiniteSet(N)
    PROVE  /\ Cardinality(N) \in Nat /\ Depth(N) \in [SUBSET N -> 0 .. Cardinality(N)]
           /\ \A visiting \in SUBSET N : \A s \in N \ visiting :
                /\ visiting \cup {s} \in SUBSET N
                /\ Depth(N)[visiting \cup {s}] < Depth(N)[visiting]
<1>1. Cardinality(N) \in Nat
  BY FS_CardinalityType
<1>2. \A S \in SUBSET N : IsFiniteSet(S) /\ Cardinality(S) \in 0 .. Cardinality(N)
  <2> SUFFICES ASSUME NEW S \in SUBSET N
               PROVE  IsFiniteSet(S) /\ Cardinality(S) \in 0 .. Cardinality(N)
    OBVIOUS
  <2>1. IsFiniteSet(S) /\ Cardinality(S) <= Cardinality(N)
    BY FS_Subset
  <2>2. Cardinality(S) \in Nat
    BY <2>1, FS_CardinalityType
  <2> QED  BY <1>1, <2>1, <2>2
<1>3. Depth(N) \in [SUBSET N -> 0 .. Cardinality(N)]
  BY <1>2 DEF Depth
<1>4. ASSUME NEW visiting \in SUBSET N, NEW s \in N \ visiting
      PROVE  /\ visiting \cup {s} \in SUBSET N
             /\ Depth(N)[visiting \cup {s}] < Depth(N)[visiting]
  <2> DEFINE rest == N \ visiting
  <2>1. visiting \cup {s} \in SUBSET N /\ N \ (visiting \cup {s}) = rest \ {s} /\ s \in rest
        /\ rest \in SUBSET N
    OBVIOUS
  <2>2. Depth(N)[visiting \cup {s}] = Cardinality(rest \ {s}) /\ Depth(N)[visiting] = Cardinality(rest)
    BY <2>1 DEF Depth
  <2> HIDE DEF rest
  <2>3. IsFiniteSet(rest) /\ Cardinality(rest) \in Nat /\ Cardinality(rest \ {s}) \in Nat
    BY <1>1, <1>2, <2>1
  <2>4. Cardinality(rest \ {s}) = Cardinality(rest) - 1
    BY <2>1, <2>3, FS_RemoveElement
  <2> QED  BY <2>1, <2>2, <2>3, <2>4
<1> QED  BY <1>1, <1>3, <1>4

(***************************************************************************)
(* What a branch guarantees: what the rest of it guarantees, whichever way *)
(* it goes, and the step itself.                                           *)
(***************************************************************************)
LEMMA GuaranteedFacts ==
    ASSUME NEW w, IsGraph(w), NEW j, NEW s \in Names(w)
    PROVE  /\ s = j => Guaranteed(w, s, j) = {}
           /\ \A t \in Edges(w, s) :
                Guaranteed(w, s, j) \subseteq
                    Guaranteed(w, t, j) \cup (IF HasOutcomes(w.steps[s]) THEN {s} ELSE {})
<1> DEFINE N == Names(w)
           D == SUBSET N
           V == [N -> D]
           own(a) == IF HasOutcomes(w.steps[a]) THEN {a} ELSE {}
           rest(f, v, a) == Common({f[v \cup {a}][t] : t \in Edges(w, a)})
           row(f, v) == [a \in N |-> IF a = j \/ a \in v THEN {} ELSE rest(f, v, a) \cup own(a)]
           table(f) == [v \in D |-> row(f, v)]
           G == [f \in [D -> V] |-> table(f)]
<1>1. IsFiniteSet(N) /\ \A a \in N : Edges(w, a) \in SUBSET N
  BY DEF IsGraph, Edges
<1>2. \A f, v, a, x : x \in rest(f, v, a) <=>
          Edges(w, a) # {} /\ \A t \in Edges(w, a) : x \in f[v \cup {a}][t]
  BY CommonFacts
<1>3. \A f, g, v, a : f[v \cup {a}] = g[v \cup {a}] => rest(f, v, a) = rest(g, v, a)
  BY Zenon
<1>4. \A a \in N : own(a) \in SUBSET N
  OBVIOUS
<1>5. \A f : \A v \in D : \A a \in N :
        table(f)[v][a] = IF a = j \/ a \in v THEN {} ELSE rest(f, v, a) \cup own(a)
  <2> HIDE DEF rest, own
  <2> QED  OBVIOUS
<1>6. Guaranteed(w, s, j) = (CHOOSE f : f = table(f))[{}][s]
      /\ \A t : Guaranteed(w, t, j) = (CHOOSE f : f = table(f))[{}][t]
  BY DEF Guaranteed
<1> HIDE DEF rest, own
<1>7. ASSUME NEW f \in [D -> V], NEW v \in D PROVE row(f, v) \in V
  <2> SUFFICES ASSUME NEW a \in N, a # j, a \notin v PROVE rest(f, v, a) \in D
    BY <1>4
  <2>1. v \cup {a} \in D
    OBVIOUS
  <2>2. \A t \in Edges(w, a) : f[v \cup {a}][t] \in D
    BY <1>1, <2>1
  <2> QED  BY <1>2, <2>2
<1>8. ASSUME NEW f \in [D -> V], NEW g \in [D -> V], NEW v \in D,
             \A y \in D : Depth(N)[y] < Depth(N)[v] => f[y] = g[y]
      PROVE  row(f, v) = row(g, v)
  <2> SUFFICES ASSUME NEW a \in N, a \notin v PROVE rest(f, v, a) = rest(g, v, a)
    OBVIOUS
  <2>1. v \cup {a} \in D /\ Depth(N)[v \cup {a}] < Depth(N)[v]
    BY <1>1, Visits
  <2> QED  BY <1>3, <1>8, <2>1
<1>9. \E f \in [D -> V] : G[f] = f
  <2>1. V # {}
    <3>1. [a \in N |-> {}] \in V
      OBVIOUS
    <3> QED  BY <3>1
  <2> HIDE DEF row
  <2>3. G \in [[D -> V] -> [D -> V]] /\ \A f \in [D -> V] : \A v \in D : G[f][v] = row(f, v)
    <3> HIDE DEF V, D
    <3> QED  BY <1>7
  <2> HIDE DEF V, G, D
  <2>2. Cardinality(N) \in Nat /\ Depth(N) \in [D -> 0 .. Cardinality(N)]
    BY <1>1, Visits DEF D
  <2> DEFINE S == [D -> V]
  <2>5. S = [D -> V] /\ G \in [S -> S]
    BY <2>3
  <2>4. LooksDeeper(D, V, S, G, Depth(N))
    BY <1>8, <2>3, <2>5 DEF LooksDeeper
  <2>7. (\E f \in S : G[f] = f) => \E f \in [D -> V] : G[f] = f
    OBVIOUS
  <2> HIDE DEF S
  <2> DEFINE depth == Depth(N)
             most == Cardinality(N)
  <2>6. most \in Nat /\ depth \in [D -> 0 .. most] /\ LooksDeeper(D, V, S, G, depth)
    BY <2>2, <2>4
  <2> HIDE DEF depth, most
  <2>8. \E f \in S : G[f] = f
    BY <2>1, <2>6, Recursion
  <2> QED  BY <2>7, <2>8, Zenon
<1> DEFINE c == CHOOSE f : f = table(f)
<1>10. c = table(c)
  <2>1. PICK f \in [D -> V] : G[f] = f
    BY <1>9
  <2>2. f = table(f)
    BY <2>1
  <2> HIDE DEF table
  <2> QED  BY <2>2, Zenon
<1>11. \A v \in D : \A a \in N :
         c[v][a] = IF a = j \/ a \in v THEN {} ELSE rest(c, v, a) \cup own(a)
  <2> HIDE DEF c, table
  <2> QED  BY <1>5, <1>10
<1> HIDE DEF c, table
<1>12. \A u \in D : \A v \in D : u \subseteq v => \A a \in N : c[v][a] \subseteq c[u][a]
  <2> DEFINE P(k) == \A u \in D : \A v \in D : u \subseteq v /\ Depth(N)[v] < k =>
                        \A a \in N : c[v][a] \subseteq c[u][a]
             A == {k \in Nat : P(k)}
  <2>0. \A v \in D : Depth(N)[v] \in Nat
    <3>1. Cardinality(N) \in Nat /\ Depth(N) \in [D -> 0 .. Cardinality(N)]
      BY <1>1, Visits
    <3> QED  BY <3>1
  <2>1. 0 \in A
    BY <2>0
  <2>2. ASSUME NEW k \in Nat, k \in A PROVE k + 1 \in A
    <3> SUFFICES ASSUME NEW u \in D, NEW v \in D, u \subseteq v, Depth(N)[v] < k + 1, NEW a \in N
                 PROVE  c[v][a] \subseteq c[u][a]
      OBVIOUS
    <3>0. c[v][a] = (IF a = j \/ a \in v THEN {} ELSE rest(c, v, a) \cup own(a))
          /\ c[u][a] = (IF a = j \/ a \in u THEN {} ELSE rest(c, u, a) \cup own(a))
      BY <1>11
    <3> SUFFICES ASSUME a # j, a \notin v PROVE rest(c, v, a) \subseteq rest(c, u, a)
      BY <3>0
    <3>1. u \cup {a} \in D /\ v \cup {a} \in D /\ u \cup {a} \subseteq v \cup {a}
      OBVIOUS
    <3>2. Depth(N)[v \cup {a}] < k
      <4>1. Depth(N)[v \cup {a}] < Depth(N)[v]
        BY <1>1, Visits
      <4> QED  BY <2>0, <3>1, <4>1
    <3>3. \A t \in N : c[v \cup {a}][t] \subseteq c[u \cup {a}][t]
      BY <2>2, <3>1, <3>2
    <3> QED  BY <1>1, <1>2, <3>3
  <2>3. \A k \in Nat : k \in A
    <3> HIDE DEF A
    <3> QED  BY <2>1, <2>2, SetInduction
  <2> SUFFICES ASSUME NEW u \in D, NEW v \in D, u \subseteq v PROVE \A a \in N : c[v][a] \subseteq c[u][a]
    OBVIOUS
  <2>4. Depth(N)[v] + 1 \in Nat /\ Depth(N)[v] < Depth(N)[v] + 1
    BY <2>0
  <2>5. P(Depth(N)[v] + 1)
    BY <2>3, <2>4
  <2> QED  BY <2>4, <2>5
<1>13. \A a : Guaranteed(w, a, j) = c[{}][a]
  BY <1>6 DEF c
<1>14. {} \in D /\ {s} \in D /\ {} \cup {s} = {s}
  OBVIOUS
<1>15. s = j => Guaranteed(w, s, j) = {}
  BY <1>11, <1>13, <1>14
<1>16. ASSUME NEW t \in Edges(w, s), NEW x \in Guaranteed(w, s, j), x \notin own(s)
       PROVE  x \in Guaranteed(w, t, j)
  <2>0. c[{}][s] = IF s = j \/ s \in {} THEN {} ELSE rest(c, {}, s) \cup own(s)
    BY <1>11, <1>14
  <2>1. x \in rest(c, {}, s)
    BY <1>13, <1>16, <2>0
  <2>2. x \in c[{s}][t]
    BY <1>2, <1>14, <2>1
  <2>3. t \in N
    BY <1>1
  <2>4. c[{s}][t] \subseteq c[{}][t]
    BY <1>12, <1>14, <2>3
  <2> QED  BY <1>13, <2>2, <2>4
<1> QED  BY <1>15, <1>16 DEF own

(***************************************************************************)
(* What is known at a step: at a join, what was known at its parallel      *)
(* step, that step, and what its branches guarantee; elsewhere no more     *)
(* than what was known at each step before it or is left behind by it.     *)
(***************************************************************************)
LEMMA AvailableFacts ==
    ASSUME NEW w, IsGraph(w), JoinsOwned(w), NEW s \in Names(w)
    PROVE  /\ s = w.start => Available(w, s) = {}
           /\ w.steps[s].type # "join" =>
                \A p \in Names(w) : s \in Edges(w, p) =>
                    Available(w, s) \subseteq Available(w, p) \cup OutOf(w, p, s)
           /\ w.steps[s].type = "join" =>
                \A p \in OfType(w, "parallel") : w.steps[p].join = s =>
                    Available(w, s) \subseteq Available(w, p) \cup {p}
                        \cup UNION {Guaranteed(w, b, s) : b \in w.steps[p].branches}
<1> DEFINE N == Names(w)
           D == SUBSET N
           owner(a) == CHOOSE p \in Owners(w, a) : TRUE
           given(a) == UNION {Guaranteed(w, b, a) : b \in w.steps[owner(a)].branches}
           U == N \cup UNION {given(a) : a \in N}
           V == [N -> SUBSET U]
           joined(f, v, a) == f[v \cup {a}][owner(a)] \cup {owner(a)} \cup given(a)
           common(f, v, a) ==
               Common({f[v \cup {a}][p] \cup OutOf(w, p, a) : p \in Predecessors(w, a)})
           row(f, v) == [a \in N |-> IF a = w.start \/ a \in v THEN {}
                                     ELSE IF w.steps[a].type = "join" THEN joined(f, v, a)
                                     ELSE common(f, v, a)]
           table(f) == [v \in D |-> row(f, v)]
           G == [f \in [D -> V] |-> table(f)]
<1>1. IsFiniteSet(N) /\ \A a \in N : Predecessors(w, a) \in SUBSET N
  BY DEF IsGraph, Predecessors
<1>2. \A f, v, a, x : x \in common(f, v, a) <=>
          /\ Predecessors(w, a) # {}
          /\ \A p \in Predecessors(w, a) : x \in f[v \cup {a}][p] \/ x \in OutOf(w, p, a)
  <2> TAKE f, v, a, x
  <2> DEFINE E == Predecessors(w, a)
             h == [p \in E |-> f[v \cup {a}][p] \cup OutOf(w, p, a)]
  <2>1. {h[p] : p \in E} = {f[v \cup {a}][p] \cup OutOf(w, p, a) : p \in E}
    OBVIOUS
  <2>2. x \in Common({h[p] : p \in E}) <=> E # {} /\ \A p \in E : x \in h[p]
    BY CommonFacts
  <2>3. common(f, v, a) = Common({h[p] : p \in E})
    BY <2>1
  <2>4. \A p \in E : x \in h[p] <=> x \in f[v \cup {a}][p] \/ x \in OutOf(w, p, a)
    OBVIOUS
  <2> HIDE DEF h, common, E
  <2> QED  BY <2>2, <2>3, <2>4 DEF E
<1>3. \A f, g, v, a : f[v \cup {a}] = g[v \cup {a}] => common(f, v, a) = common(g, v, a)
  BY Zenon
<1>4. \A p, a : OutOf(w, p, a) \subseteq {p}
  BY DEF OutOf
<1>5. \A f : \A v \in D : \A a \in N :
        table(f)[v][a] = IF a = w.start \/ a \in v THEN {}
                         ELSE IF w.steps[a].type = "join" THEN joined(f, v, a)
                         ELSE common(f, v, a)
  <2> HIDE DEF joined, common
  <2> QED  OBVIOUS
<1>6. \A t : Available(w, t) = (CHOOSE f : f = table(f))[{}][t]
  BY DEF Available
<1>7. \A a \in N : w.steps[a].type = "join" =>
        owner(a) \in N /\ \A p \in OfType(w, "parallel") : w.steps[p].join = a => p = owner(a)
  <2> SUFFICES ASSUME NEW a \in N, w.steps[a].type = "join"
               PROVE  /\ owner(a) \in N
                      /\ \A p \in OfType(w, "parallel") : w.steps[p].join = a => p = owner(a)
    OBVIOUS
  <2>1. Cardinality(Owners(w, a)) = 1
    BY DEF JoinsOwned, OfType
  <2>2. IsFiniteSet(Owners(w, a)) /\ Owners(w, a) \in SUBSET N
    <3>1. Owners(w, a) \in SUBSET N
      BY DEF Owners, OfType
    <3> QED  BY <1>1, <3>1, FS_Subset
  <2>3. PICK x : Owners(w, a) = {x}
    BY <2>1, <2>2, FS_Singleton
  <2>4. owner(a) = x /\ x \in N
    BY <2>2, <2>3
  <2> QED  BY <2>3, <2>4 DEF Owners
<1>8. \A a \in N : given(a) \in SUBSET U
  <2> HIDE DEF given
  <2> QED  OBVIOUS
<1> HIDE DEF given, owner, common
<1>9. ASSUME NEW f \in [D -> V], NEW v \in D PROVE row(f, v) \in V
  <2> SUFFICES ASSUME NEW a \in N, a \notin v
               PROVE  /\ w.steps[a].type = "join" => joined(f, v, a) \in SUBSET U
                      /\ w.steps[a].type # "join" => common(f, v, a) \in SUBSET U
    <3> HIDE DEF joined, U
    <3> QED  OBVIOUS
  <2>1. v \cup {a} \in D /\ N \in SUBSET U
    OBVIOUS
  <2>2. \A t \in N : f[v \cup {a}][t] \in SUBSET U
    <3> HIDE DEF U
    <3> QED  BY <2>1
  <2>3. w.steps[a].type = "join" => joined(f, v, a) \in SUBSET U
    <3> HIDE DEF U
    <3> QED  BY <1>7, <1>8, <2>1, <2>2
  <2>4. common(f, v, a) \in SUBSET U
    <3> HIDE DEF U
    <3> SUFFICES ASSUME NEW x \in common(f, v, a) PROVE x \in U
      OBVIOUS
    <3>1. PICK p \in Predecessors(w, a) : x \in f[v \cup {a}][p] \/ x \in OutOf(w, p, a)
      BY <1>2
    <3>2. p \in N
      BY <1>1
    <3> QED  BY <1>4, <2>1, <2>2, <3>1, <3>2
  <2> QED  BY <2>3, <2>4
<1> HIDE DEF U
<1>10. ASSUME NEW f \in [D -> V], NEW g \in [D -> V], NEW v \in D,
             \A y \in D : Depth(N)[y] < Depth(N)[v] => f[y] = g[y]
      PROVE  row(f, v) = row(g, v)
  <2> SUFFICES ASSUME NEW a \in N, a \notin v
               PROVE  joined(f, v, a) = joined(g, v, a) /\ common(f, v, a) = common(g, v, a)
    <3> HIDE DEF joined
    <3> QED  OBVIOUS
  <2>1. v \cup {a} \in D /\ Depth(N)[v \cup {a}] < Depth(N)[v]
    BY <1>1, Visits
  <2>2. f[v \cup {a}] = g[v \cup {a}]
    BY <1>10, <2>1
  <2> QED  BY <1>3, <2>2
<1>11. \E f \in [D -> V] : G[f] = f
  <2>1. V # {}
    <3>1. [a \in N |-> {}] \in V
      OBVIOUS
    <3> QED  BY <3>1
  <2> HIDE DEF row
  <2>2. G \in [[D -> V] -> [D -> V]] /\ \A f \in [D -> V] : \A v \in D : G[f][v] = row(f, v)
    <3> HIDE DEF V, D
    <3> QED  BY <1>9
  <2> HIDE DEF V, G, D
  <2>3. Cardinality(N) \in Nat /\ Depth(N) \in [D -> 0 .. Cardinality(N)]
    BY <1>1, Visits DEF D
  <2> DEFINE S == [D -> V]
  <2>4. S = [D -> V] /\ G \in [S -> S]
    BY <2>2
  <2>5. LooksDeeper(D, V, S, G, Depth(N))
    BY <1>10, <2>2, <2>4 DEF LooksDeeper
  <2>6. (\E f \in S : G[f] = f) => \E f \in [D -> V] : G[f] = f
    OBVIOUS
  <2> HIDE DEF S
  <2> DEFINE depth == Depth(N)
             most == Cardinality(N)
  <2>7. most \in Nat /\ depth \in [D -> 0 .. most] /\ LooksDeeper(D, V, S, G, depth)
    BY <2>3, <2>5
  <2> HIDE DEF depth, most
  <2>8. \E f \in S : G[f] = f
    BY <2>1, <2>7, Recursion
  <2> QED  BY <2>6, <2>8, Zenon
<1> DEFINE c == CHOOSE f : f = table(f)
<1>12. c = table(c)
  <2>1. PICK f \in [D -> V] : G[f] = f
    BY <1>11
  <2>2. f = table(f)
    BY <2>1
  <2> HIDE DEF table
  <2> QED  BY <2>2, Zenon
<1>13. \A v \in D : \A a \in N :
         c[v][a] = IF a = w.start \/ a \in v THEN {}
                   ELSE IF w.steps[a].type = "join" THEN joined(c, v, a)
                   ELSE common(c, v, a)
  <2> HIDE DEF c, table, joined
  <2> QED  BY <1>5, <1>12
<1> HIDE DEF c, table
<1>14. \A u \in D : \A v \in D : u \subseteq v => \A a \in N : c[v][a] \subseteq c[u][a]
  <2> DEFINE P(k) == \A u \in D : \A v \in D : u \subseteq v /\ Depth(N)[v] < k =>
                        \A a \in N : c[v][a] \subseteq c[u][a]
             A == {k \in Nat : P(k)}
  <2>0. \A v \in D : Depth(N)[v] \in Nat
    <3>1. Cardinality(N) \in Nat /\ Depth(N) \in [D -> 0 .. Cardinality(N)]
      BY <1>1, Visits
    <3> QED  BY <3>1
  <2>1. 0 \in A
    BY <2>0
  <2>2. ASSUME NEW k \in Nat, k \in A PROVE k + 1 \in A
    <3> SUFFICES ASSUME NEW u \in D, NEW v \in D, u \subseteq v, Depth(N)[v] < k + 1, NEW a \in N,
                        a # w.start, a \notin v
                 PROVE  c[v][a] \subseteq c[u][a]
      <4>1. \A v \in D : \A a \in N : a = w.start \/ a \in v => c[v][a] = {}
        BY <1>13
      <4> QED  BY <4>1
    <3>1. u \cup {a} \in D /\ v \cup {a} \in D /\ u \cup {a} \subseteq v \cup {a} /\ a \notin u
      OBVIOUS
    <3>2. Depth(N)[v \cup {a}] < k
      <4>1. Depth(N)[v \cup {a}] < Depth(N)[v]
        BY <1>1, Visits
      <4> QED  BY <2>0, <3>1, <4>1
    <3>3. \A t \in N : c[v \cup {a}][t] \subseteq c[u \cup {a}][t]
      BY <2>2, <3>1, <3>2
    <3>4. CASE w.steps[a].type = "join"
      <4>1. c[v][a] = joined(c, v, a) /\ c[u][a] = joined(c, u, a)
        BY <1>13, <3>1, <3>4
      <4>2. owner(a) \in N
        BY <1>7, <3>4
      <4>3. c[v \cup {a}][owner(a)] \subseteq c[u \cup {a}][owner(a)]
        BY <3>3, <4>2
      <4>4. joined(c, v, a) \subseteq joined(c, u, a)
        BY <4>3
      <4> HIDE DEF joined
      <4> QED  BY <4>1, <4>4
    <3>5. CASE w.steps[a].type # "join"
      <4>1. c[v][a] = common(c, v, a) /\ c[u][a] = common(c, u, a)
        BY <1>13, <3>1, <3>5
      <4>2. \A p \in Predecessors(w, a) : c[v \cup {a}][p] \subseteq c[u \cup {a}][p]
        BY <1>1, <3>3
      <4>3. \A x : x \in common(c, v, a) => x \in common(c, u, a)
        <5> HIDE DEF D
        <5> QED  BY <1>2, <4>2
      <4> QED  BY <4>1, <4>3
    <3> QED  BY <3>4, <3>5
  <2>3. \A k \in Nat : k \in A
    <3> HIDE DEF A
    <3> QED  BY <2>1, <2>2, SetInduction
  <2> SUFFICES ASSUME NEW u \in D, NEW v \in D, u \subseteq v PROVE \A a \in N : c[v][a] \subseteq c[u][a]
    OBVIOUS
  <2>4. Depth(N)[v] + 1 \in Nat /\ Depth(N)[v] < Depth(N)[v] + 1
    BY <2>0
  <2>5. P(Depth(N)[v] + 1)
    BY <2>3, <2>4
  <2> QED  BY <2>4, <2>5
<1>15. \A a : Available(w, a) = c[{}][a]
  BY <1>6 DEF c
<1>16. {} \in D /\ {s} \in D /\ {} \cup {s} = {s} /\ s \notin {}
  OBVIOUS
<1>17. \A t \in N : c[{s}][t] \subseteq Available(w, t)
  BY <1>14, <1>15, <1>16
<1>18. s = w.start => Available(w, s) = {}
  BY <1>13, <1>15, <1>16
<1>19. ASSUME w.steps[s].type # "join", s # w.start, NEW p \in N, s \in Edges(w, p)
       PROVE  Available(w, s) \subseteq Available(w, p) \cup OutOf(w, p, s)
  <2>1. Available(w, s) = common(c, {}, s)
    BY <1>13, <1>15, <1>16, <1>19
  <2>2. p \in Predecessors(w, s)
    BY <1>19 DEF Predecessors
  <2>3. \A x \in common(c, {}, s) : x \in c[{s}][p] \/ x \in OutOf(w, p, s)
    BY <1>2, <1>16, <2>2
  <2> QED  BY <1>17, <2>1, <2>3
<1>20. ASSUME w.steps[s].type = "join", s # w.start, NEW p \in OfType(w, "parallel"), w.steps[p].join = s
       PROVE  Available(w, s) \subseteq Available(w, p) \cup {p}
                        \cup UNION {Guaranteed(w, b, s) : b \in w.steps[p].branches}
  <2>0. owner(s) = p /\ p \in N
    BY <1>7, <1>20
  <2>1. Available(w, s) = joined(c, {}, s)
    <3> HIDE DEF joined
    <3> QED  BY <1>13, <1>15, <1>16, <1>20
  <2>2. given(s) = UNION {Guaranteed(w, b, s) : b \in w.steps[p].branches}
    BY <2>0 DEF given
  <2> QED  BY <1>16, <1>17, <2>0, <2>1, <2>2
<1> QED  BY <1>18, <1>19, <1>20

-----------------------------------------------------------------------------
(***************************************************************************)
(* What control knows at step s of a workflow, in a run that reported the  *)
(* states of K, inside of branch b of the parallel step around it, if      *)
(* there is one in the run.                                                *)
(***************************************************************************)
Informed(w, K, b, s) ==
    /\ w.steps[s].type # "join" => Available(w, s) \subseteq K
    /\ b # NoName =>
         \A j \in Names(w) : Guaranteed(w, b, j) \subseteq K \cup Guaranteed(w, s, j)

LEMMA InformedMore ==
    ASSUME NEW w, NEW K, NEW b, NEW s, Informed(w, K, b, s), NEW L, K \subseteq L
    PROVE  Informed(w, L, b, s)
BY DEF Informed

LEMMA InformedStart ==
    ASSUME NEW w, Sound(w), NEW K
    PROVE  Informed(w, K, NoName, w.start)
<1>1. Available(w, w.start) = {}
  BY AvailableFacts DEF Sound, Defined
<1> QED  BY <1>1 DEF Informed

LEMMA InformedNext ==
    ASSUME NEW w, Sound(w), NEW K, NEW b, NEW s \in Names(w), Informed(w, K, b, s),
           w.steps[s].type # "join", HasOutcomes(w.steps[s]) => s \in K, NEW x \in Edges(w, s)
    PROVE  Informed(w, K, b, x)
<1>1. x \in Names(w) /\ IsGraph(w) /\ JoinsOwned(w)
  BY DEF Edges, Sound
<1>2. OutOf(w, s, x) \subseteq K
  BY DEF OutOf, HasOutcomes, Outcomes
<1>3. w.steps[x].type # "join" => Available(w, x) \subseteq K
  <2>1. w.steps[x].type # "join" => Available(w, x) \subseteq Available(w, s) \cup OutOf(w, s, x)
    BY <1>1, AvailableFacts
  <2> QED  BY <1>2, <2>1 DEF Informed
<1>4. ASSUME b # NoName, NEW j \in Names(w)
      PROVE  Guaranteed(w, b, j) \subseteq K \cup Guaranteed(w, x, j)
  <2>1. Guaranteed(w, s, j) \subseteq
          Guaranteed(w, x, j) \cup (IF HasOutcomes(w.steps[s]) THEN {s} ELSE {})
    BY <1>1, GuaranteedFacts
  <2>2. Guaranteed(w, b, j) \subseteq K \cup Guaranteed(w, s, j)
    BY <1>4 DEF Informed
  <2> QED  BY <2>1, <2>2
<1> QED  BY <1>3, <1>4 DEF Informed

LEMMA InformedFork ==
    ASSUME NEW w, Sound(w), NEW K, NEW b, NEW p \in OfType(w, "parallel"), Informed(w, K, b, p),
           NEW c \in w.steps[p].branches
    PROVE  Informed(w, K, c, c)
<1>1. p \in Names(w) /\ c \in Edges(w, p) /\ c \in Names(w) /\ IsGraph(w) /\ JoinsOwned(w)
      /\ w.steps[p].type = "parallel" /\ w.steps[p].join \in OfType(w, "join")
  BY DEF OfType, Sound, Defined, Successors, Edges, JoinsOwned
<1>2. ASSUME w.steps[c].type # "join" PROVE Available(w, c) \subseteq K
  <2>1. c \in Branch(w, p, c)
    BY <1>1, <1>2, BranchFacts DEF Sound, OfType
  <2>2. "failure" \in DOMAIN w.steps[p].on => w.steps[p].on["failure"] # c
    BY <2>1, BranchFacts DEF Sound
  <2>3. OutOf(w, p, c) = {}
    BY <1>1, <2>2 DEF OutOf
  <2>4. Available(w, c) \subseteq Available(w, p) \cup OutOf(w, p, c)
    BY <1>1, <1>2, AvailableFacts
  <2>5. Available(w, p) \subseteq K
    BY <1>1 DEF Informed
  <2> QED  BY <2>3, <2>4, <2>5
<1> QED  BY <1>2 DEF Informed

LEMMA InformedJoin ==
    ASSUME NEW w, Sound(w), NEW K, NEW b, NEW p \in OfType(w, "parallel"), Informed(w, K, b, p),
           p \in K, NEW j, j = w.steps[p].join,
           \A c \in w.steps[p].branches : c # NoName /\ Informed(w, K, c, j),
           NEW x \in Edges(w, j)
    PROVE  Informed(w, K, b, x)
<1>1. /\ p \in Names(w) /\ j \in Names(w) /\ x \in Names(w) /\ IsGraph(w) /\ JoinsOwned(w)
      /\ w.steps[p].type = "parallel" /\ w.steps[j].type = "join"
      /\ \A c \in w.steps[p].branches : c \in Edges(w, p) /\ c \in Names(w)
  BY DEF OfType, Sound, Defined, Successors, Edges, JoinsOwned
<1>2. \A i \in Names(w) : /\ \A c \in w.steps[p].branches :
                               Guaranteed(w, c, i) \subseteq K \cup Guaranteed(w, j, i)
                          /\ Guaranteed(w, j, i) \subseteq Guaranteed(w, x, i)
  <2>1. ~HasOutcomes(w.steps[j])
    BY <1>1 DEF HasOutcomes, Outcomes
  <2>2. \A i : Guaranteed(w, j, i) \subseteq
                 Guaranteed(w, x, i) \cup (IF HasOutcomes(w.steps[j]) THEN {j} ELSE {})
    BY <1>1, GuaranteedFacts
  <2> QED  BY <2>1, <2>2 DEF Informed
<1>3. Available(w, p) \subseteq K
  BY <1>1 DEF Informed
<1>4. Available(w, j) \subseteq K
  <2>1. Guaranteed(w, j, j) = {}
    BY <1>1, GuaranteedFacts
  <2>2. \A c \in w.steps[p].branches : Guaranteed(w, c, j) \subseteq K
    BY <1>1, <1>2, <2>1
  <2>3. Available(w, j) \subseteq Available(w, p) \cup {p}
            \cup UNION {Guaranteed(w, c, j) : c \in w.steps[p].branches}
    BY <1>1, AvailableFacts
  <2> QED  BY <1>3, <2>2, <2>3
<1>5. w.steps[x].type # "join" => Available(w, x) \subseteq K
  <2>1. w.steps[x].type # "join" => Available(w, x) \subseteq Available(w, j) \cup OutOf(w, j, x)
    BY <1>1, AvailableFacts
  <2>2. OutOf(w, j, x) = {}
    BY <1>1 DEF OutOf
  <2> QED  BY <1>4, <2>1, <2>2
<1>6. ASSUME b # NoName, NEW i \in Names(w)
      PROVE  Guaranteed(w, b, i) \subseteq K \cup Guaranteed(w, x, i)
  <2>1. PICK c \in w.steps[p].branches : TRUE
    <3> DEFINE B == w.steps[p].branches
    <3>1. Cardinality(B) > 1
      BY <1>1 DEF Sound, WellFormed
    <3> HIDE DEF B
    <3>2. B = {} => Cardinality(B) = 0
      BY FS_EmptySet, Zenon
    <3>3. B # {}
      BY <3>1, <3>2
    <3> QED  BY <3>3 DEF B
  <2>2. Guaranteed(w, p, i) \subseteq
          Guaranteed(w, c, i) \cup (IF HasOutcomes(w.steps[p]) THEN {p} ELSE {})
    BY <1>1, GuaranteedFacts
  <2>3. Guaranteed(w, b, i) \subseteq K \cup Guaranteed(w, p, i)
    BY <1>6 DEF Informed
  <2> QED  BY <1>2, <2>2, <2>3
<1> QED  BY <1>5, <1>6 DEF Informed

-----------------------------------------------------------------------------
(***************************************************************************)
(* What is known at each level of a location.                              *)
(***************************************************************************)
RunAt(path, n) == {path[k] : k \in {c \in 1 .. n : path[c].branch = NoName}}
BranchAt(path, n) == IF n = 0 THEN NoName ELSE path[n].branch
Heard(D, run, wf) == {d.step : d \in {e \in D : e.run = run /\ e.wf = wf}}

Knows(ws, D, path, n, wf, s) ==
    Informed(ws[wf], Heard(D, RunAt(path, n), wf), BranchAt(path, n), s)
Knowing(ws, D, l) ==
    \A i \in Levels(l) : Knows(ws, D, l.path, i - 1, WfAt(l, i), StepAt(l, i))

LEMMA KnowsAlike ==
    ASSUME NEW ws, NEW D, NEW path, NEW other, NEW n \in Nat, \A k \in 1 .. n : other[k] = path[k],
           NEW wf, NEW s, Knows(ws, D, path, n, wf, s)
    PROVE  Knows(ws, D, other, n, wf, s)
<1>1. RunAt(other, n) = RunAt(path, n)
  <2>1. {c \in 1 .. n : other[c].branch = NoName} = {c \in 1 .. n : path[c].branch = NoName}
    OBVIOUS
  <2> DEFINE calls == {c \in 1 .. n : path[c].branch = NoName}
  <2>2. {other[k] : k \in calls} = {path[k] : k \in calls}
    OBVIOUS
  <2> QED  BY <2>1, <2>2 DEF RunAt
<1>2. BranchAt(other, n) = BranchAt(path, n)
  <2>1. n # 0 => n \in 1 .. n
    OBVIOUS
  <2> QED  BY <2>1 DEF BranchAt
<1> QED  BY <1>1, <1>2 DEF Knows

LEMMA KnowingMore ==
    ASSUME NEW ws, NEW D, NEW l, Knowing(ws, D, l), NEW E, D \subseteq E
    PROVE  Knowing(ws, E, l)
<1>1. \A run, wf : Heard(D, run, wf) \subseteq Heard(E, run, wf)
  BY DEF Heard
<1> QED  BY <1>1, InformedMore DEF Knowing, Knows

\* A location knows what it shares with another.
LEMMA KnowingLike ==
    ASSUME NEW ws, NEW D, NEW l, Knowing(ws, D, l), Len(l.path) \in Nat,
           NEW m, Len(m.path) \in Nat,
           \A i \in Levels(m) : \/ Knows(ws, D, m.path, i - 1, WfAt(m, i), StepAt(m, i))
                                \/ /\ i \in Levels(l)
                                   /\ WfAt(m, i) = WfAt(l, i) /\ StepAt(m, i) = StepAt(l, i)
                                   /\ \A k \in 1 .. (i - 1) : m.path[k] = l.path[k]
    PROVE  Knowing(ws, D, m)
<1> SUFFICES ASSUME NEW i \in Levels(m), i \in Levels(l),
                    WfAt(m, i) = WfAt(l, i), StepAt(m, i) = StepAt(l, i),
                    \A k \in 1 .. (i - 1) : m.path[k] = l.path[k]
             PROVE  Knows(ws, D, m.path, i - 1, WfAt(m, i), StepAt(m, i))
  BY DEF Knowing
<1> DEFINE n == i - 1
<1>1. n \in Nat /\ \A k \in 1 .. n : m.path[k] = l.path[k]
  BY DEF Levels
<1>2. Knows(ws, D, l.path, n, WfAt(l, i), StepAt(l, i))
  BY DEF Knowing
<1> HIDE DEF n
<1>3. Knows(ws, D, m.path, n, WfAt(l, i), StepAt(l, i))
  BY <1>1, <1>2, KnowsAlike
<1> QED  BY <1>3 DEF n

LEMMA KnowingBeside ==
    ASSUME NEW ws, NEW D, NEW l, Located(ws, l), Knowing(ws, D, l), NEW m, m.path = l.path,
           m.wf = l.wf, Knows(ws, D, l.path, Len(l.path), l.wf, m.step)
    PROVE  Knowing(ws, D, m)
<1> DEFINE n == Len(l.path)
<1>1. n \in Nat /\ Levels(l) = 1 .. (n + 1) /\ Levels(m) = 1 .. (n + 1)
  BY LocationFacts DEF Levels
<1>2. \A i \in Levels(l) : /\ WfAt(m, i) = WfAt(l, i)
                           /\ i <= n => StepAt(m, i) = StepAt(l, i)
                           /\ ~(i <= n) => StepAt(m, i) = m.step /\ WfAt(m, i) = l.wf
  BY DEF WfAt, StepAt
<1>3. Knows(ws, D, m.path, n, l.wf, m.step)
  OBVIOUS
<1> HIDE DEF n
<1>4. \A i \in Levels(m) : ~(i <= n) => i - 1 = n
  BY <1>1
<1>5. \A i \in Levels(m) : ~(i <= n) => Knows(ws, D, m.path, i - 1, WfAt(m, i), StepAt(m, i))
  BY <1>1, <1>2, <1>3, <1>4
<1>6. \A i \in Levels(m) : i <= n => /\ i \in Levels(l)
                                     /\ WfAt(m, i) = WfAt(l, i) /\ StepAt(m, i) = StepAt(l, i)
                                     /\ \A k \in 1 .. (i - 1) : m.path[k] = l.path[k]
  BY <1>1, <1>2
<1>7. Len(l.path) \in Nat /\ Len(m.path) \in Nat
  BY <1>1 DEF n
<1> QED  BY <1>5, <1>6, <1>7, KnowingLike

LEMMA KnowingInside ==
    ASSUME NEW ws, NEW D, NEW l, Located(ws, l), Knowing(ws, D, l), NEW f \in Frames(ws),
           f.wf = l.wf, f.step = l.step,
           NEW m, m.path = Append(l.path, f),
           Knows(ws, D, m.path, Len(l.path) + 1, m.wf, m.step)
    PROVE  Knowing(ws, D, m)
<1> DEFINE n == Len(l.path)
<1>1. n \in Nat /\ Levels(l) = 1 .. (n + 1)
  BY LocationFacts DEF Levels
<1>2. /\ Len(m.path) = n + 1 /\ m.path[n + 1] = f
      /\ \A i \in 1 .. n : m.path[i] = l.path[i]
  <2>1. l.path \in Seq(Frames(ws))
    BY DEF Located
  <2> QED  BY <2>1, <1>1, AppendProperties
<1>3. Levels(m) = 1 .. ((n + 1) + 1)
  BY <1>2 DEF Levels
<1>4. \A i \in Levels(l) : /\ i <= n => WfAt(l, i) = l.path[i].wf /\ StepAt(l, i) = l.path[i].step
                           /\ ~(i <= n) => WfAt(l, i) = l.wf /\ StepAt(l, i) = l.step
  BY DEF WfAt, StepAt
<1>5. \A i \in Levels(m) :
        /\ i <= n + 1 => WfAt(m, i) = m.path[i].wf /\ StepAt(m, i) = m.path[i].step
        /\ ~(i <= n + 1) => WfAt(m, i) = m.wf /\ StepAt(m, i) = m.step
  BY <1>2 DEF WfAt, StepAt
<1>6. Knows(ws, D, m.path, n + 1, m.wf, m.step)
  OBVIOUS
<1> HIDE DEF n
<1>7. \A i \in Levels(m) : i = n + 2 => Knows(ws, D, m.path, i - 1, WfAt(m, i), StepAt(m, i))
  <2> SUFFICES ASSUME NEW i \in Levels(m), i = n + 2
               PROVE  Knows(ws, D, m.path, i - 1, WfAt(m, i), StepAt(m, i))
    OBVIOUS
  <2>1. i - 1 = n + 1 /\ ~(i <= n + 1)
    BY <1>1
  <2> QED  BY <1>5, <1>6, <2>1
<1>8. ASSUME NEW i \in Levels(m), i # n + 2
      PROVE  /\ i \in Levels(l) /\ WfAt(m, i) = WfAt(l, i) /\ StepAt(m, i) = StepAt(l, i)
             /\ \A k \in 1 .. (i - 1) : m.path[k] = l.path[k]
  <2>1. i \in Levels(l) /\ i <= n + 1 /\ \A k \in 1 .. (i - 1) : k \in 1 .. n
    BY <1>1, <1>3, <1>8
  <2>2. CASE i = n + 1
    <3>1. ~(i <= n)
      BY <1>1, <2>2
    <3> QED  BY <1>2, <1>4, <1>5, <2>1, <2>2, <3>1
  <2>3. CASE i # n + 1
    <3>1. i \in 1 .. n /\ i <= n
      BY <1>1, <1>3, <1>8, <2>3
    <3> QED  BY <1>2, <1>4, <1>5, <2>1, <3>1
  <2> QED  BY <2>2, <2>3
<1>9. Len(l.path) \in Nat /\ Len(m.path) \in Nat
  BY <1>1, <1>2 DEF n
<1> QED  BY <1>7, <1>8, <1>9, KnowingLike

LEMMA KnowingAround ==
    ASSUME NEW ws, NEW D, NEW l, Located(ws, l), Knowing(ws, D, l), l.path # <<>>,
           NEW m, m.path = Front(l.path), m.wf = Outer(l).wf, m.step = Outer(l).step
    PROVE  Knowing(ws, D, m)
<1> DEFINE n == Len(l.path)
<1>1. n \in Nat /\ n > 0 /\ Levels(l) = 1 .. (n + 1)
  BY LocationFacts DEF Levels
<1>2. /\ Len(m.path) = n - 1 /\ \A i \in 1 .. (n - 1) : m.path[i] = l.path[i]
      /\ m.wf = l.path[n].wf /\ m.step = l.path[n].step
  BY OuterFacts DEF Outer
<1>3. Levels(m) = 1 .. ((n - 1) + 1)
  BY <1>2 DEF Levels
<1>4. \A i \in Levels(l) : i <= n => WfAt(l, i) = l.path[i].wf /\ StepAt(l, i) = l.path[i].step
  BY DEF WfAt, StepAt
<1>5. \A i \in Levels(m) :
        /\ i <= n - 1 => WfAt(m, i) = m.path[i].wf /\ StepAt(m, i) = m.path[i].step
        /\ ~(i <= n - 1) => WfAt(m, i) = m.wf /\ StepAt(m, i) = m.step
  BY <1>2 DEF WfAt, StepAt
<1> HIDE DEF n
<1>6. ASSUME NEW i \in Levels(m)
      PROVE  /\ i \in Levels(l) /\ WfAt(m, i) = WfAt(l, i) /\ StepAt(m, i) = StepAt(l, i)
             /\ \A k \in 1 .. (i - 1) : m.path[k] = l.path[k]
  <2>1. i \in Levels(l) /\ i <= n /\ \A k \in 1 .. (i - 1) : k \in 1 .. (n - 1)
    BY <1>1, <1>3
  <2>2. CASE i = n
    <3>1. ~(i <= n - 1)
      BY <1>1, <2>2
    <3> QED  BY <1>2, <1>4, <1>5, <2>1, <2>2, <3>1
  <2>3. CASE i # n
    <3>1. i \in 1 .. (n - 1) /\ i <= n - 1
      BY <1>1, <1>3, <2>3
    <3> QED  BY <1>2, <1>4, <1>5, <2>1, <3>1
  <2> QED  BY <2>2, <2>3
<1>7. Len(l.path) \in Nat /\ Len(m.path) \in Nat
  BY <1>1, <1>2 DEF n
<1> QED  BY <1>6, <1>7, KnowingLike

\* The last level of a location, in its run.
LEMMA KnowsLast ==
    ASSUME NEW ws, NEW D, NEW l, Located(ws, l)
    PROVE  /\ Run(l) = RunAt(l.path, Len(l.path))
           /\ Knowing(ws, D, l) => Knows(ws, D, l.path, Len(l.path), l.wf, l.step)
<1>1. Run(l) = RunAt(l.path, Len(l.path))
  BY LastLevel DEF Run, RunAt, CallsAround
<1>2. Knowing(ws, D, l) => Knows(ws, D, l.path, Len(l.path), l.wf, l.step)
  <2>1. /\ Len(l.path) + 1 \in Levels(l) /\ (Len(l.path) + 1) - 1 = Len(l.path)
        /\ WfAt(l, Len(l.path) + 1) = l.wf /\ StepAt(l, Len(l.path) + 1) = l.step
    BY LastLevel
  <2> QED  BY <2>1 DEF Knowing
<1> QED  BY <1>1, <1>2

-----------------------------------------------------------------------------
(***************************************************************************)
(* What control does leaves every token knowing.                           *)
(***************************************************************************)
LEMMA KnowingLeave ==
    ASSUME Orderly(workflows), NEW c \in Tokens(workflows), Located(workflows, c),
           NEW D, Knowing(workflows, D, c), At(workflows, c).type # "join",
           HasOutcomes(At(workflows, c)) => c.step \in Heard(D, Run(c), c.wf), NEW label
    PROVE  Knowing(workflows, D, Leave(c, label, c.path))
<1> DEFINE ws == workflows
           n == Len(c.path)
           m == Leave(c, label, c.path)
           K == Heard(D, RunAt(c.path, n), c.wf)
           b == BranchAt(c.path, n)
<1>1. /\ c.wf \in DOMAIN ws /\ c.step \in Names(ws[c.wf]) /\ Step(c) = At(ws, c)
      /\ At(ws, c) = ws[c.wf].steps[c.step] /\ Sound(ws[c.wf])
      /\ ws \in Candidates /\ Accepted(ws)
  BY LocationFacts, Structure DEF Step, At, Orderly
<1>2. Informed(ws[c.wf], K, b, c.step) /\ (HasOutcomes(At(ws, c)) => c.step \in K)
  BY KnowsLast DEF Knows
<1>3. CASE label \in DOMAIN At(ws, c).on
  <2> DEFINE x == At(ws, c).on[label]
  <2>1. m = Token(c.wf, x, c.path)
    BY <1>1, <1>3 DEF Leave
  <2>2. m.path = c.path /\ m.wf = c.wf /\ m.step = x
    BY <2>1 DEF Token
  <2>3. x \in Edges(ws[c.wf], c.step)
    BY <1>1, <1>3, AcceptedDefines
  <2> HIDE DEF x, m
  <2>4. Informed(ws[c.wf], K, b, x)
    <3> HIDE DEF K, b
    <3> QED  BY <1>1, <1>2, <2>3, InformedNext
  <2>5. Knows(ws, D, c.path, Len(c.path), c.wf, m.step)
    BY <2>2, <2>4 DEF Knows
  <2>6. Knowing(ws, D, m)
    BY <2>2, <2>5, KnowingBeside
  <2> QED  BY <2>6 DEF m
<1>4. CASE label \notin DOMAIN At(ws, c).on
  <2>1. m = [c EXCEPT !.path = c.path, !.failing = TRUE]
    BY <1>1, <1>4 DEF Leave
  <2>2. m.path = c.path /\ m.wf = c.wf /\ m.step = c.step
    BY <2>1 DEF Tokens
  <2> HIDE DEF m
  <2>3. Knows(ws, D, c.path, Len(c.path), c.wf, m.step)
    BY <2>2, KnowsLast
  <2>4. Knowing(ws, D, m)
    BY <2>2, <2>3, KnowingBeside
  <2> QED  BY <2>4 DEF m
<1> QED  BY <1>3, <1>4

LEMMA KnowingCaller ==
    ASSUME Orderly(workflows), NEW t, IsToken(workflows, t), t.path # <<>>,
           NEW D, Knowing(workflows, D, t),
           NEW c, c = Caller(t) \/ c = [Caller(t) EXCEPT !.failing = FALSE],
           NEW label, NEW outcome
    PROVE  Knowing(workflows, D \cup {Reached(Caller(t), outcome)}, Leave(c, label, Front(t.path)))
<1> DEFINE ws == workflows
           e == Reached(Caller(t), outcome)
<1>1. Located(ws, t) /\ ws \in Candidates /\ Accepted(ws)
  BY DEF IsToken, Orderly
<1>2. /\ Caller(t) \in Tokens(ws) /\ Located(ws, Caller(t))
      /\ Caller(t).path = Front(t.path) /\ Caller(t).wf = Outer(t).wf
      /\ Caller(t).step = Outer(t).step
  BY <1>1, CallerFacts
<1>3. c \in Tokens(ws) /\ c.path = Front(t.path) /\ c.wf = Outer(t).wf /\ c.step = Outer(t).step
  BY <1>2 DEF Tokens
<1>4. Located(ws, c)
  <2>1. c.step \in Names(ws[c.wf])
    BY <1>1, <1>3, OuterFacts
  <2> QED  BY <1>1, <1>3, <2>1, LocatedAround
<1>5. Knowing(ws, D, c)
  BY <1>1, <1>3, KnowingAround
<1>6. At(ws, c).type # "join"
  <2>1. Nested(ws, Outer(t), t.wf)
    BY <1>1, OuterFacts
  <2> QED  BY <1>3, <2>1 DEF At, Nested
<1>7. e.run = Run(c) /\ e.wf = c.wf /\ e.step = c.step
  BY <1>2, <1>3 DEF Reached, Run
<1> HIDE DEF e
<1> DEFINE E == D \cup {e}
<1>8. c.step \in Heard(E, Run(c), c.wf)
  BY <1>7 DEF Heard
<1>9. D \subseteq E
  OBVIOUS
<1> HIDE DEF E
<1>10. Knowing(ws, E, c)
  BY <1>5, <1>9, KnowingMore
<1>11. Knowing(ws, E, Leave(c, label, c.path))
  BY <1>3, <1>4, <1>6, <1>8, <1>10, KnowingLeave
<1> QED  BY <1>3, <1>11 DEF E, e

LEMMA KnowingFork ==
    ASSUME Orderly(workflows), NEW t, IsToken(workflows, t), NEW D, Knowing(workflows, D, t),
           At(workflows, t).type = "parallel", NEW b \in At(workflows, t).branches,
           NEW f, f = [wf |-> t.wf, step |-> t.step, branch |-> b]
    PROVE  Knowing(workflows, D, Token(t.wf, b, Append(t.path, f)))
<1> DEFINE ws == workflows
           n == Len(t.path)
           m == Token(t.wf, b, Append(t.path, f))
<1>1. /\ Located(ws, t) /\ t.wf \in DOMAIN ws /\ t.step \in Names(ws[t.wf]) /\ Sound(ws[t.wf])
      /\ At(ws, t) = ws[t.wf].steps[t.step] /\ t.step \in OfType(ws[t.wf], "parallel")
      /\ ws \in Candidates /\ Accepted(ws) /\ t.path \in Seq(Frames(ws))
  BY LocationFacts, Structure DEF IsToken, Orderly, At, OfType, Located
<1>2. f \in Frames(ws) /\ Located(ws, m)
  BY <1>1, ForkToken
<1>3. m.path = Append(t.path, f) /\ m.wf = t.wf /\ m.step = b
      /\ f.wf = t.wf /\ f.step = t.step /\ f.branch = b
  BY DEF Token
<1>4. b # NoName
  BY <1>1, AcceptedDefines
<1> HIDE DEF m
<1>5. n \in Nat /\ Len(m.path) = n + 1 /\ m.path[n + 1] = f /\ \A k \in 1 .. n : m.path[k] = t.path[k]
  BY <1>1, <1>2, <1>3, AppendProperties, LenProperties
<1> HIDE DEF n
<1>6. RunAt(m.path, n + 1) = RunAt(t.path, n)
  <2>1. {c \in 1 .. (n + 1) : m.path[c].branch = NoName} = {c \in 1 .. n : t.path[c].branch = NoName}
    BY <1>3, <1>4, <1>5
  <2> DEFINE calls == {c \in 1 .. n : t.path[c].branch = NoName}
  <2>2. {m.path[k] : k \in calls} = {t.path[k] : k \in calls}
    BY <1>5
  <2> QED  BY <2>1, <2>2 DEF RunAt
<1>7. BranchAt(m.path, n + 1) = b
  BY <1>3, <1>5 DEF BranchAt
<1>8. Knows(ws, D, t.path, n, t.wf, t.step)
  BY <1>1, KnowsLast DEF n
<1> DEFINE K == Heard(D, RunAt(t.path, n), t.wf)
<1>9. Informed(ws[t.wf], K, b, b)
  <2>1. Informed(ws[t.wf], K, BranchAt(t.path, n), t.step)
    BY <1>8 DEF Knows
  <2> HIDE DEF K
  <2> QED  BY <1>1, <2>1, InformedFork
<1>10. Knows(ws, D, m.path, Len(t.path) + 1, m.wf, m.step)
  BY <1>3, <1>6, <1>7, <1>9 DEF Knows, n
<1>11. Knowing(ws, D, m)
  BY <1>1, <1>2, <1>3, <1>10, KnowingInside
<1> QED  BY <1>11 DEF m

LEMMA KnowingCall ==
    ASSUME Orderly(workflows), NEW t, IsToken(workflows, t), NEW D, Knowing(workflows, D, t),
           At(workflows, t).type = "call", NEW callee, callee = At(workflows, t).calls,
           NEW f, f = [wf |-> t.wf, step |-> t.step, branch |-> NoName]
    PROVE  Knowing(workflows, D, Token(callee, workflows[callee].start, Append(t.path, f)))
<1> DEFINE ws == workflows
           n == Len(t.path)
           m == Token(callee, ws[callee].start, Append(t.path, f))
<1>1. /\ Located(ws, t) /\ ws \in Candidates /\ Accepted(ws) /\ t.path \in Seq(Frames(ws))
  BY DEF IsToken, Orderly, Located
<1>2. f \in Frames(ws) /\ Located(ws, m)
  BY <1>1, CallToken
<1>3. m.path = Append(t.path, f) /\ m.wf = callee /\ m.step = ws[callee].start
      /\ f.wf = t.wf /\ f.step = t.step /\ f.branch = NoName
  BY DEF Token
<1> HIDE DEF m
<1>4. n \in Nat /\ m.path[n + 1] = f
  BY <1>1, <1>2, <1>3, AppendProperties, LenProperties
<1>5. callee \in DOMAIN ws /\ Sound(ws[callee])
  <2>1. callee \in DOMAIN ws
    BY <1>2, <1>3, LocationFacts
  <2> QED  BY <2>1, Structure
<1> HIDE DEF n
<1>6. BranchAt(m.path, n + 1) = NoName
  BY <1>3, <1>4 DEF BranchAt
<1>7. Informed(ws[callee], Heard(D, RunAt(m.path, n + 1), callee), NoName, ws[callee].start)
  BY <1>5, InformedStart
<1>8. Knows(ws, D, m.path, Len(t.path) + 1, m.wf, m.step)
  BY <1>3, <1>6, <1>7 DEF Knows, n
<1>9. Knowing(ws, D, m)
  BY <1>1, <1>2, <1>3, <1>8, KnowingInside
<1> QED  BY <1>9 DEF m

LEMMA KnowingJoin ==
    ASSUME Orderly(workflows), \A u \in tokens : IsToken(workflows, u) /\ Knowing(workflows, done, u),
           NEW t \in tokens, Converge(t)
    PROVE  Knowing(workflows, done', Leave(t, "next", Front(t.path)))
<1> DEFINE ws == workflows
           prefix == Front(t.path)
           m == Leave(t, "next", prefix)
           c == Caller(t)
           n == Len(prefix)
           K == Heard(done', RunAt(prefix, n), t.wf)
           w == ws[t.wf]
<1>1. /\ IsToken(ws, t) /\ t \in Tokens(ws) /\ Located(ws, t)
      /\ ws \in Candidates /\ Accepted(ws) /\ done \subseteq done'
      /\ t.path # <<>> /\ Outer(t).branch # NoName /\ Step(t).type = "join"
  BY DEF IsToken, Orderly, Tokens, Converge
<1>2. /\ Outer(t).wf = t.wf
      /\ [t EXCEPT !.step = Outer(t).step, !.path = prefix] = c
  BY <1>1, JoinFacts
<1>3. c \in Tokens(ws) /\ Located(ws, c) /\ c.path = prefix /\ c.wf = t.wf /\ c.step = Outer(t).step
  BY <1>1, <1>2, CallerFacts
<1>4. /\ Step(c).join = t.step /\ done' = done \cup {Reached(c, "succeeded")}
      /\ \A b \in Step(c).branches :
           Token(t.wf, t.step, Append(prefix, [Outer(t) EXCEPT !.branch = b])) \in tokens
  BY <1>2 DEF Converge
<1>5. /\ t.wf \in DOMAIN ws /\ t.step \in Names(w) /\ Step(t) = w.steps[t.step] /\ Sound(w)
      /\ Step(c) = w.steps[c.step]
  BY <1>1, <1>3, LocationFacts, Structure DEF Step
<1>6. c.step \in OfType(w, "parallel")
  <2>1. Nested(ws, Outer(t), t.wf) /\ c.step \in Names(w)
    BY <1>1, <1>3, OuterFacts, LocationFacts
  <2> QED  BY <1>1, <1>2, <1>3, <2>1 DEF Nested, At, OfType
<1>7. prefix \in Seq(Frames(ws)) /\ n \in Nat /\ Outer(t) \in Frames(ws)
  BY <1>1, OuterFacts, LenProperties
<1> DEFINE x == Step(t).on["next"]
<1>8. "next" \in DOMAIN Step(t).on /\ x \in Edges(w, t.step)
  <2>1. WellFormed(Step(t))
    BY <1>1, <1>5 DEF Accepted
  <2>2. "next" \in DOMAIN Step(t).on
    BY <1>1, <2>1 DEF WellFormed, Shapes
  <2> QED  BY <1>1, <1>5, <2>2, AcceptedDefines
<1>9. m.path = prefix /\ m.wf = t.wf /\ m.step = x
  BY <1>8 DEF Leave, Token
<1> HIDE DEF x, m
<1>10. Knowing(ws, done', c)
  <2>1. Knowing(ws, done, c)
    BY <1>1, <1>2, <1>3, KnowingAround
  <2> QED  BY <1>1, <2>1, KnowingMore
<1>11. Knows(ws, done', prefix, n, t.wf, c.step)
  <2>1. Knows(ws, done', c.path, Len(c.path), c.wf, c.step)
    BY <1>3, <1>10, KnowsLast
  <2> QED  BY <1>3, <2>1
<1>12. c.step \in K
  <2>1. Run(c) = RunAt(c.path, Len(c.path))
    BY <1>3, KnowsLast
  <2> DEFINE e == Reached(c, "succeeded")
  <2>2. e.run = RunAt(prefix, n) /\ e.wf = t.wf /\ e.step = c.step /\ e \in done'
    BY <1>3, <1>4, <2>1 DEF Reached
  <2> HIDE DEF e, n, prefix
  <2> QED  BY <2>2 DEF Heard
<1>13. ASSUME NEW b \in w.steps[c.step].branches PROVE b # NoName /\ Informed(w, K, b, t.step)
  <2> DEFINE f == [Outer(t) EXCEPT !.branch = b]
             u == Token(t.wf, t.step, Append(prefix, f))
  <2>1. u \in tokens
    BY <1>4, <1>5
  <2>2. b # NoName /\ b \in StepNames(ws)
    <3>1. c.step \in Names(w) /\ w.steps[c.step].branches \subseteq Names(w) /\ NoName \notin Names(w)
      BY <1>1, <1>3, <1>5, <1>6, AcceptedDefines DEF OfType
    <3> QED  BY <1>5, <3>1 DEF StepNames
  <2>3. f \in Frames(ws) /\ f.branch = b
    BY <1>7, <2>2 DEF Frames
  <2>4. u.path = Append(prefix, f) /\ u.wf = t.wf /\ u.step = t.step
    BY DEF Token
  <2> HIDE DEF f, u
  <2>5. Located(ws, u) /\ Knowing(ws, done', u)
    <3>1. Knowing(ws, done, u)
      BY <2>1
    <3> QED  BY <1>1, <2>1, <3>1, KnowingMore DEF IsToken
  <2> HIDE DEF prefix, n
  <2>6. Len(u.path) = Len(prefix) + 1 /\ u.path[Len(prefix) + 1] = f
        /\ \A k \in 1 .. Len(prefix) : u.path[k] = prefix[k]
    BY <1>7, <2>3, <2>4, AppendProperties
  <2>7. Knows(ws, done', u.path, Len(u.path), t.wf, t.step)
    BY <2>4, <2>5, KnowsLast
  <2>8. n = Len(prefix)
    BY DEF n
  <2>9. RunAt(u.path, n + 1) = RunAt(prefix, n)
    <3>1. {k \in 1 .. (n + 1) : u.path[k].branch = NoName} = {k \in 1 .. n : prefix[k].branch = NoName}
      BY <1>7, <2>2, <2>3, <2>6, <2>8
    <3> DEFINE calls == {k \in 1 .. n : prefix[k].branch = NoName}
    <3>2. {u.path[k] : k \in calls} = {prefix[k] : k \in calls}
      BY <2>6, <2>8
    <3> QED  BY <3>1, <3>2 DEF RunAt
  <2>10. BranchAt(u.path, n + 1) = b
    BY <1>7, <2>3, <2>6, <2>8 DEF BranchAt
  <2> QED  BY <2>2, <2>6, <2>7, <2>8, <2>9, <2>10 DEF Knows
<1>14. Informed(w, K, BranchAt(prefix, n), x)
  <2>1. Informed(w, K, BranchAt(prefix, n), c.step) /\ t.step = w.steps[c.step].join
    BY <1>4, <1>5, <1>11 DEF Knows
  <2> DEFINE b == BranchAt(prefix, n)
  <2> HIDE DEF b, K, w
  <2> QED  BY <1>5, <1>6, <1>8, <1>12, <1>13, <2>1, InformedJoin DEF b
<1>15. Knows(ws, done', c.path, Len(c.path), c.wf, m.step)
  BY <1>3, <1>9, <1>14 DEF Knows
<1>16. Knowing(ws, done', m)
  BY <1>3, <1>9, <1>10, <1>15, KnowingBeside
<1> QED  BY <1>16 DEF m

LEMMA AdvanceKnowing ==
    ASSUME Orderly(workflows), \A u \in tokens : IsToken(workflows, u) /\ Knowing(workflows, done, u),
           NEW t \in tokens, Advance(t)
    PROVE  \A u \in tokens' : Knowing(workflows, done', u)
<1> DEFINE ws == workflows
<1>1. /\ IsToken(ws, t) /\ Located(ws, t) /\ t \in Tokens(ws) /\ Knowing(ws, done, t)
      /\ Step(t) = At(ws, t)
  BY DEF IsToken, Tokens, Step, At
<1>2. SUFFICES done \subseteq done' /\ \A u \in tokens' \ tokens : Knowing(ws, done', u)
  BY KnowingMore
<1>3. CASE t.failing
  <2>1. CASE t.path = <<>>
    BY <1>3, <2>1 DEF Advance, Fail
  <2>2. CASE t.path # <<>>
    <3> DEFINE c == [Caller(t) EXCEPT !.failing = FALSE]
               m == Leave(c, "failure", Front(t.path))
               E == done \cup {Reached(Caller(t), "failed")}
    <3>1. tokens' \ tokens \subseteq {m} /\ done' = E
      BY <1>3, <2>2 DEF Advance, Fail
    <3> HIDE DEF c
    <3>2. Knowing(ws, E, m)
      BY <1>1, <2>2, KnowingCaller DEF c
    <3> HIDE DEF m
    <3>3. done \subseteq E
      OBVIOUS
    <3> HIDE DEF E
    <3> QED  BY <3>1, <3>2, <3>3
  <2> QED  BY <2>1, <2>2
<1>4. CASE ~t.failing
  <2>1. CASE Execute(t)
    <3>1. PICK outcome : /\ tokens' = (tokens \ {t}) \cup {Leave(t, Label(outcome), t.path)}
                         /\ done' = done \cup {Reached(t, outcome)}
      BY <2>1 DEF Execute
    <3> DEFINE e == Reached(t, outcome)
               m == Leave(t, Label(outcome), t.path)
    <3>2. At(ws, t).type # "join"
      BY <1>1, <2>1 DEF Execute
    <3>3. t.step \in Heard(done', Run(t), t.wf) /\ done \subseteq done'
      <4>1. e.run = Run(t) /\ e.wf = t.wf /\ e.step = t.step /\ e \in done' /\ done \subseteq done'
        BY <3>1 DEF Reached
      <4> HIDE DEF e
      <4> QED  BY <4>1 DEF Heard
    <3>4. Knowing(ws, done', t)
      BY <1>1, <3>3, KnowingMore
    <3>5. Knowing(ws, done', m)
      BY <1>1, <3>2, <3>3, <3>4, KnowingLeave
    <3> HIDE DEF m
    <3>6. tokens' \ tokens \subseteq {m}
      BY <3>1 DEF m
    <3> QED  BY <3>3, <3>5, <3>6
  <2>2. CASE Decide(t)
    <3>1. PICK label : tokens' = (tokens \ {t}) \cup {Leave(t, label, t.path)} /\ done' = done
      BY <2>2 DEF Decide
    <3>2. At(ws, t).type # "join" /\ ~HasOutcomes(At(ws, t))
      BY <1>1, <2>2 DEF Decide, HasOutcomes, Outcomes
    <3>3. Knowing(ws, done, Leave(t, label, t.path))
      BY <1>1, <3>2, KnowingLeave
    <3> QED  BY <3>1, <3>3
  <2>3. CASE Fork(t)
    <3> DEFINE frame(b) == [wf |-> t.wf, step |-> t.step, branch |-> b]
               into(b) == Token(t.wf, b, Append(t.path, frame(b)))
    <3>1. /\ tokens' = (tokens \ {t}) \cup {into(b) : b \in Step(t).branches} /\ done' = done
          /\ At(ws, t).type = "parallel"
      BY <1>1, <2>3 DEF Fork
    <3>2. ASSUME NEW b \in Step(t).branches PROVE Knowing(ws, done, into(b))
      <4> DEFINE f == frame(b)
      <4>1. f = [wf |-> t.wf, step |-> t.step, branch |-> b] /\ b \in At(ws, t).branches
        BY <1>1
      <4> HIDE DEF f
      <4>2. Knowing(ws, done, Token(t.wf, b, Append(t.path, f)))
        BY <1>1, <3>1, <4>1, KnowingFork
      <4> QED  BY <4>2 DEF f
    <3> HIDE DEF into
    <3> QED  BY <3>1, <3>2
  <2>4. CASE Converge(t)
    <3> DEFINE m == Leave(t, "next", Front(t.path))
    <3>1. tokens' \ tokens \subseteq {m} /\ done \subseteq done'
      BY <2>4 DEF Converge
    <3>2. Knowing(ws, done', m)
      BY <2>4, KnowingJoin
    <3> HIDE DEF m
    <3> QED  BY <3>1, <3>2
  <2>5. CASE Call(t)
    <3> DEFINE f == [wf |-> t.wf, step |-> t.step, branch |-> NoName]
               callee == At(ws, t).calls
               m == Token(callee, ws[callee].start, Append(t.path, f))
    <3>1. At(ws, t).type = "call" /\ tokens' \ tokens \subseteq {m} /\ done' = done
      BY <1>1, <2>5 DEF Call
    <3>2. f = [wf |-> t.wf, step |-> t.step, branch |-> NoName] /\ callee = At(ws, t).calls
      OBVIOUS
    <3> HIDE DEF f, callee
    <3>3. Knowing(ws, done, m)
      BY <1>1, <3>1, <3>2, KnowingCall
    <3> HIDE DEF m
    <3> QED  BY <3>1, <3>3
  <2>6. CASE EndStep(t)
    <3>1. CASE tokens' = tokens \ {t} /\ UNCHANGED done
      BY <3>1
    <3>2. CASE /\ t.path # <<>> /\ Outer(t).branch = NoName
               /\ tokens' = (tokens \ {t}) \cup {Leave(Caller(t), "success", Front(t.path))}
               /\ done' = done \cup {Reached(Caller(t), "succeeded")}
      <4> DEFINE m == Leave(Caller(t), "success", Front(t.path))
                 E == done \cup {Reached(Caller(t), "succeeded")}
      <4>1. Knowing(ws, E, m)
        BY <1>1, <3>2, KnowingCaller
      <4>2. tokens' \ tokens \subseteq {m} /\ done' = E /\ done \subseteq E
        BY <3>2
      <4> HIDE DEF m, E
      <4> QED  BY <4>1, <4>2
    <3> QED  BY <2>6, <3>1, <3>2 DEF EndStep
  <2> QED  BY <1>4, <2>1, <2>2, <2>3, <2>4, <2>5, <2>6 DEF Advance
<1> QED  BY <1>3, <1>4

\* The inductive invariant of StatesKnownIfDisciplined.
KnowingIfDisciplined == AllDisciplined => \A t \in tokens : Knowing(workflows, done, t)

LEMMA StaysKnowing ==
    GraphInv /\ KnowingIfDisciplined /\ [GraphNext]_graphVars => KnowingIfDisciplined'
<1> SUFFICES ASSUME GraphInv, KnowingIfDisciplined, [GraphNext]_graphVars, AllDisciplined'
             PROVE  \A t \in tokens' : Knowing(workflows', done', t)
  BY DEF KnowingIfDisciplined
<1>1. CASE UNCHANGED graphVars
  <2>1. AllDisciplined
    BY <1>1 DEF graphVars, AllDisciplined
  <2> QED  BY <1>1, <2>1 DEF graphVars, KnowingIfDisciplined
<1>2. CASE Validate
  <2> DEFINE m == Token(Main, workflows[Main].start, <<>>)
  <2>1. /\ workflows' = workflows /\ Accepted(workflows) /\ workflows \in Candidates
        /\ tokens' = {m}
    BY <1>2 DEF Validate, AllDisciplined, GraphInv
  <2>2. Orderly(workflows)
    BY <2>1 DEF Orderly, AllDisciplined
  <2>3. m.wf = Main /\ m.step = workflows[Main].start /\ m.path = <<>>
    BY DEF Token
  <2>4. IsToken(workflows, m)
    BY <2>1, LocatedStep DEF GraphInv
  <2> HIDE DEF m
  <2>5. Located(workflows, m) /\ Len(m.path) = 0
    BY <2>3, <2>4, EmptySeq DEF IsToken
  <2>6. Levels(m) = {1} /\ WfAt(m, 1) = Main /\ StepAt(m, 1) = workflows[Main].start
    BY <2>3, <2>5 DEF Levels, WfAt, StepAt
  <2>7. Sound(workflows[Main])
    BY <2>2, <2>3, <2>5, LocationFacts, Structure
  <2>8. BranchAt(m.path, 1 - 1) = NoName
    BY DEF BranchAt
  <2>9. Knowing(workflows, done', m)
    BY <2>6, <2>7, <2>8, InformedStart DEF Knowing, Knows
  <2> QED  BY <2>1, <2>9
<1>3. ASSUME NEW t \in tokens, Advance(t) PROVE \A u \in tokens' : Knowing(workflows', done', u)
  <2>1. workflows' = workflows /\ verdict' = verdict
    BY <1>3 DEF Advance
  <2>2. AllDisciplined
    BY <2>1 DEF AllDisciplined
  <2>3. Orderly(workflows)
    BY <2>2 DEF Orderly, AllDisciplined, GraphInv
  <2>4. \A u \in tokens : IsToken(workflows, u) /\ Knowing(workflows, done, u)
    BY <2>2 DEF GraphInv, KnowingIfDisciplined
  <2> QED  BY <1>3, <2>1, <2>3, <2>4, AdvanceKnowing
<1> QED  BY <1>1, <1>2, <1>3 DEF GraphNext

(***************************************************************************)
(* A predicate of an accepted and disciplined scenario of any size reads   *)
(* only states that were reached in its run, by every interleaving of      *)
(* branches, joins, calls, failures and abandoned branches: what           *)
(* _available_step_state_before computes from the graph is what control    *)
(* has behind it.                                                          *)
(***************************************************************************)
THEOREM StatesKnownIfDisciplinedCorrect == GraphSpec => []StatesKnownIfDisciplined
<1>1. GraphInit => GraphInv /\ KnowingIfDisciplined
  BY DEF GraphInit, GraphInv, KnowingIfDisciplined, AllDisciplined
<1>2. GraphInv /\ KnowingIfDisciplined => StatesKnownIfDisciplined
  <2> SUFFICES ASSUME GraphInv, KnowingIfDisciplined, AllDisciplined, NEW t \in tokens,
                      NEW r \in Step(t).reads
               PROVE  \E d \in done : d.run = Run(t) /\ d.wf = t.wf /\ d.step = r.step
    BY DEF StatesKnownIfDisciplined, StatesKnown
  <2> DEFINE w == workflows[t.wf]
             K == Heard(done, RunAt(t.path, Len(t.path)), t.wf)
  <2>1. /\ Located(workflows, t) /\ Knowing(workflows, done, t) /\ Accepted(workflows)
        /\ t.wf \in DOMAIN workflows /\ t.step \in Names(w) /\ Step(t) = w.steps[t.step]
    BY LocationFacts DEF GraphInv, KnowingIfDisciplined, IsToken, AllDisciplined, Step
  <2>2. WellFormed(w.steps[t.step]) /\ ReadsKnown(w)
    BY <2>1 DEF Accepted
  <2>3. w.steps[t.step].type # "join"
    BY <2>1, <2>2 DEF WellFormed
  <2>4. r.step \in Available(w, t.step)
    BY <2>1, <2>2 DEF ReadsKnown
  <2>5. Informed(w, K, BranchAt(t.path, Len(t.path)), t.step) /\ Run(t) = RunAt(t.path, Len(t.path))
    BY <2>1, KnowsLast DEF Knows
  <2>6. r.step \in K
    BY <2>3, <2>4, <2>5 DEF Informed
  <2> QED  BY <2>5, <2>6 DEF Heard
<1>3. GraphInv /\ KnowingIfDisciplined /\ [GraphNext]_graphVars => GraphInv' /\ KnowingIfDisciplined'
  BY LocatedStep, StaysKnowing
<1> QED  BY <1>1, <1>2, <1>3, PTL DEF GraphSpec
=============================================================================
