----------------------- MODULE EvaluationResultsProofs -----------------------
(***************************************************************************)
(* Theorems about EvaluationResults, for every set of resources of any     *)
(* kinds, every finite set of maxima and any length of a history.          *)
(***************************************************************************)
EXTENDS EvaluationResults, NumberLemmas, SequenceTheorems, TLAPS

\* A history an evaluator may have kept: in order, and from the beginning.
Kept(h) == /\ h \in Seq(Events) /\ Ascending(h)
           /\ h # <<>> => h[1].type = "evaluation_started"

\* What may be reported of a resource, whether or not it fits.
Reportable(a, r) ==
    /\ r = Record(r.entry, r.result, r.history)
    /\ r.entry \in Drafts(a) \cup {None}
    /\ r.result \in Results \cup {None}
    /\ r.history \in Seq(Events) \cup {None}
    /\ r.entry = None /\ r.result = None => r = Absent

\* What is on the board, of each resource: the inductive invariant.
Sound(a, r) == Reportable(a, r) /\ Fits(r)
Inv == /\ board = [a \in Resources |-> board[a]]
       /\ \A a \in Resources : Sound(a, board[a])
-----------------------------------------------------------------------------
(***************************************************************************)
(* Contracts, readings and histories.                                      *)
(***************************************************************************)
LEMMA EndsFacts ==
    /\ DOMAIN Ends = {"ready", "failed"}
    /\ Ends["ready"] = "evaluation_ready" /\ Ends["failed"] = "evaluation_failed"
    /\ {Ends[s] : s \in DOMAIN Ends} = {"evaluation_ready", "evaluation_failed"}
  BY DEF Ends

LEMMA DraftFacts ==
    ASSUME NEW a \in Resources, NEW c \in Drafts(a)
    PROVE  /\ c \in Contracts /\ c # None /\ c.kind = Kind[a] /\ c.kind \in Kinds
           /\ Scored(c) => c.max \in MaxScores /\ c.max # None
           /\ ~Scored(c) => c.max = None
<1>1. PICK max \in IF Kind[a] = "metric" THEN MaxScores ELSE {None} :
         c = [kind |-> Kind[a], max |-> max]
  BY DEF Drafts
<1>2. Kind[a] \in Kinds
  BY ConstantsOK
<1>3. c \in Contracts
  BY <1>1, <1>2 DEF Contracts
<1> QED  BY <1>1, <1>2, <1>3, NoneIsNothing DEF Scored

LEMMA ReadingFacts ==
    ASSUME NEW a \in Resources, NEW c \in Drafts(a), NEW v \in Readings(c)
    PROVE  /\ v \in Values
           /\ Scored(c) => /\ v.passed = None /\ v.score \in Scores /\ v.score # None
                           /\ v.max = c.max
           /\ ~Scored(c) => /\ v.passed \in BOOLEAN /\ v.passed # None
                            /\ v.score = None /\ v.max = None
<1>1. CASE Scored(c)
  <2>1. PICK s \in Scores, m \in {c.max} : v = [passed |-> None, score |-> s, max |-> m]
    BY <1>1 DEF Readings
  <2> QED  BY <1>1, <2>1, DraftFacts, NoneIsNothing DEF Values
<1>2. CASE ~Scored(c)
  <2>1. PICK b \in BOOLEAN : v = [passed |-> b, score |-> None, max |-> None]
    BY <1>2 DEF Readings
  <2> QED  BY <1>2, <2>1, NoneIsNothing DEF Values
<1> QED  BY <1>1, <1>2

\* A metric's maximum is among the scores.
LEMMA MaximumIsScore == ASSUME NEW m \in MaxScores PROVE m \in Scores
<1>1. MaxScores \in SUBSET Int /\ IsFiniteSet(MaxScores) /\ MaxScores # {}
  BY ConstantsOK
<1>2. \E most \in MaxScores : \A n \in MaxScores : n <= most
  BY <1>1, GreatestExists
<1> DEFINE top == CHOOSE most \in MaxScores : \A n \in MaxScores : n <= most
<1>3. top \in MaxScores /\ m <= top
  BY <1>2
<1>4. m \in Nat /\ top \in Nat
  BY <1>3, ConstantsOK
<1> QED  BY <1>3, <1>4 DEF Scores

LEMMA LoggedFacts ==
    ASSUME NEW h \in Seq(Events), Ascending(h), NEW type \in EventTypes, NEW t \in Since(h)
    PROVE  /\ Logged(h, type, t) \in Seq(Events) /\ Ascending(Logged(h, type, t))
           /\ Logged(h, type, t) # <<>>
           /\ Logged(h, type, t)[Len(Logged(h, type, t))] = [type |-> type, at |-> t]
           /\ h = <<>> => Logged(h, type, t)[1] = [type |-> type, at |-> t]
           /\ h # <<>> => Logged(h, type, t)[1] = h[1]
<1> DEFINE e == [type |-> type, at |-> t]
           more == Append(h, e)
<1>1. e \in Events /\ e.at = t /\ (h # <<>> => h[Len(h)].at <= t)
  BY DEF Events, Since
<1>2. Len(h) \in Nat /\ (h # <<>> => Len(h) > 0) /\ (h = <<>> => Len(h) = 0)
  BY LenProperties, EmptySeq
<1> HIDE DEF e
<1>3. /\ more \in Seq(Events) /\ Len(more) = Len(h) + 1
      /\ \A i \in 1 .. Len(h) : more[i] = h[i]
      /\ more[Len(h) + 1] = e
  BY <1>1, <1>2, AppendProperties
<1> HIDE DEF more
<1>4. Ascending(more)
  <2>1. SUFFICES ASSUME NEW i \in 2 .. Len(more) PROVE more[i - 1].at <= more[i].at
    BY DEF Ascending
  <2>2. CASE i = Len(h) + 1
    <3>1. h # <<>> /\ Len(h) \in 1 .. Len(h) /\ i - 1 = Len(h)
      BY <1>2, <2>2
    <3> QED  BY <1>1, <1>3, <2>2, <3>1
  <2>3. CASE i \in 2 .. Len(h)
    <3>1. i - 1 \in 1 .. Len(h) /\ i \in 1 .. Len(h)
      BY <1>2, <2>3
    <3>2. h[i - 1].at <= h[i].at
      BY <2>3 DEF Ascending
    <3> QED  BY <1>3, <3>1, <3>2
  <2> QED  BY <1>2, <1>3, <2>2, <2>3
<1>5. more # <<>>
  BY <1>2, <1>3, EmptySeq
<1> QED  BY <1>2, <1>3, <1>4, <1>5 DEF Logged, more, e

LEMMA KeptLogged ==
    ASSUME NEW h, Kept(h), NEW type \in EventTypes, NEW t \in Since(h),
           h = <<>> => type = "evaluation_started"
    PROVE  /\ Kept(Logged(h, type, t)) /\ Logged(h, type, t) # <<>>
           /\ Logged(h, type, t)[Len(Logged(h, type, t))].type = type
           /\ t \in Since(Logged(h, type, t))
<1>1. h \in Seq(Events) /\ Ascending(h)
  BY DEF Kept
<1>2. /\ Logged(h, type, t) \in Seq(Events) /\ Ascending(Logged(h, type, t))
      /\ Logged(h, type, t) # <<>>
      /\ Logged(h, type, t)[Len(Logged(h, type, t))] = [type |-> type, at |-> t]
      /\ h = <<>> => Logged(h, type, t)[1] = [type |-> type, at |-> t]
      /\ h # <<>> => Logged(h, type, t)[1] = h[1]
  BY <1>1, LoggedFacts
<1>3. t \in Times /\ t <= t
  BY ConstantsOK DEF Since, Times
<1> QED  BY <1>2, <1>3 DEF Kept, Since

\* What is in order step by step is in order.
LEMMA AscendingAll ==
    ASSUME NEW h \in Seq(Events), Ascending(h), NEW i \in DOMAIN h, NEW j \in DOMAIN h, i < j
    PROVE  h[i].at <= h[j].at
<1> DEFINE A == {k \in Nat : i + k \in DOMAIN h => h[i].at <= h[i + k].at}
<1>1. DOMAIN h = 1 .. Len(h) /\ Len(h) \in Nat /\ \A k \in DOMAIN h : h[k].at \in Nat
  <2>1. DOMAIN h = 1 .. Len(h) /\ Len(h) \in Nat
    BY LenProperties
  <2>2. \A k \in DOMAIN h : h[k] \in Events
    BY <2>1, ElementOfSeq
  <2> QED  BY <2>1, <2>2, ConstantsOK DEF Events, Times
<1>2. 0 \in A
  BY <1>1
<1>3. ASSUME NEW k \in Nat, k \in A PROVE k + 1 \in A
  <2>1. SUFFICES ASSUME i + (k + 1) \in DOMAIN h PROVE h[i].at <= h[i + (k + 1)].at
    OBVIOUS
  <2>2. i + k \in DOMAIN h /\ i + (k + 1) \in 2 .. Len(h) /\ (i + (k + 1)) - 1 = i + k
    BY <1>1, <2>1
  <2>3. h[i + k].at <= h[i + (k + 1)].at
    BY <2>2 DEF Ascending
  <2> QED  BY <1>1, <1>3, <2>1, <2>2, <2>3
<1>4. j - i \in Nat /\ i + (j - i) = j
  BY <1>1
<1>5. j - i \in A
  <2> HIDE DEF A
  <2> QED  BY <1>2, <1>3, <1>4, SetInduction
<1> QED  BY <1>4, <1>5
-----------------------------------------------------------------------------
(***************************************************************************)
(* What an evaluator that keeps the contract reports fits.                 *)
(***************************************************************************)
\* A report of a run fits if its status, its values and its history agree.
Agrees(status, values, h, c) ==
    /\ Kept(h)
    /\ status \in Statuses
    /\ status = "ready" => values \in Honest(c)
    /\ status # "ready" => values = NoValues
    /\ h # <<>> /\ status \in DOMAIN Ends => h[Len(h)].type = Ends[status]
    /\ h # <<>> /\ status = "running" =>
          h[Len(h)].type \notin {"evaluation_ready", "evaluation_failed"}

LEMMA NoValuesTyped == NoValues \in Values
  BY DEF NoValues, Values

LEMMA ReportedSound ==
    ASSUME NEW a \in Resources, NEW c \in Drafts(a), NEW status, NEW values, NEW h,
           Agrees(status, values, h, c)
    PROVE  Sound(a, Reported(c, status, values, h))
<1> DEFINE res == [kind |-> c.kind, status |-> status, values |-> values]
           r == Record(c, res, h)
<1>1. /\ c \in Contracts /\ c # None /\ c.kind = Kind[a] /\ c.kind \in Kinds
      /\ Scored(c) => c.max \in MaxScores /\ c.max # None
      /\ ~Scored(c) => c.max = None
  BY DraftFacts
<1>2. status = "ready" => /\ values \in Readings(c)
                          /\ values.max # None => values.score <= values.max
  BY DEF Agrees, Honest
<1>3. values \in Values
  BY <1>2, ReadingFacts, NoValuesTyped DEF Agrees
<1>4. res \in Results /\ res # None
  BY <1>1, <1>3, NoneIsNothing DEF Results, Agrees
<1>5. h \in Seq(Events) /\ h # None /\ Ascending(h)
  BY NoneIsNothing DEF Agrees, Kept
<1>6. Parses(res)
  <2>1. CASE status = "ready"
    <3>1. values.passed # None \/ values.score # None
      BY <1>2, <2>1, ReadingFacts
    <3>2. values.max # None => values.score # None
      BY <1>2, <2>1, ReadingFacts
    <3> QED  BY <1>2, <2>1, <3>1, <3>2 DEF Parses
  <2>2. CASE status # "ready"
    BY <2>2 DEF Agrees, Parses, NoValues
  <2> QED  BY <2>1, <2>2
<1>7. Meets(c, res)
  <2>1. CASE status = "ready"
    BY <1>1, <1>2, <2>1, ReadingFacts DEF Meets
  <2>2. CASE status # "ready"
    BY <2>2 DEF Agrees, Meets, NoValues
  <2> QED  BY <2>1, <2>2
<1>8. Explains(res, h)
  BY EndsFacts DEF Agrees, Kept, Explains
<1> HIDE DEF res
<1>9. r.entry = c /\ r.result = res /\ r.history = h
  BY DEF Record
<1>10. Fits(r)
  BY <1>1, <1>4, <1>5, <1>6, <1>7, <1>8, <1>9 DEF Fits
<1>11. Reportable(a, r)
  BY <1>1, <1>4, <1>5, <1>9 DEF Reportable
<1> QED  BY <1>10, <1>11 DEF Sound, Reported, res

\* Absence fits.
LEMMA AbsentSound == ASSUME NEW a \in Resources PROVE Sound(a, Absent)
<1>1. Absent.entry = None /\ Absent.result = None /\ Absent.history = None
  BY DEF Absent, Record
<1> QED  BY <1>1 DEF Sound, Reportable, Fits, Absent

LEMMA GoesOnSound ==
    ASSUME NEW a \in Resources, NEW c \in Drafts(a), NEW h, Kept(h), h # <<>>,
           NEW r \in GoesOn(c, h)
    PROVE  Sound(a, r)
<1>1. PICK t \in Since(h) :
         \/ r = Reported(c, "failed", NoValues, Logged(h, "evaluation_failed", t))
         \/ r = Reported(c, "running", NoValues, Logged(h, "evaluation_updated", t))
         \/ \E v \in Honest(c) :
               r = Reported(c, "ready", v, Logged(h, "evaluation_ready", t))
  BY DEF GoesOn
<1>2. ASSUME NEW type \in {"evaluation_failed", "evaluation_updated", "evaluation_ready"}
      PROVE  /\ Kept(Logged(h, type, t))
             /\ Logged(h, type, t)[Len(Logged(h, type, t))].type = type
  <2>1. type \in EventTypes
    BY DEF EventTypes
  <2> QED  BY <2>1, KeptLogged
<1>3. Agrees("failed", NoValues, Logged(h, "evaluation_failed", t), c)
  BY <1>2, EndsFacts DEF Agrees, Statuses
<1>4. Agrees("running", NoValues, Logged(h, "evaluation_updated", t), c)
  BY <1>2, EndsFacts DEF Agrees, Statuses
<1>5. ASSUME NEW v \in Honest(c)
      PROVE  Agrees("ready", v, Logged(h, "evaluation_ready", t), c)
  BY <1>2, EndsFacts DEF Agrees, Statuses
<1> QED  BY <1>1, <1>3, <1>4, <1>5, ReportedSound

LEMMA BeginsSound ==
    ASSUME NEW a \in Resources, NEW c \in Drafts(a), NEW h, Kept(h), NEW r \in Begins(c, h)
    PROVE  Sound(a, r)
<1>1. CASE r = Reported(c, "pending", NoValues, h)
  <2>1. Agrees("pending", NoValues, h, c)
    BY EndsFacts DEF Agrees, Statuses
  <2> QED  BY <1>1, <2>1, ReportedSound
<1>2. CASE r # Reported(c, "pending", NoValues, h)
  <2>1. PICK t \in Since(h) :
           LET begun == Logged(h, "evaluation_started", t)
           IN  \/ r = Reported(c, "running", NoValues, begun)
               \/ r \in GoesOn(c, begun)
    BY <1>2 DEF Begins
  <2> DEFINE begun == Logged(h, "evaluation_started", t)
  <2>2. Kept(begun) /\ begun # <<>> /\ begun[Len(begun)].type = "evaluation_started"
    BY KeptLogged DEF EventTypes
  <2> HIDE DEF begun
  <2>3. Agrees("running", NoValues, begun, c)
    BY <2>2, EndsFacts DEF Agrees, Statuses
  <2>4. r = Reported(c, "running", NoValues, begun) \/ r \in GoesOn(c, begun)
    BY <2>1 DEF begun
  <2> QED  BY <2>2, <2>3, <2>4, GoesOnSound, ReportedSound
<1> QED  BY <1>1, <1>2

\* What is on the board has a history that was kept.
LEMMA BoardFacts ==
    ASSUME NEW a \in Resources, NEW r, Sound(a, r), r.result # None
    PROVE  /\ r.entry \in Drafts(a) /\ r.entry # None /\ r.result \in Results
           /\ Kept(r.history)
           /\ r.history # <<>> /\ r.result.status \in DOMAIN Ends =>
                 r.history[Len(r.history)].type = Ends[r.result.status]
<1>1. /\ r.entry # None /\ r.entry \in Drafts(a) /\ r.result \in Results
      /\ r.history \in Seq(Events) /\ Ascending(r.history) /\ Explains(r.result, r.history)
  BY DEF Sound, Reportable, Fits
<1> QED  BY <1>1 DEF Kept, Explains

LEMMA AnswersSound ==
    ASSUME Inv, NEW a \in Resources, NEW r \in Answers(a) PROVE Sound(a, r)
<1>1. Sound(a, board[a])
  BY DEF Inv
<1>2. CASE r \in Moves(a, None)
  BY <1>2, AbsentSound DEF Moves, Gone
<1>3. ASSUME NEW wanted \in Drafts(a), r \in Moves(a, wanted) PROVE Sound(a, r)
  <2>1. wanted # None
    BY DraftFacts
  <2>2. \/ \E h \in Earlier(a) : r \in Begins(wanted, h)
        \/ r = board[a]
        \/ /\ wanted = board[a].entry /\ board[a].history # <<>>
           /\ r \in GoesOn(wanted, board[a].history)
    BY <1>3, <2>1 DEF Moves
  <2>3. ASSUME NEW h \in Earlier(a), r \in Begins(wanted, h) PROVE Sound(a, r)
    <3>1. Kept(h)
      <4>1. CASE h = <<>>
        <5>1. \A i \in 2 .. 0 : FALSE
          OBVIOUS
        <5> QED  BY <4>1, <5>1, EmptySeq DEF Kept, Ascending
      <4>2. CASE h # <<>>
        <5>1. board[a].result # None /\ h = board[a].history
          BY <4>2 DEF Earlier
        <5> QED  BY <1>1, <5>1, BoardFacts
      <4> QED  BY <4>1, <4>2
    <3> QED  BY <2>3, <3>1, BeginsSound
  <2>4. ASSUME wanted = board[a].entry, board[a].history # <<>>,
               r \in GoesOn(wanted, board[a].history)
        PROVE  Sound(a, r)
    <3>1. board[a].result # None
      BY <1>1, <2>1, <2>4 DEF Sound, Fits
    <3> QED  BY <1>1, <2>4, <3>1, BoardFacts, GoesOnSound
  <2> QED  BY <1>1, <2>2, <2>3, <2>4
<1>4. r = board[a] \/ \E wanted \in Drafts(a) \cup {None} : r \in Moves(a, wanted)
  BY DEF Answers
<1> QED  BY <1>1, <1>2, <1>3, <1>4

\* The stub does an evaluation again.
LEMMA RedoneSound ==
    ASSUME Inv, NEW a \in Resources, NEW t \in Times PROVE Sound(a, Redone(a, t))
<1> DEFINE c == board[a].entry
           best == CHOOSE v \in Honest(c) : v.passed # FALSE /\ v.score = v.max
           begun == Logged(<<>>, "evaluation_started", t)
           h == Logged(begun, "evaluation_ready", t)
<1>1. CASE c = None
  BY <1>1, AbsentSound DEF Redone
<1>2. CASE c # None
  <2>1. c \in Drafts(a)
    BY <1>2 DEF Inv, Sound, Reportable
  <2>2. \E v \in Honest(c) : v.passed # FALSE /\ v.score = v.max
    <3>1. CASE Scored(c)
      <4> DEFINE v == [passed |-> None, score |-> c.max, max |-> c.max]
      <4>1. c.max \in MaxScores /\ c.max \in Scores /\ c.max \in Nat
        BY <2>1, <3>1, DraftFacts, MaximumIsScore, ConstantsOK
      <4>2. v \in Honest(c)
        <5>1. v \in Readings(c)
          <6>1. \E s \in Scores, m \in {c.max} : v = [passed |-> None, score |-> s, max |-> m]
            BY <4>1
          <6> QED  BY <3>1, <6>1 DEF Readings
        <5>2. v.score <= v.max
          BY <4>1
        <5> QED  BY <5>1, <5>2 DEF Honest
      <4>3. v.passed # FALSE /\ v.score = v.max
        BY NoneIsNothing
      <4> QED  BY <4>2, <4>3
    <3>2. CASE ~Scored(c)
      <4>1. PICK yes \in BOOLEAN : yes # FALSE
        BY Zenon
      <4> DEFINE v == [passed |-> yes, score |-> None, max |-> None]
      <4>2. v \in Readings(c)
        BY <3>2 DEF Readings
      <4>3. v \in Honest(c) /\ v.passed # FALSE /\ v.score = v.max
        BY <4>1, <4>2 DEF Honest
      <4> QED  BY <4>3
    <3> QED  BY <3>1, <3>2
  <2>3. best \in Honest(c)
    BY <2>2
  <2>4. Kept(<<>>) /\ t \in Since(<<>>)
    <3>1. \A i \in 2 .. 0 : FALSE
      OBVIOUS
    <3> QED  BY <3>1, EmptySeq DEF Kept, Ascending, Since
  <2>5. Kept(begun) /\ begun # <<>> /\ t \in Since(begun)
    BY <2>4, KeptLogged DEF EventTypes
  <2> HIDE DEF begun, best, c
  <2>6. Reported(c, "ready", best, h) \in GoesOn(c, begun)
    BY <2>3, <2>5 DEF GoesOn
  <2>7. Sound(a, Reported(c, "ready", best, h))
    BY <2>1, <2>5, <2>6, GoesOnSound
  <2>8. Redone(a, t) = Reported(c, "ready", best, h)
    BY <1>2 DEF Redone, c, best, begun
  <2> QED  BY <2>7, <2>8
<1> QED  BY <1>1, <1>2

\* A report of every resource.
ReportOK(report) ==
    /\ report = [a \in Resources |-> report[a]]
    /\ \A a \in Resources : Reportable(a, report[a])

LEMMA TakeStep == ASSUME Inv, NEW report, ReportOK(report), Take(report) PROVE Inv'
<1>1. CASE Accepted(report)
  BY <1>1 DEF Take, Accepted, ReportOK, Inv, Sound
<1>2. CASE board' = board
  BY <1>2 DEF Inv
<1>3. CASE board' = [a \in Resources |-> Absent]
  BY <1>3, AbsentSound DEF Inv
<1> QED  BY <1>1, <1>2, <1>3 DEF Take

LEMMA StartStep == ASSUME Inv, Start PROVE Inv'
<1>1. PICK report \in Boards : Take(report)
  BY DEF Start
<1>2. PICK o \in {board} \cup {[b \in Resources |-> Redone(b, t)] : t \in Times},
           a \in Resources :
         \E r \in Answers(a) : report = [o EXCEPT ![a] = r]
  BY <1>1 DEF Boards
<1>3. PICK r \in Answers(a) : report = [o EXCEPT ![a] = r]
  BY <1>2
<1>4. o = [b \in Resources |-> o[b]] /\ \A b \in Resources : Sound(b, o[b])
  <2>1. CASE o = board
    BY <2>1 DEF Inv
  <2>2. ASSUME NEW t \in Times, o = [b \in Resources |-> Redone(b, t)]
        PROVE  o = [b \in Resources |-> o[b]] /\ \A b \in Resources : Sound(b, o[b])
    BY <2>2, RedoneSound
  <2> QED  BY <1>2, <2>1, <2>2
<1>5. ReportOK(report)
  BY <1>3, <1>4, AnswersSound DEF ReportOK, Sound
<1> QED  BY <1>1, <1>5, TakeStep

LEMMA StaleReportable ==
    ASSUME Inv, NEW a \in Resources, NEW r, Sound(a, r), NEW w \in Stale(a, r)
    PROVE  Reportable(a, w)
<1> DEFINE b == board[a]
           kept == [r EXCEPT !.result = b.result]
           last == [r EXCEPT !.result = b.result, !.history = b.history]
<1>1. Reportable(a, r) /\ Reportable(a, b) /\ (b.result = None => b = Absent)
  BY DEF Inv, Sound, Reportable, Fits
<1>2. Absent = Record(None, None, None)
  BY DEF Absent
<1>3. r.entry = None => r = Absent
  BY DEF Sound, Reportable, Fits
<1> HIDE DEF b
<1>4. /\ kept = Record(r.entry, b.result, r.history)
      /\ last = Record(r.entry, b.result, b.history)
  <2>1. r = Record(r.entry, r.result, r.history)
    BY <1>1 DEF Reportable
  <2>2. ASSUME NEW e, NEW s, NEW g, r = Record(e, s, g)
        PROVE  /\ [r EXCEPT !.result = b.result] = Record(e, b.result, g)
               /\ [r EXCEPT !.result = b.result, !.history = b.history] =
                     Record(e, b.result, b.history)
    <3>1. [Record(e, s, g) EXCEPT !.result = b.result] = Record(e, b.result, g)
      BY DEF Record
    <3>2. [Record(e, b.result, g) EXCEPT !.history = b.history] =
             Record(e, b.result, b.history)
      BY DEF Record
    <3>3. [r EXCEPT !.result = b.result, !.history = b.history] =
             [[r EXCEPT !.result = b.result] EXCEPT !.history = b.history]
      OBVIOUS
    <3> QED  BY <2>2, <3>1, <3>2, <3>3
  <2> QED  BY <2>1, <2>2
<1>5. /\ Absent.entry = None /\ Absent.result = None /\ Absent.history = None
  BY <1>2 DEF Record
<1> HIDE DEF kept, last
<1>6. /\ kept.entry = r.entry /\ kept.result = b.result /\ kept.history = r.history
      /\ last.entry = r.entry /\ last.result = b.result /\ last.history = b.history
  BY <1>4 DEF Record
<1>7. Reportable(a, kept)
  BY <1>1, <1>2, <1>3, <1>4, <1>5, <1>6 DEF Reportable
<1>8. Reportable(a, last)
  BY <1>1, <1>2, <1>3, <1>4, <1>5, <1>6 DEF Reportable
<1>9. w = kept \/ w = last
  BY DEF Stale, kept, last, b
<1> QED  BY <1>7, <1>8, <1>9

\* Another result or history of the same entry.
LEMMA ChangedReportable ==
    ASSUME NEW a \in Resources, NEW entry \in Drafts(a), NEW result \in Results \cup {None},
           NEW history \in Seq(Events) \cup {None}
    PROVE  Reportable(a, Record(entry, result, history))
  BY DraftFacts DEF Reportable, Record

LEMMA MisreportReportable ==
    ASSUME Inv, NEW a \in Resources, NEW r, Sound(a, r), NEW w \in Misreports(a, r)
    PROVE  Reportable(a, w)
<1>1. CASE w \in Stale(a, r)
  BY <1>1, StaleReportable
<1>2. CASE w \notin Stale(a, r)
  <2> DEFINE h == r.history
             res == r.result
  <2>1. /\ r.entry # None /\ r.entry \in Drafts(a) /\ h \in Seq(Events) /\ res \in Results
        /\ r = Record(r.entry, res, h)
    BY <1>2 DEF Misreports, Sound, Reportable, Fits
  <2>2. CASE w \in Incomplete(r)
    <3>1. w = Record(r.entry, None, h) \/ w = Record(r.entry, res, None)
      BY <2>1, <2>2 DEF Incomplete, Record
    <3> QED  BY <2>1, <3>1, ChangedReportable
  <2>3. ASSUME h # <<>>, w = [r EXCEPT !.history = Front(h)] PROVE Reportable(a, w)
    <3>1. Len(h) \in Nat /\ Len(h) - 1 \in Int
      BY <2>1, LenProperties
    <3>2. \A i \in 1 .. Len(h) - 1 : h[i] \in Events
      <4> SUFFICES ASSUME NEW i \in 1 .. Len(h) - 1 PROVE h[i] \in Events
        OBVIOUS
      <4>1. i \in 1 .. Len(h)
        BY <3>1
      <4> QED  BY <2>1, <4>1, ElementOfSeq
    <3>3. Front(h) \in Seq(Events)
      BY <3>1, <3>2, SubSeqProperties DEF Front
    <3>4. w = Record(r.entry, res, Front(h))
      <4> HIDE DEF h, res
      <4> QED  BY <2>1, <2>3 DEF Record
    <3> QED  BY <2>1, <3>3, <3>4, ChangedReportable
  <2>4. ASSUME NEW status \in Statuses, NEW v \in Values,
               w = Record(r.entry, [kind |-> res.kind, status |-> status, values |-> v], h)
        PROVE  Reportable(a, w)
    <3>1. [kind |-> res.kind, status |-> status, values |-> v] \in Results
      BY <2>1 DEF Results
    <3> QED  BY <2>1, <2>4, <3>1, ChangedReportable
  <2>5. CASE w = [r EXCEPT !.result.status = "running", !.result.values = NoValues]
    <3>1. w = Record(r.entry, [kind |-> res.kind, status |-> "running",
                               values |-> NoValues], h)
      BY <2>1, <2>5 DEF Record, Results
    <3> QED  BY <2>4, <3>1, NoValuesTyped DEF Statuses
  <2>6. ASSUME NEW v \in Values, w = [r EXCEPT !.result.values = v] PROVE Reportable(a, w)
    <3>1. w = Record(r.entry, [kind |-> res.kind, status |-> res.status, values |-> v], h)
      BY <2>1, <2>6 DEF Record, Results
    <3>2. res.status \in Statuses
      BY <2>1 DEF Results
    <3> QED  BY <2>4, <3>1, <3>2
  <2>7. ASSUME NEW t \in Times, Len(h) > 1, w = [r EXCEPT !.history[Len(h)].at = t]
        PROVE  Reportable(a, w)
    <3> DEFINE e == [h[Len(h)] EXCEPT !.at = t]
               later == [h EXCEPT ![Len(h)] = e]
    <3>1. Len(h) \in 1 .. Len(h) /\ h[Len(h)] \in Events
      <4>1. Len(h) \in Nat
        BY <2>1, LenProperties
      <4>2. Len(h) \in 1 .. Len(h)
        BY <2>7, <4>1
      <4> QED  BY <2>1, <4>2, ElementOfSeq
    <3>2. e \in Events
      BY <3>1 DEF Events
    <3>3. w = [r EXCEPT !.history = later]
      BY <2>1, <2>7 DEF Record
    <3> HIDE DEF e
    <3>4. later \in Seq(Events)
      BY <2>1, <3>1, <3>2, ExceptSeq
    <3> HIDE DEF later
    <3>5. w = Record(r.entry, res, later)
      BY <2>1, <3>3 DEF Record
    <3> QED  BY <2>1, <3>4, <3>5, ChangedReportable
  <2>8. \/ w \in Incomplete(r)
        \/ h # <<>> /\ w = [r EXCEPT !.history = Front(h)]
        \/ w = [r EXCEPT !.result.status = "running", !.result.values = NoValues]
        \/ Len(h) > 1 /\ \E t \in Times : w = [r EXCEPT !.history[Len(h)].at = t]
        \/ \E v \in Values : w = [r EXCEPT !.result.values = v]
    <3>1. w \in Incomplete(r) \/ w \in OutOfStep(r) \/ w \in Backdated(r) \/ w \in Misvalued(r)
      BY <1>2, <2>1 DEF Misreports
    <3>2. \A v \in UNION {Readings(c) : c \in UNION {Drafts(b) : b \in Resources}} : v \in Values
      BY ReadingFacts
    <3>3. w \in Misvalued(r) => \E v \in Values : w = [r EXCEPT !.result.values = v]
      BY <3>2 DEF Misvalued
    <3>4. w \in Backdated(r) =>
             Len(h) > 1 /\ \E t \in Times : w = [r EXCEPT !.history[Len(h)].at = t]
      BY DEF Backdated
    <3>5. w \in OutOfStep(r) =>
             \/ h # <<>> /\ w = [r EXCEPT !.history = Front(h)]
             \/ w = [r EXCEPT !.result.status = "running", !.result.values = NoValues]
      BY DEF OutOfStep
    <3> QED  BY <3>1, <3>3, <3>4, <3>5
  <2> QED  BY <2>2, <2>3, <2>5, <2>6, <2>7, <2>8
<1> QED  BY <1>1, <1>2

LEMMA MisreportStep == ASSUME Inv, NEW a \in Resources, Misreport(a) PROVE Inv'
<1>1. PICK r \in Answers(a), wrong \in UNION {Misreports(a, s) : s \in Answers(a)} :
         Take([board EXCEPT ![a] = wrong])
  BY DEF Misreport
<1>2. PICK s \in Answers(a) : wrong \in Misreports(a, s)
  BY <1>1
<1>3. Reportable(a, wrong)
  BY <1>2, AnswersSound, MisreportReportable
<1>4. ReportOK([board EXCEPT ![a] = wrong])
  BY <1>3 DEF ReportOK, Inv, Sound
<1> QED  BY <1>1, <1>4, TakeStep

LEMMA InvInit == Init => Inv
  BY AbsentSound DEF Init, Inv

LEMMA InvNext == Inv /\ [Next]_vars => Inv'
<1> SUFFICES ASSUME Inv, [Next]_vars PROVE Inv'
  OBVIOUS
<1>1. CASE Start
  BY <1>1, StartStep
<1>2. ASSUME NEW a \in Resources, Misreport(a) PROVE Inv'
  BY <1>2, MisreportStep
<1>3. CASE Stop
  BY <1>3, AbsentSound DEF Stop, Gone, Inv
<1>4. CASE UNCHANGED vars
  BY <1>4 DEF vars, Inv
<1> QED  BY <1>1, <1>2, <1>3, <1>4 DEF Next

(***************************************************************************)
(* Whatever is misreported, by whichever evaluator, what is published of a *)
(* resource is what its contract promises: the checks of a report are      *)
(* enough, for any kinds and maxima, to keep out every other record, and   *)
(* a report that is refused leaves nothing behind that is worse.           *)
(***************************************************************************)
THEOREM PublishedAsPromisedCorrect == Spec => []PublishedAsPromised
<1>1. Inv => PublishedAsPromised
  <2> SUFFICES ASSUME Inv, NEW a \in Resources
               PROVE  LET result == board[a].result
                          entry == board[a].entry
                          h == board[a].history
                      IN  /\ entry = None => board[a] = Absent
                          /\ result # None =>
                              /\ result \in Results /\ result.kind = entry.kind
                              /\ ToSet(h) \subseteq Events
                              /\ result.status # "ready" => result.values = NoValues
                              /\ result.status = "ready" => result.values \in Honest(entry)
                              /\ h # <<>> /\ result.status = "ready" =>
                                    Last(h).type = "evaluation_ready"
                              /\ h # <<>> /\ result.status = "failed" =>
                                    Last(h).type = "evaluation_failed"
                              /\ \A i, j \in DOMAIN h : i < j => h[i].at <= h[j].at
    BY DEF PublishedAsPromised
  <2> DEFINE entry == board[a].entry
             result == board[a].result
             h == board[a].history
             v == board[a].result.values
  <2>1. Sound(a, board[a]) /\ Reportable(a, board[a]) /\ Fits(board[a])
    BY DEF Inv, Sound
  <2>2. entry = None => board[a] = Absent
    BY <2>1 DEF Reportable, Fits
  <2>3. CASE result = None
    BY <2>2, <2>3
  <2>4. CASE result # None
    <3>1. /\ entry \in Drafts(a) /\ result \in Results /\ Kept(h)
          /\ h \in Seq(Events) /\ Ascending(h)
          /\ h # <<>> /\ result.status \in DOMAIN Ends =>
                h[Len(h)].type = Ends[result.status]
          /\ Meets(entry, result) /\ Parses(result)
      BY <2>1, <2>4, BoardFacts DEF Kept, Fits
    <3>2. ToSet(h) \subseteq Events
      BY <3>1, LenProperties, ElementOfSeq DEF ToSet
    <3>3. \A i, j \in DOMAIN h : i < j => h[i].at <= h[j].at
      BY <3>1, AscendingAll
    <3>4. ASSUME result.status = "ready" PROVE v \in Honest(entry)
      <4>1. v = [passed |-> v.passed, score |-> v.score, max |-> v.max]
            /\ v.passed \in BOOLEAN \cup {None} /\ v.score \in Scores \cup {None}
        BY <3>1 DEF Results, Values
      <4>2. v.max # None => v.score <= v.max
        BY <3>1 DEF Parses
      <4>3. CASE Scored(entry)
        <5>1. v.passed = None /\ v.score # None /\ v.max = entry.max
          BY <3>1, <3>4, <4>3, DraftFacts DEF Meets
        <5>2. v \in Readings(entry)
          BY <4>1, <4>3, <5>1 DEF Readings
        <5> QED  BY <4>2, <5>2 DEF Honest
      <4>4. CASE ~Scored(entry)
        <5>1. v.score = None /\ v.max = None /\ v.passed # None
          BY <3>1, <3>4, <4>4 DEF Meets
        <5>2. v \in Readings(entry)
          BY <4>1, <4>4, <5>1 DEF Readings
        <5> QED  BY <4>2, <5>2 DEF Honest
      <4> QED  BY <4>3, <4>4
    <3>5. result.kind = entry.kind /\ (result.status # "ready" => v = NoValues)
      BY <3>1 DEF Meets, Parses
    <3>6. /\ h # <<>> /\ result.status = "ready" => Last(h).type = "evaluation_ready"
          /\ h # <<>> /\ result.status = "failed" => Last(h).type = "evaluation_failed"
      BY <3>1, EndsFacts DEF Last
    <3> QED  BY <2>2, <3>1, <3>2, <3>3, <3>4, <3>5, <3>6
  <2> QED  BY <2>3, <2>4
<1> QED  BY <1>1, InvInit, InvNext, PTL DEF Spec

(***************************************************************************)
(* An evaluator that keeps the contract is never refused: from any board   *)
(* its own reports, and the misreports that were taken, can lead to, what  *)
(* it reports next passes every check, whichever run it adds to which      *)
(* history.                                                                *)
(***************************************************************************)
THEOREM HonestNeverRefusedCorrect == Spec => []HonestNeverRefused
<1>1. Inv => HonestNeverRefused
  BY AnswersSound DEF HonestNeverRefused, Sound
<1> QED  BY <1>1, InvInit, InvNext, PTL DEF Spec
=============================================================================
