---------------------- MODULE ParticipantEpisodesProofs ----------------------
(***************************************************************************)
(* Theorems about ParticipantEpisodes, for any participants, proposed ids  *)
(* and bounds, with and without restarts of the process.                   *)
(***************************************************************************)
EXTENDS ParticipantEpisodes, NumberLemmas, SequenceTheorems, TLAPS

Ordered(h) == \A i, j \in DOMAIN h : i <= j => h[i].number <= h[j].number

\* The latest of a set of places in a history.
Latest(at, places) == at \in places /\ \A i \in places : i <= at

\* The current episode and the history it ends: the inductive invariant.
Arrives(s, h) ==
    /\ Cardinality(Arrived(h)) = s.number + 1
    /\ \E at \in DOMAIN h :
        /\ Latest(at, Arrived(h))
        /\ h[at].id = s.id /\ h[at].type = Arrival[s.action]
        /\ s.number > 0 => \E before \in DOMAIN h :
                              /\ Latest(before, Arrived(h) \ {at})
                              /\ h[before].id = s.previous
Sound(s, h) ==
    /\ s \in States /\ Constructible(s)
    /\ h \in Seq(Events) /\ h # <<>>
    /\ HistoryOK(h) /\ HeadOK(s, h) /\ Ordered(h)
    /\ Arrives(s, h)
    /\ \A n \in 0 .. s.number : \E i \in DOMAIN h : Closes(h, i, n)

Inv ==
    /\ counter \in [Participants -> 0 .. MaxId]
    /\ results = [p \in Participants |-> results[p]]
    /\ history = [p \in Participants |-> history[p]]
    /\ turnedDown = FALSE
    /\ \A p \in Participants :
        IF results[p] = None THEN history[p] = <<>> ELSE Sound(results[p], history[p])
-----------------------------------------------------------------------------
(***************************************************************************)
(* Events and histories.                                                   *)
(***************************************************************************)
LEMMA ArrivalFacts ==
    /\ Arrivals = {"episode_initialized", "episode_reset", "episode_restarted"}
    /\ Arrivals \subseteq EventTypes /\ Reasons \subseteq EventTypes
    /\ "episode_running" \in EventTypes /\ "episode_running" \notin Arrivals
    /\ "episode_running" \notin Reasons
    /\ \A r \in Reasons : r \notin Arrivals /\ r \notin {"live", "reset"}
    /\ \A a \in Actions : Arrival[a] \in Arrivals
    /\ Arrival["initialize"] = "episode_initialized"
    /\ Arrival["reset"] = "episode_reset" /\ Arrival["restart"] = "episode_restarted"
  BY ConstantsOK DEF Arrivals, Arrival, Actions, EventTypes

LEMMA EventFacts ==
    ASSUME NEW type \in EventTypes, NEW id \in Ids, NEW n \in 0 .. MaxNumber
    PROVE  /\ Event(type, id, n) \in Events
           /\ Event(type, id, n).type = type
           /\ Event(type, id, n).id = id
           /\ Event(type, id, n).number = n
  BY DEF Event, Events

LEMMA HistoryFacts ==
    ASSUME NEW h \in Seq(Events)
    PROVE  /\ DOMAIN h = 1 .. Len(h) /\ Len(h) \in Nat /\ (h # <<>> => Len(h) > 0)
           /\ \A i \in DOMAIN h : h[i] \in Events /\ h[i].number \in Nat
           /\ IsFiniteSet(Arrived(h)) /\ Arrived(h) \subseteq 1 .. Len(h)
<1>1. DOMAIN h = 1 .. Len(h) /\ Len(h) \in Nat /\ (h # <<>> => Len(h) > 0)
  BY LenProperties, EmptySeq
<1>2. \A i \in DOMAIN h : h[i] \in Events
  BY <1>1, ElementOfSeq
<1>3. \A i \in DOMAIN h : h[i].number \in Nat
  BY <1>2, ConstantsOK DEF Events
<1>4. Arrived(h) \subseteq 1 .. Len(h)
  BY <1>1 DEF Arrived
<1>5. IsFiniteSet(Arrived(h))
  <2>1. IsFiniteSet(1 .. Len(h))
    BY <1>1, FS_Interval
  <2> QED  BY <1>4, <2>1, FS_Subset
<1> QED  BY <1>1, <1>2, <1>3, <1>4, <1>5

\* One event more.
LEMMA OneMore ==
    ASSUME NEW h \in Seq(Events), NEW e \in Events
    PROVE  /\ Append(h, e) \in Seq(Events) /\ Append(h, e) # <<>>
           /\ Len(Append(h, e)) = Len(h) + 1
           /\ DOMAIN Append(h, e) = DOMAIN h \cup {Len(h) + 1}
           /\ \A i \in DOMAIN h : Append(h, e)[i] = h[i]
           /\ Append(h, e)[Len(h) + 1] = e
           /\ e.type \in Arrivals => Arrived(Append(h, e)) = Arrived(h) \cup {Len(h) + 1}
           /\ e.type \notin Arrivals => Arrived(Append(h, e)) = Arrived(h)
<1> DEFINE more == Append(h, e)
<1>1. DOMAIN h = 1 .. Len(h) /\ Len(h) \in Nat
  BY HistoryFacts
<1>2. /\ more \in Seq(Events) /\ Len(more) = Len(h) + 1
      /\ \A i \in 1 .. Len(h) : more[i] = h[i]
      /\ more[Len(h) + 1] = e
  BY AppendProperties
<1>3. DOMAIN more = 1 .. (Len(h) + 1) /\ more # <<>>
  BY <1>1, <1>2, LenProperties, EmptySeq
<1>4. DOMAIN more = DOMAIN h \cup {Len(h) + 1}
  BY <1>1, <1>3
<1> HIDE DEF more
<1>5. (e.type \in Arrivals => Arrived(more) = Arrived(h) \cup {Len(h) + 1})
      /\ (e.type \notin Arrivals => Arrived(more) = Arrived(h))
  BY <1>1, <1>2, <1>3, <1>4 DEF Arrived
<1> QED  BY <1>1, <1>2, <1>3, <1>4, <1>5 DEF more

\* The events of an episode that begins.
LEMMA TwoMore ==
    ASSUME NEW h \in Seq(Events), NEW e \in Events, NEW f \in Events
    PROVE  h \o <<e, f>> = Append(Append(h, e), f)
<1>1. <<e, f>> = Append(Append(<<>>, e), f)
  OBVIOUS
<1> QED  BY <1>1, ConcatProperties, AppendProperties
-----------------------------------------------------------------------------
(***************************************************************************)
(* Histories that grow.                                                    *)
(***************************************************************************)
\* Where and how an event may follow.
Follows(h, e) ==
    h # <<>> => /\ h[Len(h)].number <= e.number
                /\ h[Len(h)].number < e.number =>
                      e.type \in {"episode_reset", "episode_restarted"}
                /\ h[Len(h)].number = e.number => h[Len(h)].id = e.id

LEMMA GrownFacts ==
    ASSUME NEW h \in Seq(Events), HistoryOK(h), Ordered(h),
           NEW e \in Events, Follows(h, e),
           e.type = "episode_initialized" => e.number = 0,
           e.type \in {"episode_reset", "episode_restarted"} => e.number > 0
    PROVE  HistoryOK(Append(h, e)) /\ Ordered(Append(h, e))
<1> DEFINE more == Append(h, e)
<1>0. e.number \in Nat
  BY ConstantsOK DEF Events
<1>1. /\ DOMAIN h = 1 .. Len(h) /\ Len(h) \in Nat /\ (h # <<>> => Len(h) > 0)
      /\ (h = <<>> => Len(h) = 0)
      /\ \A i \in DOMAIN h : h[i].number \in Nat
      /\ e.number \in Nat
  BY <1>0, HistoryFacts, EmptySeq
<1>2. /\ more \in Seq(Events) /\ Len(more) = Len(h) + 1
      /\ DOMAIN more = DOMAIN h \cup {Len(h) + 1}
      /\ \A i \in DOMAIN h : more[i] = h[i]
      /\ more[Len(h) + 1] = e
  BY OneMore
<1> HIDE DEF more
<1>3. ASSUME NEW i \in DOMAIN h PROVE h[i].number <= e.number
  <2>1. h # <<>> /\ Len(h) \in DOMAIN h
    BY <1>1
  <2>2. h[i].number <= h[Len(h)].number /\ h[Len(h)].number <= e.number
    BY <1>1, <2>1 DEF Ordered, Follows
  <2> QED  BY <1>1, <2>1, <2>2
<1>4. Ordered(more)
  <2>1. SUFFICES ASSUME NEW i \in DOMAIN more, NEW j \in DOMAIN more, i <= j
                 PROVE  more[i].number <= more[j].number
    BY DEF Ordered
  <2>2. CASE j \in DOMAIN h
    <3>1. i \in DOMAIN h
      BY <1>1, <1>2, <2>1, <2>2
    <3> QED  BY <1>2, <2>1, <2>2, <3>1 DEF Ordered
  <2>3. CASE j = Len(h) + 1
    BY <1>1, <1>2, <1>3, <2>3
  <2> QED  BY <1>2, <2>2, <2>3
<1>5. HistoryOK(more)
  <2>1. ASSUME NEW i \in DOMAIN more
        PROVE  /\ more[i].type = "episode_initialized" => more[i].number = 0
               /\ more[i].type \in {"episode_reset", "episode_restarted"} =>
                     more[i].number > 0
    BY <1>2 DEF HistoryOK
  <2>2. ASSUME NEW i \in 2 .. Len(more)
        PROVE  /\ more[i - 1].number <= more[i].number
               /\ more[i - 1].number < more[i].number =>
                     more[i].type \in {"episode_reset", "episode_restarted"}
               /\ more[i - 1].number = more[i].number => more[i - 1].id = more[i].id
    <3>1. CASE i \in 2 .. Len(h)
      <4>1. i \in DOMAIN h /\ i - 1 \in DOMAIN h
        BY <1>1, <3>1
      <4> QED  BY <1>2, <3>1, <4>1 DEF HistoryOK
    <3>2. CASE i = Len(h) + 1
      <4>1. h # <<>> /\ i - 1 = Len(h) /\ i - 1 \in DOMAIN h
        BY <1>1, <2>2, <3>2
      <4> QED  BY <1>2, <3>2, <4>1 DEF Follows
    <3> QED  BY <1>1, <1>2, <2>2, <3>1, <3>2
  <2> QED  BY <2>1, <2>2 DEF HistoryOK
<1> QED  BY <1>4, <1>5 DEF more

\* The last event of an earlier episode stays its last.
LEMMA ClosesStays ==
    ASSUME NEW h \in Seq(Events), NEW e \in Events, NEW i \in DOMAIN h, NEW n, Closes(h, i, n),
           i = Len(h) => e.number # n
    PROVE  Closes(Append(h, e), i, n)
<1> DEFINE more == Append(h, e)
<1>1. DOMAIN h = 1 .. Len(h) /\ Len(h) \in Nat
  BY HistoryFacts
<1>2. /\ Len(more) = Len(h) + 1 /\ \A k \in DOMAIN h : more[k] = h[k]
      /\ more[Len(h) + 1] = e
  BY OneMore
<1> HIDE DEF more
<1>3. more[i].number = n
  BY <1>2 DEF Closes
<1>4. ASSUME i < Len(more) PROVE more[i + 1].number # n
  <2>1. CASE i = Len(h)
    BY <1>2, <2>1
  <2>2. CASE i # Len(h)
    <3>1. i < Len(h) /\ i + 1 \in DOMAIN h
      BY <1>1, <2>2
    <3> QED  BY <1>2, <3>1 DEF Closes
  <2> QED  BY <2>1, <2>2
<1> QED  BY <1>3, <1>4 DEF Closes, more

LEMMA ClosesEnd ==
    ASSUME NEW h \in Seq(Events), NEW e \in Events
    PROVE  Len(h) + 1 \in DOMAIN Append(h, e) /\ Closes(Append(h, e), Len(h) + 1, e.number)
<1>1. Len(h) \in Nat /\ Len(Append(h, e)) = Len(h) + 1 /\ Append(h, e)[Len(h) + 1] = e
      /\ DOMAIN Append(h, e) = DOMAIN h \cup {Len(h) + 1}
  BY OneMore, HistoryFacts
<1> QED  BY <1>1 DEF Closes

\* In an ordered history the last event of an episode is one.
LEMMA ClosesOnce ==
    ASSUME NEW h \in Seq(Events), Ordered(h), NEW n \in Nat, NEW i \in DOMAIN h, Closes(h, i, n)
    PROVE  i = CHOOSE k \in DOMAIN h : Closes(h, k, n)
<1>1. /\ DOMAIN h = 1 .. Len(h) /\ Len(h) \in Nat
      /\ \A k \in DOMAIN h : h[k].number \in Nat
  BY HistoryFacts
<1>2. ASSUME NEW k \in DOMAIN h, NEW l \in DOMAIN h, Closes(h, k, n), Closes(h, l, n), k < l
      PROVE  FALSE
  <2>1. k + 1 \in DOMAIN h /\ k + 1 <= l /\ k <= k + 1 /\ k < Len(h)
    BY <1>1, <1>2
  <2>2. n <= h[k + 1].number /\ h[k + 1].number <= n /\ h[k + 1].number # n
    BY <1>2, <2>1 DEF Ordered, Closes
  <2> QED  BY <1>1, <2>1, <2>2
<1>3. \A k \in DOMAIN h : Closes(h, k, n) => k = i
  BY <1>1, <1>2
<1> QED  BY <1>3
-----------------------------------------------------------------------------
(***************************************************************************)
(* The operations keep state and history sound.                            *)
(***************************************************************************)
LEMMA EmptyHistory ==
    <<>> \in Seq(Events) /\ Len(<<>>) = 0 /\ DOMAIN <<>> = {} /\ Arrived(<<>>) = {}
    /\ HistoryOK(<<>>) /\ Ordered(<<>>)
<1>1. <<>> \in Seq(Events) /\ Len(<<>>) = 0 /\ DOMAIN <<>> = {}
  BY EmptySeq
<1>2. \A i \in 2 .. 0 : FALSE
  OBVIOUS
<1> QED  BY <1>1, <1>2 DEF Arrived, HistoryOK, Ordered

LEMMA BeginSound ==
    ASSUME NEW s \in States, Constructible(s), s.status = "running", s.reason = None,
           NEW h \in Seq(Events),
           \/ h = <<>> /\ s.number = 0
           \/ \E was \in States : /\ Sound(was, h) /\ s.number = was.number + 1
                                  /\ s.previous = was.id
    PROVE  Sound(s, h \o <<Event(Arrival[s.action], s.id, s.number),
                           Event("episode_running", s.id, s.number)>>)
<1> DEFINE e == Event(Arrival[s.action], s.id, s.number)
           f == Event("episode_running", s.id, s.number)
           begun == Append(h, e)
           more == Append(begun, f)
<1>1. /\ s.id \in Ids /\ s.number \in 0 .. MaxNumber /\ s.number \in Nat
      /\ s.action \in Actions
  BY ConstantsOK DEF States
<1>2. /\ e \in Events /\ e.type = Arrival[s.action] /\ e.type \in Arrivals
      /\ e.id = s.id /\ e.number = s.number
      /\ f \in Events /\ f.type = "episode_running" /\ f.type \notin Arrivals
      /\ f.type \notin Reasons /\ f.id = s.id /\ f.number = s.number
  <2>1. Arrival[s.action] \in EventTypes /\ Arrival[s.action] \in Arrivals
    BY <1>1, ArrivalFacts
  <2> QED  BY <1>1, <2>1, ArrivalFacts, EventFacts
<1>3. e.type = "episode_initialized" => e.number = 0
  BY <1>1, <1>2, ArrivalFacts DEF Constructible, Actions
<1>4. e.type \in {"episode_reset", "episode_restarted"} => e.number > 0
  BY <1>1, <1>2, ArrivalFacts DEF Constructible, Actions
<1>5. s.number > 0 => e.type \in {"episode_reset", "episode_restarted"}
  BY <1>1, <1>2, ArrivalFacts DEF Constructible, Actions
<1>6. h \o <<e, f>> = more
  BY <1>2, TwoMore
<1> HIDE DEF e, f
<1>7. /\ DOMAIN h = 1 .. Len(h) /\ Len(h) \in Nat
      /\ IsFiniteSet(Arrived(h)) /\ Arrived(h) \subseteq 1 .. Len(h)
  BY HistoryFacts
<1>8. /\ begun \in Seq(Events) /\ Len(begun) = Len(h) + 1
      /\ DOMAIN begun = DOMAIN h \cup {Len(h) + 1}
      /\ \A i \in DOMAIN h : begun[i] = h[i]
      /\ begun[Len(h) + 1] = e /\ Arrived(begun) = Arrived(h) \cup {Len(h) + 1}
  BY <1>2, OneMore
<1>9. /\ more \in Seq(Events) /\ more # <<>> /\ Len(more) = Len(h) + 2
      /\ DOMAIN more = DOMAIN h \cup {Len(h) + 1, Len(h) + 2}
      /\ \A i \in DOMAIN h : more[i] = h[i]
      /\ more[Len(h) + 1] = e /\ more[Len(h) + 2] = f
      /\ Arrived(more) = Arrived(h) \cup {Len(h) + 1}
  <2>1. /\ more \in Seq(Events) /\ more # <<>> /\ Len(more) = Len(begun) + 1
        /\ DOMAIN more = DOMAIN begun \cup {Len(begun) + 1}
        /\ \A i \in DOMAIN begun : more[i] = begun[i]
        /\ more[Len(begun) + 1] = f /\ Arrived(more) = Arrived(begun)
    <3> HIDE DEF begun
    <3> QED  BY <1>2, <1>8, OneMore
  <2> HIDE DEF begun, more
  <2> QED  BY <1>7, <1>8, <2>1
<1>10. HistoryOK(h) /\ Ordered(h)
  BY EmptyHistory DEF Sound
<1>11. Follows(h, e)
  BY <1>1, <1>2, <1>5 DEF Follows, Sound, HeadOK, States
<1>12. HistoryOK(begun) /\ Ordered(begun)
  BY <1>2, <1>3, <1>4, <1>10, <1>11, GrownFacts
<1>13. Follows(begun, f)
  BY <1>1, <1>2, <1>8 DEF Follows
<1>14. HistoryOK(more) /\ Ordered(more)
  <2> HIDE DEF begun
  <2> QED  BY <1>2, <1>8, <1>12, <1>13, GrownFacts
<1>15. ASSUME NEW n \in 0 .. s.number PROVE \E i \in DOMAIN more : Closes(more, i, n)
  <2>1. CASE n = s.number
    <3>1. Len(begun) + 1 \in DOMAIN more /\ Closes(more, Len(begun) + 1, f.number)
      <4> HIDE DEF begun
      <4> QED  BY <1>2, <1>8, ClosesEnd
    <3> QED  BY <1>2, <2>1, <3>1
  <2>2. CASE n # s.number
    <3>1. PICK was \in States : Sound(was, h) /\ s.number = was.number + 1
      BY <2>2
    <3>2. n \in 0 .. was.number
      BY <1>1, <2>2, <3>1, ConstantsOK DEF States
    <3>3. PICK i \in DOMAIN h : Closes(h, i, n)
      BY <3>1, <3>2 DEF Sound
    <3>4. e.number # n
      BY <1>2, <2>2
    <3>5. Closes(begun, i, n)
      BY <1>2, <3>3, <3>4, ClosesStays
    <3>6. i \in DOMAIN begun /\ i # Len(begun)
      BY <1>7, <1>8
    <3>7. Closes(more, i, n)
      <4> HIDE DEF begun
      <4> QED  BY <1>2, <1>8, <3>5, <3>6, ClosesStays
    <3> QED  BY <1>9, <3>7
  <2> QED  BY <2>1, <2>2
<1> HIDE DEF begun, more
<1>16. Cardinality(Arrived(more)) = s.number + 1
  <2>1. Cardinality(Arrived(more)) = Cardinality(Arrived(h)) + 1
    <3>1. Len(h) + 1 \notin Arrived(h)
      BY <1>7
    <3> QED  BY <1>7, <1>9, <3>1, FS_AddElement, ZenonT(60)
  <2>2. CASE h = <<>> /\ s.number = 0
    BY <2>1, <2>2, EmptyHistory, FS_EmptySet
  <2>3. ASSUME NEW was \in States, Sound(was, h), s.number = was.number + 1
        PROVE  Cardinality(Arrived(more)) = s.number + 1
    BY <2>1, <2>3 DEF Sound, Arrives
  <2> QED  BY <2>2, <2>3
<1>17. Latest(Len(h) + 1, Arrived(more))
  BY <1>7, <1>9 DEF Latest
<1>18. ASSUME s.number > 0
       PROVE  \E before \in DOMAIN more : /\ Latest(before, Arrived(more) \ {Len(h) + 1})
                                          /\ more[before].id = s.previous
  <2>1. PICK was \in States : Sound(was, h) /\ s.previous = was.id
    BY <1>18, <1>1
  <2>2. PICK at \in DOMAIN h : Latest(at, Arrived(h)) /\ h[at].id = was.id
    BY <2>1 DEF Sound, Arrives
  <2>3. Arrived(more) \ {Len(h) + 1} = Arrived(h)
    BY <1>7, <1>9
  <2> QED  BY <1>9, <2>1, <2>2, <2>3
<1>19. Arrives(s, more)
  BY <1>2, <1>9, <1>16, <1>17, <1>18 DEF Arrives
<1>20. HeadOK(s, more)
  BY <1>2, <1>9 DEF HeadOK
<1>21. Sound(s, more)
  BY <1>9, <1>14, <1>15, <1>19, <1>20 DEF Sound
<1> QED  BY <1>6, <1>21 DEF e, f

LEMMA TerminateSound ==
    ASSUME NEW s \in States, NEW h, Sound(s, h), NEW reason \in Reasons,
           NEW done, done = [s EXCEPT !.status = "terminated", !.reason = reason]
    PROVE  Sound(done, Append(h, Event(reason, s.id, s.number)))
<1> DEFINE e == Event(reason, s.id, s.number)
           more == Append(h, e)
<1>1. h \in Seq(Events) /\ h # <<>> /\ HistoryOK(h) /\ Ordered(h)
  BY DEF Sound
<1>2. s.id \in Ids /\ s.number \in 0 .. MaxNumber /\ s.number \in Nat
  BY ConstantsOK DEF States
<1>3. /\ e \in Events /\ e.type = reason /\ e.id = s.id /\ e.number = s.number
      /\ e.type \notin Arrivals
  BY <1>2, ArrivalFacts, EventFacts
<1>4. /\ done \in States /\ done.id = s.id /\ done.number = s.number
      /\ done.status = "terminated" /\ done.reason = reason
      /\ done.action = s.action /\ done.previous = s.previous
  BY DEF States
<1> HIDE DEF e
<1>5. /\ more \in Seq(Events) /\ more # <<>> /\ Len(more) = Len(h) + 1
      /\ DOMAIN more = DOMAIN h \cup {Len(h) + 1}
      /\ \A i \in DOMAIN h : more[i] = h[i]
      /\ more[Len(h) + 1] = e /\ Arrived(more) = Arrived(h)
  BY <1>1, <1>3, OneMore
<1>6. Follows(h, e)
  BY <1>1, <1>2, <1>3 DEF Follows, Sound, HeadOK
<1>7. HistoryOK(more) /\ Ordered(more)
  BY <1>1, <1>3, <1>6, ArrivalFacts, GrownFacts
<1>8. ASSUME NEW n \in 0 .. s.number PROVE \E i \in DOMAIN more : Closes(more, i, n)
  <2>1. CASE n = s.number
    BY <1>1, <1>3, <2>1, ClosesEnd
  <2>2. CASE n # s.number
    <3>1. PICK i \in DOMAIN h : Closes(h, i, n)
      BY DEF Sound
    <3>2. Closes(more, i, n)
      BY <1>1, <1>3, <2>2, <3>1, ClosesStays
    <3> QED  BY <1>5, <3>2
  <2> QED  BY <2>1, <2>2
<1> HIDE DEF more
<1>9. Constructible(done)
  <2>1. reason # None
    BY NoneIsNothing
  <2> QED  BY <1>4, <2>1 DEF Sound, Constructible
<1>10. HeadOK(done, more)
  BY <1>3, <1>4, <1>5 DEF HeadOK
<1>11. Arrives(done, more)
  <2>1. Arrives(s, h)
    BY DEF Sound
  <2>2. Cardinality(Arrived(more)) = done.number + 1
    BY <1>4, <1>5, <2>1 DEF Arrives
  <2>3. PICK at \in DOMAIN h :
          /\ Latest(at, Arrived(h))
          /\ h[at].id = s.id /\ h[at].type = Arrival[s.action]
          /\ s.number > 0 => \E before \in DOMAIN h :
                                /\ Latest(before, Arrived(h) \ {at})
                                /\ h[before].id = s.previous
    BY <2>1 DEF Arrives
  <2> QED  BY <1>4, <1>5, <2>2, <2>3 DEF Arrives
<1>12. Sound(done, more)
  BY <1>4, <1>5, <1>7, <1>8, <1>9, <1>10, <1>11 DEF Sound
<1> QED  BY <1>12 DEF e, more
-----------------------------------------------------------------------------
(***************************************************************************)
(* The invariant.                                                          *)
(***************************************************************************)
\* A snapshot is taken, if what became of the participant is sound.
LEMMA ApplyStep ==
    ASSUME Inv, NEW p \in Participants, NEW s \in States, NEW h, Sound(s, h),
           Apply(p, s, h), counter' \in [Participants -> 0 .. MaxId]
    PROVE  /\ Inv'
           /\ results' = [results EXCEPT ![p] = s]
           /\ history' = [history EXCEPT ![p] = h]
<1> DEFINE rs == [results EXCEPT ![p] = s]
           hs == [history EXCEPT ![p] = h]
<1>1. /\ rs = [q \in Participants |-> rs[q]] /\ hs = [q \in Participants |-> hs[q]]
      /\ rs[p] = s /\ hs[p] = h
      /\ \A q \in Participants \ {p} : rs[q] = results[q] /\ hs[q] = history[q]
  BY DEF Inv
<1> HIDE DEF rs, hs
<1>2. ASSUME NEW q \in Participants
      PROVE  IF rs[q] = None THEN hs[q] = <<>> ELSE Sound(rs[q], hs[q])
  <2>1. CASE q = p
    BY <1>1, <2>1, NoneIsNothing
  <2>2. CASE q # p
    BY <1>1, <2>2 DEF Inv
  <2> QED  BY <2>1, <2>2
<1>3. ContractHolds(rs, hs)
  <2>1. ASSUME NEW q \in Participants
        PROVE  /\ HistoryOK(hs[q])
               /\ rs[q] # None => Constructible(rs[q]) /\ HeadOK(rs[q], hs[q])
    BY <1>2, EmptyHistory DEF Sound
  <2> QED  BY <2>1 DEF ContractHolds
<1>4. results' = rs /\ history' = hs /\ UNCHANGED turnedDown
  BY <1>3 DEF Apply, rs, hs
<1>5. Inv'
  BY <1>1, <1>2, <1>4 DEF Inv
<1> QED  BY <1>4, <1>5 DEF rs, hs

\* An episode of p begins.
Begins(p, number, previous, kept) ==
    LET s == results'[p] IN
    /\ s \in States /\ s.status = "running" /\ s.number = number
    /\ s.previous = previous /\ s.previous # s.id
    /\ Sound(s, history'[p])
    /\ \E e, f \in Events : /\ history'[p] = kept \o <<e, f>>
                            /\ e.id = s.id /\ e.number = number /\ e.type \in Arrivals
                            /\ f = Event("episode_running", s.id, number)
    /\ \A q \in Participants \ {p} : history'[q] = history[q]

LEMMA NewEpisodeStep ==
    ASSUME Inv, NEW p \in Participants, NEW hint \in Hints \cup {None}, NEW action \in Actions,
           NEW number \in 0 .. MaxNumber, NEW previous \in Ids \cup {None},
           NEW kept \in Seq(Events),
           \/ kept = <<>> /\ number = 0
           \/ \E was \in States : /\ Sound(was, kept) /\ number = was.number + 1
                                  /\ previous = was.id,
           NewEpisode(p, hint, action, number, previous, kept)
    PROVE  /\ Inv'
           /\ \/ UNCHANGED <<results, history>>
              \/ Begins(p, number, previous, kept)
<1> DEFINE id == IF hint = None THEN counter[p] + 1 ELSE hint
           s == [id |-> id, number |-> number, status |-> "running",
                 reason |-> None, action |-> action, previous |-> previous]
           h == kept \o <<Event(Arrival[action], id, number),
                          Event("episode_running", id, number)>>
<1>1. /\ id \in Ids
      /\ counter' = IF hint = None THEN [counter EXCEPT ![p] = id] ELSE counter
      /\ IF Constructible(s) THEN Apply(p, s, h)
         ELSE UNCHANGED <<results, history, turnedDown>>
  BY DEF NewEpisode
<1> HIDE DEF id
<1>2. counter' \in [Participants -> 0 .. MaxId]
  <2>1. id \in 0 .. MaxId
    BY <1>1, ConstantsOK DEF Ids
  <2> QED  BY <1>1, <2>1 DEF Inv
<1>3. /\ s \in States
      /\ s.status = "running" /\ s.reason = None /\ s.id = id /\ s.number = number
      /\ s.action = action /\ s.previous = previous
  BY <1>1 DEF States
<1> HIDE DEF s
<1>4. h = kept \o <<Event(Arrival[s.action], s.id, s.number),
                    Event("episode_running", s.id, s.number)>>
  BY <1>3
<1> HIDE DEF h
<1>5. CASE Constructible(s)
  <2>1. Sound(s, h)
    BY <1>3, <1>4, <1>5, BeginSound
  <2>2. Apply(p, s, h)
    BY <1>1, <1>5
  <2>3. /\ Inv' /\ results' = [results EXCEPT ![p] = s]
        /\ history' = [history EXCEPT ![p] = h]
    BY <1>2, <1>3, <2>1, <2>2, ApplyStep
  <2>4. results'[p] = s /\ history'[p] = h
        /\ \A q \in Participants \ {p} : history'[q] = history[q]
    BY <2>3 DEF Inv
  <2>5. s.previous # s.id
    BY <1>5 DEF Constructible
  <2>6. \E e, f \in Events : /\ h = kept \o <<e, f>>
                            /\ e.id = id /\ e.number = number /\ e.type \in Arrivals
                            /\ f = Event("episode_running", id, number)
    <3>1. Arrival[action] \in EventTypes /\ Arrival[action] \in Arrivals
          /\ "episode_running" \in EventTypes
      BY ArrivalFacts
    <3> DEFINE e == Event(Arrival[action], id, number)
               f == Event("episode_running", id, number)
    <3>2. e \in Events /\ f \in Events /\ e.id = id /\ e.number = number
          /\ e.type = Arrival[action]
      BY <1>1, <3>1, EventFacts
    <3>3. h = kept \o <<e, f>>
      BY DEF h
    <3> HIDE DEF e
    <3> QED  BY <3>1, <3>2, <3>3
  <2>7. Begins(p, number, previous, kept)
    BY <1>3, <2>1, <2>4, <2>5, <2>6 DEF Begins
  <2> QED  BY <2>3, <2>7
<1>6. CASE ~Constructible(s)
  <2>1. UNCHANGED <<results, history, turnedDown>>
    BY <1>1, <1>6
  <2> QED  BY <1>2, <2>1 DEF Inv
<1> QED  BY <1>5, <1>6

\* What an operation does, for the refinement too.
LEMMA InitializeStep ==
    ASSUME Inv, NEW p \in Participants, NEW hint \in Hints \cup {None}, Initialize(p, hint)
    PROVE  /\ Inv' /\ history[p] = <<>>
           /\ \/ UNCHANGED <<results, history>>
              \/ Begins(p, 0, None, <<>>)
<1>1. results[p] = None /\ NewEpisode(p, hint, "initialize", 0, None, <<>>)
  BY DEF Initialize
<1>2. history[p] = <<>> /\ <<>> \in Seq(Events)
  BY <1>1, EmptyHistory DEF Inv
<1>3. 0 \in 0 .. MaxNumber /\ "initialize" \in Actions
  BY ConstantsOK DEF Actions
<1>4. Inv' /\ (\/ UNCHANGED <<results, history>>
               \/ Begins(p, 0, None, <<>>))
  BY <1>1, <1>2, <1>3, NewEpisodeStep
<1> QED  BY <1>2, <1>4

LEMMA FollowStep ==
    ASSUME Inv, NEW p \in Participants, NEW hint \in Hints \cup {None},
           NEW action \in {"reset", "restart"}, NEW status \in {"running", "terminated"},
           Follow(p, hint, action, status)
    PROVE  /\ Inv' /\ results[p] # None /\ results[p].status = status
           /\ \/ UNCHANGED <<results, history>>
              \/ Begins(p, results[p].number + 1, results[p].id, history[p])
<1>1. /\ results[p] # None /\ results[p].status = status
      /\ results[p].number < MaxNumber
      /\ NewEpisode(p, hint, action, results[p].number + 1, results[p].id, history[p])
  BY DEF Follow
<1>2. Sound(results[p], history[p])
  BY <1>1 DEF Inv
<1>3. /\ results[p] \in States /\ history[p] \in Seq(Events)
      /\ results[p].number \in 0 .. MaxNumber /\ results[p].id \in Ids \cup {None}
  BY <1>2 DEF Sound, States
<1>4. results[p].number + 1 \in 0 .. MaxNumber /\ action \in Actions
  BY <1>1, <1>3, ConstantsOK DEF Actions
<1>5. \E was \in States : /\ Sound(was, history[p]) /\ results[p].number + 1 = was.number + 1
                          /\ results[p].id = was.id
  BY <1>2, <1>3
<1>6. Inv' /\ (\/ UNCHANGED <<results, history>>
               \/ Begins(p, results[p].number + 1, results[p].id, history[p]))
  BY <1>1, <1>3, <1>4, <1>5, NewEpisodeStep
<1> QED  BY <1>1, <1>6

LEMMA TerminateStep ==
    ASSUME Inv, NEW p \in Participants, NEW reason \in Reasons, Terminate(p, reason)
    PROVE  /\ Inv' /\ results[p] # None /\ results[p].status = "running"
           /\ history' = [history EXCEPT ![p] =
                 Append(history[p], Event(reason, results[p].id, results[p].number))]
<1> DEFINE done == [results[p] EXCEPT !.status = "terminated", !.reason = reason]
           more == Append(history[p], Event(reason, results[p].id, results[p].number))
<1>1. /\ results[p] # None /\ results[p].status = "running"
      /\ Apply(p, done, more) /\ UNCHANGED counter
  BY DEF Terminate
<1>2. Sound(results[p], history[p]) /\ results[p] \in States
  BY <1>1 DEF Inv, Sound
<1>3. done \in States
  BY <1>2 DEF States
<1>4. Sound(done, more)
  BY <1>2, TerminateSound
<1>5. counter' \in [Participants -> 0 .. MaxId]
  BY <1>1 DEF Inv
<1> HIDE DEF done, more
<1>6. Inv' /\ history' = [history EXCEPT ![p] = more]
  BY <1>1, <1>3, <1>4, <1>5, ApplyStep
<1> QED  BY <1>1, <1>6 DEF more

LEMMA RestartStep == ASSUME Inv, RestartProcess PROVE Inv' /\ UNCHANGED <<results, history>>
<1>1. counter' \in [Participants -> 0 .. MaxId]
  BY ConstantsOK DEF RestartProcess
<1>2. UNCHANGED <<results, history, turnedDown>>
  BY DEF RestartProcess
<1> QED  BY <1>1, <1>2 DEF Inv

(***************************************************************************)
(* Whatever is asked of the backend, in any order and over any restarts,   *)
(* the current episode and its history belong together.                    *)
(***************************************************************************)
THEOREM EpisodesSound == Spec => []Inv
<1>1. Init => Inv
  BY ConstantsOK DEF Init, Inv
<1>2. Inv /\ [Next]_vars => Inv'
  <2> SUFFICES ASSUME Inv, [Next]_vars PROVE Inv'
    OBVIOUS
  <2>1. ASSUME NEW p \in Participants, NEW hint \in Hints \cup {None}, Initialize(p, hint)
        PROVE  Inv'
    BY <2>1, InitializeStep
  <2>2. ASSUME NEW p \in Participants, NEW hint \in Hints \cup {None},
               Follow(p, hint, "reset", "running") \/ Follow(p, hint, "restart", "terminated")
        PROVE  Inv'
    BY <2>2, FollowStep
  <2>3. ASSUME NEW p \in Participants, NEW reason \in Reasons, Terminate(p, reason)
        PROVE  Inv'
    BY <2>3, TerminateStep
  <2>4. ASSUME RestartProcess PROVE Inv'
    BY <2>4, RestartStep
  <2>5. CASE UNCHANGED vars
    BY <2>5 DEF vars, Inv
  <2> QED  BY <2>1, <2>2, <2>3, <2>4, <2>5 DEF Next
<1> QED  BY <1>1, <1>2, PTL DEF Spec

\* Everything has its type.
THEOREM TypeCorrect == Spec => []TypeOK
<1>1. Inv => TypeOK
  <2> SUFFICES ASSUME Inv PROVE TypeOK
    OBVIOUS
  <2>1. ASSUME NEW p \in Participants
        PROVE  results[p] \in States \cup {None} /\ ToSet(history[p]) \subseteq Events
    <3>1. CASE results[p] = None
      BY <3>1, EmptyHistory DEF Inv, ToSet
    <3>2. CASE results[p] # None
      <4>1. results[p] \in States /\ history[p] \in Seq(Events)
        BY <3>2 DEF Inv, Sound
      <4> QED  BY <4>1, HistoryFacts DEF ToSet
    <3> QED  BY <3>1, <3>2
  <2>2. results \in [Participants -> States \cup {None}]
    BY <2>1 DEF Inv
  <2> QED  BY <2>1, <2>2 DEF Inv, TypeOK
<1> QED  BY <1>1, EpisodesSound, PTL

(***************************************************************************)
(* The reference backend never has a result turned down by the contract.   *)
(***************************************************************************)
THEOREM ContractNeverRefusesCorrect == Spec => []ContractNeverRefuses
<1>1. Inv => ContractNeverRefuses
  BY DEF Inv, ContractNeverRefuses
<1> QED  BY <1>1, EpisodesSound, PTL

LEMMA LatestIsMax ==
    ASSUME NEW S \in SUBSET Nat, NEW at, Latest(at, S) PROVE Max(S) = at
<1>1. at \in S /\ \A i \in S : i \in Nat /\ at >= i
  BY DEF Latest
<1>2. Max(S) \in S /\ \A i \in S : Max(S) >= i
  <2>1. \E most \in S : \A i \in S : most >= i
    BY <1>1
  <2> QED  BY <2>1 DEF Max
<1>3. Max(S) \in Nat /\ at \in Nat /\ Max(S) >= at /\ at >= Max(S)
  BY <1>1, <1>2
<1> QED  BY <1>3

(***************************************************************************)
(* The history alone gives the current episode.                            *)
(***************************************************************************)
LEMMA SoundTells ==
    ASSUME NEW s, NEW h, Sound(s, h)
    PROVE  LET arrived == Arrived(h)
               at == Max(arrived)
               last == h[Len(h)].type
           IN  /\ arrived # {}
               /\ s = [id |-> h[at].id, number |-> Cardinality(arrived) - 1,
                      status |-> IF last \in Reasons THEN "terminated" ELSE "running",
                      reason |-> IF last \in Reasons THEN last ELSE None,
                      action |-> CHOOSE a \in Actions : Arrival[a] = h[at].type,
                      previous |-> IF arrived = {at} THEN None
                                   ELSE h[Max(arrived \ {at})].id]
<1> DEFINE arrived == Arrived(h)
           last == h[Len(h)].type
<1>1. /\ h \in Seq(Events) /\ h # <<>> /\ s \in States
      /\ Constructible(s) /\ HeadOK(s, h)
  BY DEF Sound
<1>2. /\ s.number \in Nat /\ s.status \in {"running", "terminated"}
      /\ s.reason \in Reasons \cup {None} /\ s.action \in Actions
  BY <1>1, ConstantsOK DEF States
<1>3. IsFiniteSet(arrived) /\ arrived \in SUBSET Nat
  BY <1>1, HistoryFacts
<1>4. PICK at \in DOMAIN h :
         /\ Latest(at, arrived)
         /\ h[at].id = s.id /\ h[at].type = Arrival[s.action]
         /\ s.number > 0 => \E before \in DOMAIN h :
                               /\ Latest(before, arrived \ {at})
                               /\ h[before].id = s.previous
  BY DEF Sound, Arrives
<1>5. Cardinality(arrived) = s.number + 1
  BY DEF Sound, Arrives
<1> HIDE DEF arrived
<1>6. at = Max(arrived) /\ at \in arrived
  BY <1>3, <1>4, LatestIsMax DEF Latest
<1>7. s.reason = IF last \in Reasons THEN last ELSE None
  BY <1>1, <1>2, NoneIsNothing DEF Constructible, HeadOK
<1>8. s.status = IF last \in Reasons THEN "terminated" ELSE "running"
  BY <1>1, <1>2, NoneIsNothing DEF Constructible, HeadOK
<1>9. s.action = CHOOSE a \in Actions : Arrival[a] = h[at].type
  <2>1. \A a \in Actions : Arrival[a] = Arrival[s.action] => a = s.action
    BY <1>2, ArrivalFacts DEF Actions
  <2> QED  BY <1>2, <1>4, <2>1
<1>10. s.previous = IF arrived = {at} THEN None ELSE h[Max(arrived \ {at})].id
  <2>1. CASE arrived = {at}
    <3>1. s.number = 0
      BY <1>2, <1>5, <2>1, FS_Singleton
    <3> QED  BY <1>1, <2>1, <3>1 DEF Constructible
  <2>2. CASE arrived # {at}
    <3>1. Cardinality(arrived) # 1
      BY <1>3, <1>6, <2>2, FS_Singleton
    <3>2. s.number > 0
      BY <1>2, <1>5, <3>1
    <3>3. PICK before \in DOMAIN h : Latest(before, arrived \ {at}) /\ h[before].id = s.previous
      BY <1>4, <3>2
    <3>4. Max(arrived \ {at}) = before
      BY <1>3, <3>3, LatestIsMax
    <3> QED  BY <2>2, <3>3, <3>4
  <2> QED  BY <2>1, <2>2
<1>11. s.id = h[at].id /\ s.number = Cardinality(arrived) - 1
  BY <1>2, <1>4, <1>5
<1>12. s = [id |-> s.id, number |-> s.number, status |-> s.status, reason |-> s.reason,
            action |-> s.action, previous |-> s.previous]
  BY <1>1 DEF States
<1> HIDE DEF last
<1>13. s = [id |-> h[at].id, number |-> Cardinality(arrived) - 1,
            status |-> IF last \in Reasons THEN "terminated" ELSE "running",
            reason |-> IF last \in Reasons THEN last ELSE None,
            action |-> CHOOSE a \in Actions : Arrival[a] = h[at].type,
            previous |-> IF arrived = {at} THEN None ELSE h[Max(arrived \ {at})].id]
  BY <1>7, <1>8, <1>9, <1>10, <1>11, <1>12
<1> QED  BY <1>6, <1>13 DEF arrived, last

(***************************************************************************)
(* The state a backend reports can be told from the history it keeps: its  *)
(* episode, number, status, reason and predecessor are those of the last   *)
(* events.                                                                 *)
(***************************************************************************)
THEOREM HistoryTellsStateCorrect == Spec => []HistoryTellsState
<1>1. Inv => HistoryTellsState
  <2> SUFFICES ASSUME Inv PROVE HistoryTellsState
    OBVIOUS
  <2>1. ASSUME NEW p \in Participants, results[p] = None PROVE Arrived(history[p]) = {}
    BY <2>1, EmptyHistory DEF Inv
  <2>2. ASSUME NEW p \in Participants, results[p] # None
        PROVE  Sound(results[p], history[p])
    BY <2>2 DEF Inv
  <2> QED  BY <2>1, <2>2, SoundTells, ZenonT(60) DEF HistoryTellsState
<1> QED  BY <1>1, EpisodesSound, PTL
-----------------------------------------------------------------------------
(***************************************************************************)
(* The chain of episodes.                                                  *)
(***************************************************************************)
\* The fate of the current episode.
FateOf(s) == IF s.status = "terminated" THEN s.reason ELSE "live"

LEMMA ToldAt ==
    ASSUME NEW h \in Seq(Events), Ordered(h), NEW n \in Nat,
           NEW i \in DOMAIN h, Closes(h, i, n)
    PROVE  Told(h, n) = [id |-> h[i].id,
                         fate |-> IF h[i].type \in Reasons THEN h[i].type
                                  ELSE IF n = h[Len(h)].number THEN "live" ELSE "reset"]
<1>1. i = CHOOSE k \in DOMAIN h : Closes(h, k, n)
  BY ClosesOnce
<1> QED  BY <1>1 DEF Told

LEMMA ToldHead ==
    ASSUME NEW s, NEW h, Sound(s, h)
    PROVE  /\ Len(h) \in DOMAIN h /\ Closes(h, Len(h), s.number)
           /\ Told(h, s.number) = [id |-> s.id, fate |-> FateOf(s)]
<1>1. /\ h \in Seq(Events) /\ h # <<>> /\ Ordered(h) /\ s.number \in Nat
      /\ s.status \in {"running", "terminated"} /\ s.reason \in Reasons \cup {None}
      /\ Constructible(s) /\ HeadOK(s, h)
  BY ConstantsOK DEF Sound, States
<1>2. Len(h) \in DOMAIN h
  BY <1>1, HistoryFacts
<1>3. Closes(h, Len(h), s.number)
  BY <1>1, <1>2, HistoryFacts DEF HeadOK, Closes
<1>4. s.status = "terminated" => h[Len(h)].type = s.reason /\ s.reason \in Reasons
  BY <1>1 DEF HeadOK, Constructible
<1>5. s.status # "terminated" => h[Len(h)].type \notin Reasons
  BY <1>1 DEF HeadOK
<1>6. h[Len(h)].id = s.id /\ h[Len(h)].number = s.number
  BY <1>1 DEF HeadOK
<1>7. Told(h, s.number) = [id |-> h[Len(h)].id,
                           fate |-> IF h[Len(h)].type \in Reasons THEN h[Len(h)].type
                                    ELSE IF s.number = h[Len(h)].number THEN "live" ELSE "reset"]
  BY <1>1, <1>2, <1>3, ToldAt
<1> QED  BY <1>2, <1>3, <1>4, <1>5, <1>6, <1>7 DEF FateOf

\* What a follower's events change of what is told: a running episode was reset.
LEMMA ToldFollowed ==
    ASSUME NEW s, NEW h, Sound(s, h), NEW e \in Events, NEW f \in Events,
           e.number = s.number + 1, f.number = s.number + 1,
           Ordered(Append(Append(h, e), f))
    PROVE  /\ \A n \in 0 .. (s.number - 1) : Told(Append(Append(h, e), f), n) = Told(h, n)
           /\ Told(Append(Append(h, e), f), s.number) =
                 [id |-> s.id, fate |-> IF s.status = "terminated" THEN s.reason ELSE "reset"]
<1> DEFINE begun == Append(h, e)
           more == Append(begun, f)
<1>1. /\ h \in Seq(Events) /\ h # <<>> /\ Ordered(h) /\ s.number \in Nat
      /\ s.status \in {"running", "terminated"} /\ s.reason \in Reasons \cup {None}
      /\ Constructible(s) /\ HeadOK(s, h)
  BY ConstantsOK DEF Sound, States
<1>2. /\ begun \in Seq(Events) /\ Len(begun) = Len(h) + 1
      /\ DOMAIN begun = DOMAIN h \cup {Len(h) + 1} /\ \A i \in DOMAIN h : begun[i] = h[i]
  BY <1>1, OneMore
<1>3. ASSUME NEW n \in 0 .. s.number, NEW i \in DOMAIN h, Closes(h, i, n)
      PROVE  /\ i \in DOMAIN more /\ Closes(more, i, n) /\ more[i] = h[i] /\ more \in Seq(Events)
             /\ n # more[Len(more)].number
  <2>1. e.number # n /\ f.number # n /\ n \in Nat
    BY <1>1
  <2>2. Closes(begun, i, n)
    BY <1>1, <1>3, <2>1, ClosesStays
  <2> HIDE DEF begun
  <2>3. i \in DOMAIN begun
    BY <1>2
  <2>4. Closes(more, i, n)
    BY <1>2, <2>1, <2>2, <2>3, ClosesStays
  <2>5. /\ more \in Seq(Events) /\ DOMAIN more = DOMAIN begun \cup {Len(begun) + 1}
        /\ \A k \in DOMAIN begun : more[k] = begun[k]
        /\ Len(more) = Len(begun) + 1 /\ more[Len(begun) + 1] = f
    BY <1>2, OneMore
  <2> QED  BY <1>2, <2>1, <2>3, <2>4, <2>5
<1>4. Ordered(more)
  OBVIOUS
<1> HIDE DEF more
<1>5. ASSUME NEW n \in 0 .. (s.number - 1) PROVE Told(more, n) = Told(h, n)
  <2>1. n \in 0 .. s.number /\ n \in Nat /\ n # s.number
    BY <1>1
  <2>2. PICK i \in DOMAIN h : Closes(h, i, n)
    BY <2>1 DEF Sound
  <2>3. Told(h, n) = [id |-> h[i].id,
                      fate |-> IF h[i].type \in Reasons THEN h[i].type
                               ELSE IF n = h[Len(h)].number THEN "live" ELSE "reset"]
    BY <1>1, <2>1, <2>2, ToldAt
  <2>4. /\ i \in DOMAIN more /\ Closes(more, i, n) /\ more[i] = h[i] /\ more \in Seq(Events)
        /\ n # more[Len(more)].number
    BY <1>3, <2>1, <2>2
  <2>5. Told(more, n) = [id |-> more[i].id,
                         fate |-> IF more[i].type \in Reasons THEN more[i].type
                                  ELSE IF n = more[Len(more)].number THEN "live" ELSE "reset"]
    BY <1>4, <2>1, <2>4, ToldAt
  <2>6. h[Len(h)].number = s.number
    BY <1>1 DEF HeadOK
  <2> QED  BY <2>1, <2>3, <2>4, <2>5, <2>6
<1>6. Told(more, s.number) =
        [id |-> s.id, fate |-> IF s.status = "terminated" THEN s.reason ELSE "reset"]
  <2>1. Len(h) \in DOMAIN h /\ Closes(h, Len(h), s.number)
    BY ToldHead
  <2>2. /\ Len(h) \in DOMAIN more /\ Closes(more, Len(h), s.number) /\ more[Len(h)] = h[Len(h)]
        /\ more \in Seq(Events) /\ s.number # more[Len(more)].number
    BY <1>1, <1>3, <2>1
  <2>3. Told(more, s.number) =
          [id |-> h[Len(h)].id,
           fate |-> IF h[Len(h)].type \in Reasons THEN h[Len(h)].type
                    ELSE IF s.number = more[Len(more)].number THEN "live" ELSE "reset"]
    BY <1>1, <1>4, <2>2, ToldAt
  <2>4. s.status = "terminated" => h[Len(h)].type = s.reason /\ s.reason \in Reasons
    BY <1>1 DEF HeadOK, Constructible
  <2>5. s.status # "terminated" => h[Len(h)].type \notin Reasons
    BY <1>1 DEF HeadOK
  <2>6. h[Len(h)].id = s.id
    BY <1>1 DEF HeadOK
  <2> QED  BY <2>2, <2>3, <2>4, <2>5, <2>6
<1> QED  BY <1>5, <1>6 DEF more

\* What ends the current episode changes nothing that is told of earlier ones.
LEMMA ToldEnded ==
    ASSUME NEW s, NEW h, Sound(s, h), NEW e \in Events, e.number = s.number,
           Ordered(Append(h, e)), NEW n \in 0 .. (s.number - 1)
    PROVE  Told(Append(h, e), n) = Told(h, n)
<1> DEFINE more == Append(h, e)
<1>1. /\ h \in Seq(Events) /\ Ordered(h) /\ s.number \in Nat
      /\ h[Len(h)].number = s.number
  BY ConstantsOK DEF Sound, States, HeadOK
<1>2. n \in 0 .. s.number /\ n \in Nat /\ n # s.number
  BY <1>1
<1>3. PICK i \in DOMAIN h : Closes(h, i, n)
  BY <1>2 DEF Sound
<1>4. Closes(more, i, n)
  BY <1>1, <1>2, <1>3, ClosesStays
<1>5. /\ more \in Seq(Events) /\ i \in DOMAIN more /\ more[i] = h[i]
      /\ more[Len(more)].number = s.number
  BY <1>1, OneMore
<1>6. Told(h, n) = [id |-> h[i].id,
                    fate |-> IF h[i].type \in Reasons THEN h[i].type
                             ELSE IF n = h[Len(h)].number THEN "live" ELSE "reset"]
  BY <1>1, <1>2, <1>3, ToldAt
<1>7. Told(more, n) = [id |-> more[i].id,
                       fate |-> IF more[i].type \in Reasons THEN more[i].type
                                ELSE IF n = more[Len(more)].number THEN "live" ELSE "reset"]
  BY <1>2, <1>4, <1>5, ToldAt
<1> QED  BY <1>1, <1>2, <1>5, <1>6, <1>7

\* A function on 1 .. n is a sequence, and so is what Append makes of it.
LEMMA FunctionAppend ==
    ASSUME NEW n \in Nat, NEW c, c = [i \in 1 .. n |-> c[i]], NEW x
    PROVE  /\ Len(c) = n
           /\ Append(c, x) = [i \in 1 .. (n + 1) |-> IF i = n + 1 THEN x ELSE c[i]]
<1> DEFINE S == {c[i] : i \in 1 .. n} \cup {x}
           d == [i \in 1 .. (n + 1) |-> IF i = n + 1 THEN x ELSE c[i]]
<1>1. c \in [1 .. n -> S] /\ d \in [1 .. (n + 1) -> S] /\ x \in S
  OBVIOUS
<1> HIDE DEF S
<1>2. c \in Seq(S) /\ d \in Seq(S)
  BY <1>1, SeqDef
<1>3. Len(c) = n
  BY <1>1, <1>2, LenProperties
<1>4. Append(c, x) \in Seq(S) /\ Len(Append(c, x)) = n + 1
      /\ \A i \in 1 .. (n + 1) : Append(c, x)[i] = d[i]
  BY <1>1, <1>2, <1>3, AppendProperties
<1>5. Len(d) = n + 1
  BY <1>1, <1>2, LenProperties
<1> HIDE DEF d
<1>6. Append(c, x) = d
  BY <1>2, <1>4, <1>5, SeqEqual
<1> QED  BY <1>3, <1>6 DEF d

LEMMA ChainForm ==
    ASSUME NEW s, NEW h, Sound(s, h)
    PROVE  /\ s.number \in Nat
           /\ ChainOf(h) = [i \in 1 .. (s.number + 1) |-> Told(h, i - 1)]
           /\ ChainOf(h) = [i \in 1 .. (s.number + 1) |-> ChainOf(h)[i]]
           /\ Len(ChainOf(h)) = s.number + 1 /\ ChainOf(h) # <<>>
           /\ ChainOf(h)[Len(ChainOf(h))] = [id |-> s.id, fate |-> FateOf(s)]
<1>1. s.number \in Nat /\ Cardinality(Arrived(h)) = s.number + 1
  BY ConstantsOK DEF Sound, States, Arrives
<1>2. ChainOf(h) = [i \in 1 .. (s.number + 1) |-> Told(h, i - 1)]
  BY <1>1 DEF ChainOf
<1> DEFINE c == ChainOf(h)
           n == s.number + 1
<1>3. c = [i \in 1 .. n |-> c[i]] /\ c[n] = Told(h, n - 1)
  BY <1>1, <1>2
<1>4. n \in Nat /\ n > 0 /\ n - 1 = s.number
  BY <1>1
<1> HIDE DEF c, n
<1>5. Len(c) = n
  BY <1>3, <1>4, FunctionAppend
<1>6. c # <<>>
  BY <1>4, <1>5
<1>7. c[Len(c)] = [id |-> s.id, fate |-> FateOf(s)]
  BY <1>3, <1>4, <1>5, ToldHead
<1> QED  BY <1>1, <1>2, <1>3, <1>5, <1>6, <1>7 DEF c, n

\* The first episode of a chain.
LEMMA ChainFirst ==
    ASSUME NEW s, NEW h, Sound(s, h), s.number = 0
    PROVE  /\ ChainOf(<<>>) = <<>>
           /\ ChainOf(h) = Append(ChainOf(<<>>), [id |-> s.id, fate |-> FateOf(s)])
<1>1. ChainOf(<<>>) = <<>>
  <2>1. Cardinality(Arrived(<<>>)) = 0
    BY EmptyHistory, FS_EmptySet
  <2>2. \A i \in 1 .. 0 : FALSE
    OBVIOUS
  <2> QED  BY <2>1, <2>2 DEF ChainOf
<1>2. <<>> = [i \in 1 .. 0 |-> <<>>[i]]
  <2>1. \A i \in 1 .. 0 : FALSE
    OBVIOUS
  <2> QED  BY <2>1
<1> DEFINE x == [id |-> s.id, fate |-> FateOf(s)]
<1> HIDE DEF x
<1>3. Append(<<>>, x) = [i \in 1 .. 1 |-> IF i = 1 THEN x ELSE <<>>[i]]
  BY <1>2, FunctionAppend
<1>4. ChainOf(h) = [i \in 1 .. 1 |-> Told(h, i - 1)] /\ Told(h, 0) = x
  <2>1. ChainOf(h) = [i \in 1 .. (s.number + 1) |-> Told(h, i - 1)]
    BY ONLY Sound(s, h), ChainForm
  <2>2. Told(h, s.number) = [id |-> s.id, fate |-> FateOf(s)]
    BY ToldHead
  <2>3. s.number + 1 = 1
    OBVIOUS
  <2> QED  BY <2>1, <2>2, <2>3 DEF x
<1>5. ChainOf(h) = Append(<<>>, x)
  BY <1>3, <1>4
<1> QED  BY <1>1, <1>5 DEF x

\* A follower: what was running was reset, what was terminated stays so.
LEMMA ChainFollowed ==
    ASSUME NEW was, NEW h, Sound(was, h), NEW e \in Events, NEW f \in Events,
           NEW s, Sound(s, h \o <<e, f>>), s.number = was.number + 1, s.status = "running",
           e.number = s.number, f.number = s.number
    PROVE  LET left == IF was.status = "terminated" THEN ChainOf(h)
                       ELSE [ChainOf(h) EXCEPT ![Len(ChainOf(h))].fate = "reset"]
           IN  ChainOf(h \o <<e, f>>) = Append(left, [id |-> s.id, fate |-> "live"])
<1> DEFINE more == Append(Append(h, e), f)
           c == ChainOf(h)
           n == was.number + 1
           left == IF was.status = "terminated" THEN c ELSE [c EXCEPT ![n].fate = "reset"]
           x == [id |-> s.id, fate |-> "live"]
<1>1. h \in Seq(Events) /\ h \o <<e, f>> = more
  BY TwoMore DEF Sound
<1>2. Sound(s, more)
  BY <1>1
<1>3. /\ was.number \in Nat /\ n \in Nat /\ n - 1 = was.number
      /\ c = [i \in 1 .. n |-> Told(h, i - 1)] /\ Len(c) = n
      /\ c[n] = [id |-> was.id, fate |-> FateOf(was)]
  BY ChainForm
<1>4. ChainOf(more) = [i \in 1 .. (n + 1) |-> Told(more, i - 1)]
  <2> HIDE DEF more
  <2>1. ChainOf(more) = [i \in 1 .. (s.number + 1) |-> Told(more, i - 1)]
    BY <1>2, ChainForm
  <2> QED  BY <2>1
<1>5. Told(more, n) = x
  <2> HIDE DEF more
  <2>1. Told(more, s.number) = [id |-> s.id, fate |-> FateOf(s)]
    BY <1>2, ToldHead
  <2> QED  BY <2>1 DEF FateOf
<1>6. /\ \A k \in 0 .. (was.number - 1) : Told(more, k) = Told(h, k)
      /\ Told(more, was.number) =
           [id |-> was.id, fate |-> IF was.status = "terminated" THEN was.reason ELSE "reset"]
  <2>1. Ordered(more)
    BY <1>2 DEF Sound
  <2> QED  BY <2>1, ToldFollowed
<1> HIDE DEF more, c
<1>7. left = [i \in 1 .. n |-> left[i]]
  BY <1>3
<1>8. \A i \in 1 .. n : left[i] = Told(more, i - 1)
  <2>1. left[n] = Told(more, n - 1)
    <3> HIDE DEF n
    <3>1. Told(more, n - 1) =
            [id |-> was.id, fate |-> IF was.status = "terminated" THEN was.reason ELSE "reset"]
      BY <1>3, <1>6
    <3>2. n \in DOMAIN c
      BY <1>3
    <3>3. CASE was.status = "terminated"
      BY <1>3, <3>1, <3>3 DEF FateOf
    <3>4. CASE was.status # "terminated"
      <4>1. left[n] = [c[n] EXCEPT !.fate = "reset"]
        BY <3>2, <3>4
      <4> QED  BY <1>3, <3>1, <3>4, <4>1
    <3> QED  BY <3>3, <3>4
  <2>2. ASSUME NEW i \in 1 .. (n - 1) PROVE left[i] = Told(more, i - 1)
    <3>1. i - 1 \in 0 .. (was.number - 1) /\ i \in 1 .. n /\ i # n
      BY <1>3
    <3>2. c[i] = Told(h, i - 1)
      BY <1>3, <3>1
    <3>3. left[i] = c[i]
      BY <3>1
    <3> QED  BY <1>6, <3>1, <3>2, <3>3
  <2> HIDE DEF left
  <2>3. ASSUME NEW i \in 1 .. n PROVE i = n \/ i \in 1 .. (n - 1)
    BY <1>3
  <2> QED  BY <2>1, <2>2, <2>3
<1> HIDE DEF left, n
<1>9. Append(left, x) = [i \in 1 .. (n + 1) |-> IF i = n + 1 THEN x ELSE left[i]]
  BY <1>3, <1>7, FunctionAppend
<1>10. ChainOf(more) = Append(left, x)
  BY <1>3, <1>4, <1>5, <1>8, <1>9
<1> QED  BY <1>1, <1>3, <1>10 DEF left, x, c

LEMMA ChainEnded ==
    ASSUME NEW s, NEW h, Sound(s, h), NEW e \in Events, e.number = s.number,
           NEW done, Sound(done, Append(h, e)),
           done.number = s.number, done.id = s.id
    PROVE  ChainOf(Append(h, e)) = [ChainOf(h) EXCEPT ![Len(ChainOf(h))].fate = FateOf(done)]
<1> DEFINE more == Append(h, e)
           c == ChainOf(h)
           n == s.number + 1
<1>1. Sound(done, more)
  OBVIOUS
<1>2. /\ s.number \in Nat /\ n \in Nat /\ n - 1 = s.number
      /\ c = [i \in 1 .. n |-> Told(h, i - 1)] /\ Len(c) = n
      /\ c[n] = [id |-> s.id, fate |-> FateOf(s)]
  BY ChainForm
<1>3. \A k \in 0 .. (s.number - 1) : Told(more, k) = Told(h, k)
  <2>1. Ordered(more)
    BY <1>1 DEF Sound
  <2> QED  BY <2>1, ToldEnded
<1> HIDE DEF more, c
<1>4. ChainOf(more) = [i \in 1 .. n |-> Told(more, i - 1)]
  <2>1. ChainOf(more) = [i \in 1 .. (done.number + 1) |-> Told(more, i - 1)]
    BY <1>1, ChainForm
  <2> QED  BY <2>1
<1>5. Told(more, n - 1) = [id |-> s.id, fate |-> FateOf(done)]
  BY <1>1, <1>2, ToldHead
<1>6. ASSUME NEW i \in 1 .. n
      PROVE  Told(more, i - 1) = IF i = n THEN [c[n] EXCEPT !.fate = FateOf(done)] ELSE c[i]
  <2>1. CASE i = n
    BY <1>2, <1>5, <2>1
  <2>2. CASE i # n
    <3>1. i - 1 \in 0 .. (s.number - 1)
      BY <1>2, <2>2
    <3> QED  BY <1>2, <1>3, <2>2, <3>1
  <2> QED  BY <2>1, <2>2
<1>7. [c EXCEPT ![n].fate = FateOf(done)] =
        [i \in 1 .. n |-> IF i = n THEN [c[n] EXCEPT !.fate = FateOf(done)] ELSE c[i]]
  BY <1>2
<1>8. ChainOf(more) = [c EXCEPT ![n].fate = FateOf(done)]
  BY <1>4, <1>6, <1>7
<1> QED  BY <1>2, <1>8 DEF c, more
-----------------------------------------------------------------------------
(***************************************************************************)
(* Every operation is a step of the chain of episodes, or none.            *)
(***************************************************************************)
ChainsOf(hs) == [p \in Participants |-> ChainOf(hs[p])]

LEMMA ChainKept ==
    ASSUME UNCHANGED <<results, history>> PROVE ChainsOf(history)' = ChainsOf(history)
  BY DEF ChainsOf

\* An episode that begins moves the chain of its participant only.
LEMMA BeginsChain ==
    ASSUME NEW p \in Participants, NEW number, NEW previous, NEW kept,
           Begins(p, number, previous, kept), NEW c, ChainOf(history'[p]) = c
    PROVE  ChainsOf(history)' = [ChainsOf(history) EXCEPT ![p] = c]
  BY DEF Begins, ChainsOf

LEMMA FirstChain ==
    ASSUME Inv, NEW p \in Participants, history[p] = <<>>, Begins(p, 0, None, <<>>)
    PROVE  Chain!Begin(p, results'[p].id)
<1> DEFINE s == results'[p]
           x == [id |-> s.id, fate |-> "live"]
<1>1. Sound(s, history'[p]) /\ s.number = 0 /\ s.status = "running"
  BY DEF Begins
<1>2. ChainOf(history[p]) = <<>> /\ ChainOf(history'[p]) = Append(ChainOf(history[p]), x)
  <2> HIDE DEF s
  <2> QED  BY <1>1, ChainFirst DEF FateOf
<1>3. ChainsOf(history)' = [ChainsOf(history) EXCEPT ![p] = Append(ChainOf(history[p]), x)]
  <2> HIDE DEF x
  <2> QED  BY <1>2, BeginsChain
<1> HIDE DEF s
<1>4. ChainsOf(history)[p] = ChainOf(history[p])
  BY DEF ChainsOf
<1>5. ChainsOf(history)' = [ChainsOf(history) EXCEPT ![p] = Append(@, x)]
  BY <1>3, <1>4
<1>6. ~Chain!IsLive(p)
  BY <1>2 DEF Chain!IsLive
<1> QED  BY <1>5, <1>6 DEF Chain!Begin, Chain!Live, ChainsOf, s

LEMMA NextChain ==
    ASSUME Inv, NEW p \in Participants, results[p] # None,
           Begins(p, results[p].number + 1, results[p].id, history[p])
    PROVE  \/ Chain!Begin(p, results'[p].id)
           \/ Chain!Reset(p, results'[p].id)
<1> DEFINE s == results'[p]
           was == results[p]
           h == history[p]
           x == [id |-> s.id, fate |-> "live"]
           left == IF was.status = "terminated" THEN ChainOf(h)
                   ELSE [ChainOf(h) EXCEPT ![Len(ChainOf(h))].fate = "reset"]
<1>1. /\ s \in States /\ s.status = "running" /\ s.number = was.number + 1
      /\ s.previous = was.id /\ s.previous # s.id /\ Sound(s, history'[p])
  BY DEF Begins
<1>2. PICK e \in Events, f \in Events :
         /\ history'[p] = h \o <<e, f>>
         /\ e.number = s.number /\ f = Event("episode_running", s.id, s.number)
  BY <1>1 DEF Begins
<1>3. f.number = s.number
  BY <1>2 DEF Event
<1>4. /\ Sound(was, h) /\ was \in States /\ was.status \in {"running", "terminated"}
      /\ (was.status = "terminated") = (was.reason # None)
      /\ was.reason \in Reasons \cup {None}
  BY DEF Inv, Sound, States, Constructible
<1>5. ChainOf(h) # <<>> /\ ChainOf(h)[Len(ChainOf(h))] = [id |-> was.id, fate |-> FateOf(was)]
  BY <1>4, ChainForm
<1> HIDE DEF s, was, h
<1>6. ChainOf(history'[p]) = Append(left, x)
  <2>1. Sound(s, h \o <<e, f>>)
    BY <1>1, <1>2
  <2>2. ChainOf(h \o <<e, f>>) = Append(left, x)
    BY <1>1, <1>2, <1>3, <1>4, <2>1, ChainFollowed
  <2> QED  BY <1>2, <2>2
<1> HIDE DEF left, x
<1>7. ChainsOf(history)' = [ChainsOf(history) EXCEPT ![p] = Append(left, x)]
  BY <1>6, BeginsChain
<1>8. ChainsOf(history)[p] = ChainOf(h)
  BY DEF ChainsOf, h
<1>9. CASE was.status = "terminated"
  <2>1. ChainsOf(history)' = [ChainsOf(history) EXCEPT ![p] = Append(@, x)]
    BY <1>7, <1>8, <1>9 DEF left
  <2>2. FateOf(was) # "live"
    BY <1>4, <1>9, ArrivalFacts DEF FateOf
  <2>3. ~Chain!IsLive(p)
    BY <1>5, <1>8, <2>2 DEF Chain!IsLive, Chain!Last, Chain!Live, ChainsOf
  <2> QED  BY <2>1, <2>3 DEF Chain!Begin, Chain!Live, ChainsOf, x, s
<1>10. CASE was.status = "running"
  <2>1. FateOf(was) = "live"
    BY <1>10 DEF FateOf
  <2>2. Chain!IsLive(p) /\ s.id # Chain!Last(p).id
    BY <1>1, <1>5, <1>8, <2>1 DEF Chain!IsLive, Chain!Last, Chain!Live, ChainsOf
  <2>3. left = [ChainOf(h) EXCEPT ![Len(ChainOf(h))].fate = "reset"]
    BY <1>10 DEF left
  <2> QED  BY <1>7, <1>8, <2>2, <2>3 DEF Chain!Reset, Chain!Live, ChainsOf, x, s
<1> QED  BY <1>4, <1>9, <1>10 DEF s

LEMMA TerminateChain ==
    ASSUME Inv, NEW p \in Participants, NEW reason \in Reasons, Terminate(p, reason)
    PROVE  Chain!Terminate(p, reason)
<1> DEFINE s == results[p]
           h == history[p]
           e == Event(reason, s.id, s.number)
           done == [s EXCEPT !.status = "terminated", !.reason = reason]
<1>1. /\ s # None /\ s.status = "running"
      /\ history' = [history EXCEPT ![p] = Append(h, e)]
  BY TerminateStep
<1>2. Sound(s, h) /\ s \in States
  BY <1>1 DEF Inv, Sound
<1>3. Sound(done, Append(h, e))
  BY <1>2, TerminateSound
<1>4. e \in Events /\ e.number = s.number
  BY <1>2, ArrivalFacts, EventFacts DEF States
<1>5. done.number = s.number /\ done.id = s.id /\ FateOf(done) = reason
  BY <1>2 DEF States, FateOf
<1>6. ChainOf(h) # <<>> /\ ChainOf(h)[Len(ChainOf(h))] = [id |-> s.id, fate |-> FateOf(s)]
  BY <1>2, ChainForm
<1>7. history'[p] = Append(h, e) /\ \A q \in Participants \ {p} : history'[q] = history[q]
  BY <1>1 DEF Inv
<1> HIDE DEF e, s, h, done
<1>8. ChainOf(Append(h, e)) = [ChainOf(h) EXCEPT ![Len(ChainOf(h))].fate = reason]
  BY <1>2, <1>3, <1>4, <1>5, ChainEnded
<1>9. ChainsOf(history)[p] = ChainOf(h)
  BY DEF ChainsOf, h
<1>10. ChainsOf(history)' = [ChainsOf(history) EXCEPT ![p][Len(ChainsOf(history)[p])].fate = reason]
  BY <1>7, <1>8, <1>9 DEF ChainsOf
<1>11. Chain!IsLive(p)
  BY <1>1, <1>6, <1>9 DEF Chain!IsLive, Chain!Last, Chain!Live, ChainsOf, FateOf
<1> QED  BY <1>10, <1>11 DEF Chain!Terminate, ChainsOf

(***************************************************************************)
(* Every operation adds an episode at the end of a chain, writes the fate  *)
(* of the last one, or leaves all chains as they are.                      *)
(***************************************************************************)
THEOREM ImplementsChainCorrect == Spec => ImplementsChain
<1>1. Init => Chain!Init
  <2> SUFFICES ASSUME Init PROVE Chain!Init
    OBVIOUS
  <2>1. ChainOf(<<>>) = <<>>
    <3>1. Cardinality(Arrived(<<>>)) = 0
      BY EmptyHistory, FS_EmptySet
    <3>2. \A i \in 1 .. 0 : FALSE
      OBVIOUS
    <3> QED  BY <3>1, <3>2 DEF ChainOf
  <2>2. \A p \in Participants : history[p] = <<>>
    BY DEF Init
  <2> QED  BY <2>1, <2>2 DEF Chain!Init
<1>2. Inv /\ [Next]_vars => [Chain!Next]_(ChainsOf(history))
  <2> SUFFICES ASSUME Inv, [Next]_vars
               PROVE  Chain!Next \/ UNCHANGED ChainsOf(history)
    OBVIOUS
  <2>2. ASSUME NEW p \in Participants, NEW hint \in Hints \cup {None}, Initialize(p, hint)
        PROVE  Chain!Next \/ UNCHANGED ChainsOf(history)
    <3>1. history[p] = <<>> /\ (UNCHANGED <<results, history>> \/ Begins(p, 0, None, <<>>))
      BY <2>2, InitializeStep
    <3>2. CASE UNCHANGED <<results, history>>
      BY <3>2, ChainKept
    <3>3. CASE Begins(p, 0, None, <<>>)
      <4>1. results'[p].id \in Ids
        BY <3>3 DEF Begins, States
      <4>2. Chain!Begin(p, results'[p].id)
        BY <3>1, <3>3, FirstChain
      <4> QED  BY <4>1, <4>2 DEF Chain!Next
    <3> QED  BY <3>1, <3>2, <3>3
  <2>3. ASSUME NEW p \in Participants, NEW hint \in Hints \cup {None},
               Follow(p, hint, "reset", "running") \/ Follow(p, hint, "restart", "terminated")
        PROVE  Chain!Next \/ UNCHANGED ChainsOf(history)
    <3>1. /\ results[p] # None
          /\ \/ UNCHANGED <<results, history>>
             \/ Begins(p, results[p].number + 1, results[p].id, history[p])
      BY <2>3, FollowStep
    <3>2. CASE UNCHANGED <<results, history>>
      BY <3>2, ChainKept
    <3>3. CASE Begins(p, results[p].number + 1, results[p].id, history[p])
      <4>1. results'[p].id \in Ids
        BY <3>3 DEF Begins, States
      <4>2. Chain!Begin(p, results'[p].id) \/ Chain!Reset(p, results'[p].id)
        BY <3>1, <3>3, NextChain
      <4> QED  BY <4>1, <4>2 DEF Chain!Next
    <3> QED  BY <3>1, <3>2, <3>3
  <2>4. ASSUME NEW p \in Participants, NEW reason \in Reasons, Terminate(p, reason)
        PROVE  Chain!Next
    BY <2>4, TerminateChain DEF Chain!Next
  <2>5. ASSUME RestartProcess \/ UNCHANGED vars PROVE UNCHANGED ChainsOf(history)
    <3>1. UNCHANGED <<results, history>>
      BY <2>5 DEF RestartProcess, vars
    <3> QED  BY <3>1, ChainKept
  <2> QED  BY <2>2, <2>3, <2>4, <2>5 DEF Next
<1>3. Inv /\ [Next]_vars => [Chain!Next]_([p \in Participants |-> ChainOf(history[p])])
  BY <1>2 DEF ChainsOf
<1> QED  BY <1>1, <1>3, EpisodesSound, PTL DEF Spec, ImplementsChain, Chain!Spec
=============================================================================
