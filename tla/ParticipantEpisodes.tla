------------------------- MODULE ParticipantEpisodes -------------------------
(***************************************************************************)
(* Participant episodes: the lifecycle operations of the reference backend *)
(* (StubParticipantRuntime, aces_backend_stubs/stubs.py) under the         *)
(* contract every returned snapshot has to meet                            *)
(* (iter_participant_episode_snapshot_violations and the constructors of   *)
(* aces_processor/models.py), called one at a time by                      *)
(* _execute_participant_action (aces_processor/control_plane.py).          *)
(*                                                                         *)
(* The published results and histories survive a restart, the counter the  *)
(* backend allocates ids from does not.  An operation that a crash cuts    *)
(* off leaves nothing behind: its effects are in memory until the snapshot *)
(* is saved (ControlPlane has the steps).  Abstracted: timestamps, reasons *)
(* given by operators, and the address prefix of an allocated id.          *)
(***************************************************************************)
EXTENDS Integers, Sequences, FiniteSets, FiniteSetsExt, SequencesExt

CONSTANTS
    Participants,
    Reasons,      \* terminal reasons
    Hints,        \* the episode ids callers propose, numbered as if allocated
    None,         \* no result, no hint, no previous episode
    MaxId,        \* bound: the last id the backend allocates
    MaxNumber,    \* bound: the last sequence number
    Restarts      \* whether the process, and with it the backend, may restart

Ids == 1 .. MaxId

ASSUME ConstantsOK ==
    /\ Reasons \subseteq {"completed", "timed_out", "truncated", "interrupted"}
    /\ MaxId \in Nat /\ MaxNumber \in Nat
    /\ Hints \subseteq Ids /\ None \notin Ids
    /\ Restarts \in BOOLEAN

VARIABLES
    counter,    \* _episode_counter of the backend object
    results,    \* participant_episode_results: the current episode
    history,    \* participant_episode_history
    turnedDown  \* history: whether the contract ever turned a result down

vars == <<counter, results, history, turnedDown>>

Actions == {"initialize", "reset", "restart"}
\* Mutated form: the event is called like the action.
ActionName == [a \in Actions |-> a]
Arrival == [initialize |-> "episode_initialized", reset |-> "episode_reset",
            restart |-> "episode_restarted"]
Arrivals == {Arrival[a] : a \in Actions}

\* A terminal event's type and terminal reason name each other.
EventTypes == {"episode_initialized", "episode_reset", "episode_restarted",
               "episode_running"} \cup Reasons
Events == [type : EventTypes, id : Ids, number : 0 .. MaxNumber]
Event(type, id, number) == [type |-> type, id |-> id, number |-> number]

States == [id : Ids, number : 0 .. MaxNumber, status : {"running", "terminated"},
           reason : Reasons \cup {None}, action : Actions,
           previous : Ids \cup {None}]

ASSUME NoneIsNothing == None \notin Reasons /\ None \notin States

(***************************************************************************)
(* Everything has its type.                                                *)
(***************************************************************************)
TypeOK ==
    /\ counter \in [Participants -> 0 .. MaxId]
    /\ results \in [Participants -> States \cup {None}]
    /\ \A p \in Participants : ToSet(history[p]) \subseteq Events
    /\ turnedDown \in BOOLEAN
-----------------------------------------------------------------------------
(* The contract.                                                           *)

\* ParticipantEpisodeExecutionState.__post_init__ accepts the state.
Constructible(s) ==
    /\ (s.status = "terminated") = (s.reason # None)
    /\ (s.number = 0) = (s.action = "initialize")
    /\ (s.number = 0) = (s.previous = None)
    /\ s.previous # s.id

\* A larger sequence number arrives by reset or restart; one sequence number
\* is one episode.
HistoryOK(h) ==
    /\ \A i \in DOMAIN h : /\ h[i].type = "episode_initialized" => h[i].number = 0
                           /\ h[i].type \in {"episode_reset", "episode_restarted"}
                                => h[i].number > 0
    /\ \A i \in 2 .. Len(h) :
        /\ h[i - 1].number <= h[i].number
        /\ h[i - 1].number < h[i].number
            => h[i].type \in {"episode_reset", "episode_restarted"}
        /\ h[i - 1].number = h[i].number => h[i - 1].id = h[i].id

\* The current episode is the one the history ends with.
HeadOK(s, h) ==
    h # <<>> =>
        LET head == h[Len(h)] IN
        /\ head.id = s.id /\ head.number = s.number
        /\ IF s.status = "terminated" THEN head.type = s.reason
           ELSE head.type \notin Reasons

ContractHolds(rs, hs) ==
    \A p \in Participants :
        /\ HistoryOK(hs[p])
        /\ rs[p] # None => Constructible(rs[p]) /\ HeadOK(rs[p], hs[p])
-----------------------------------------------------------------------------
Init ==
    /\ counter = [p \in Participants |-> 0]
    /\ results = [p \in Participants |-> None]
    /\ history = [p \in Participants |-> <<>>]
    /\ turnedDown = FALSE

\* _call_backend_apply: the snapshot is taken if it meets the contract.
Apply(p, state, newHistory) ==
    LET rs == [results EXCEPT ![p] = state]
        hs == [history EXCEPT ![p] = newHistory]
    IN  IF ContractHolds(rs, hs)
        THEN results' = rs /\ history' = hs /\ UNCHANGED turnedDown
        ELSE turnedDown' = TRUE /\ UNCHANGED <<results, history>>

\* A new episode under the id proposed, or else the next id of the counter,
\* which moves even if the state cannot be constructed afterwards.
NewEpisode(p, hint, action, number, previous, kept) ==
    LET id == IF hint = None THEN counter[p] + 1 ELSE hint
        state == [id |-> id, number |-> number, status |-> "running",
                  reason |-> None, action |-> action, previous |-> previous]
        events == <<Event(Arrival[action], id, number),
                    Event("episode_running", id, number)>>
    IN  /\ id \in Ids
        /\ counter' = IF hint = None THEN [counter EXCEPT ![p] = id] ELSE counter
        /\ IF Constructible(state) THEN Apply(p, state, kept \o events)
           ELSE UNCHANGED <<results, history, turnedDown>>

\* A request the backend's own rules refuse changes nothing.
Initialize(p, hint) ==
    /\ results[p] = None
    /\ NewEpisode(p, hint, "initialize", 0, None, <<>>)

\* Mutated form: the link to the episode before is copied.
StaleLink(p, hint, action, status) ==
    /\ results[p] # None
    /\ results[p].status = status
    /\ results[p].number < MaxNumber
    /\ NewEpisode(p, hint, action, results[p].number + 1,
                  IF results[p].number = 0 THEN results[p].id ELSE results[p].previous,
                  history[p])

\* Mutated form: the first follower's number is used again.
SameNumber(p, hint, action, status) ==
    /\ results[p] # None
    /\ results[p].status = status
    /\ NewEpisode(p, hint, action, 1, results[p].id, history[p])

\* reset of a running and restart of a terminated episode.
Follow(p, hint, action, status) ==
    /\ results[p] # None
    /\ results[p].status = status
    /\ results[p].number < MaxNumber
    /\ NewEpisode(p, hint, action, results[p].number + 1, results[p].id, history[p])

\* Mutated form: a terminated episode can be terminated again.
TerminateAgain(p, reason) ==
    /\ results[p] # None
    /\ Apply(p, [results[p] EXCEPT !.status = "terminated", !.reason = reason],
             Append(history[p], Event(reason, results[p].id, results[p].number)))
    /\ UNCHANGED counter

Terminate(p, reason) ==
    /\ results[p] # None
    /\ results[p].status = "running"
    /\ Apply(p, [results[p] EXCEPT !.status = "terminated", !.reason = reason],
             Append(history[p], Event(reason, results[p].id, results[p].number)))
    /\ UNCHANGED counter

\* A new process loads the snapshot and constructs a new backend object.
RestartProcess ==
    /\ Restarts
    /\ counter' = [p \in Participants |-> 0]
    /\ UNCHANGED <<results, history, turnedDown>>

Next ==
    \/ \E p \in Participants :
        \/ \E hint \in Hints \cup {None} :
            \/ Initialize(p, hint)
            \/ Follow(p, hint, "reset", "running")
            \/ Follow(p, hint, "restart", "terminated")
        \/ \E reason \in Reasons : Terminate(p, reason)
    \/ RestartProcess

Spec == Init /\ [][Next]_vars
-----------------------------------------------------------------------------
(* Properties.                                                             *)

(***************************************************************************)
(* The reference backend never has a result turned down by the contract,   *)
(* whatever the episodes of this and the other participants have been      *)
(* through: only its own rules refuse a request.                           *)
(***************************************************************************)
ContractNeverRefuses == ~turnedDown

\* Where a history has an episode arrive.
Arrived(h) == {i \in DOMAIN h : h[i].type \in Arrivals}

(***************************************************************************)
(* Replay: the history alone gives the current episode, its place in the   *)
(* chain, how it was entered and which one it follows.                     *)
(***************************************************************************)
HistoryTellsState ==
    \A p \in Participants :
        LET h == history[p]
            arrived == Arrived(h)
            at == Max(arrived)
            last == h[Len(h)].type
        IN  IF arrived = {} THEN results[p] = None
            ELSE results[p] =
                [id |-> h[at].id, number |-> Cardinality(arrived) - 1,
                 status |-> IF last \in Reasons THEN "terminated" ELSE "running",
                 reason |-> IF last \in Reasons THEN last ELSE None,
                 action |-> CHOOSE a \in Actions : Arrival[a] = h[at].type,
                 previous |-> IF arrived = {at} THEN None
                              ELSE h[Max(arrived \ {at})].id]

\* The i-th event is the last of the episode with the number n.
Closes(h, i, n) ==
    /\ h[i].number = n
    /\ i < Len(h) => h[i + 1].number # n

\* That episode and its fate, as its last event tells them.
Told(h, n) ==
    LET last == h[CHOOSE i \in DOMAIN h : Closes(h, i, n)] IN
    [id |-> last.id,
     fate |-> IF last.type \in Reasons THEN last.type
              ELSE IF n = h[Len(h)].number THEN "live" ELSE "reset"]

ChainOf(h) == [i \in 1 .. Cardinality(Arrived(h)) |-> Told(h, i - 1)]

Chain == INSTANCE EpisodeChain
    WITH chain <- [p \in Participants |-> ChainOf(history[p])]

(***************************************************************************)
(* Resets and restarts only ever add an episode at the end of the chain;   *)
(* no operation and no restart of the process rewrites an earlier one.     *)
(***************************************************************************)
ImplementsChain == Chain!Spec
=============================================================================
