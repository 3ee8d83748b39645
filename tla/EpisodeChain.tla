----------------------------- MODULE EpisodeChain -----------------------------
(***************************************************************************)
(* What ADR-013 asks of participant episodes: a participant has a chain of *)
(* episodes that only grows at its end, the last of which may be live, and *)
(* what became of an episode is written once.                              *)
(***************************************************************************)
EXTENDS Naturals, Sequences

CONSTANTS Participants, Ids, Reasons

VARIABLE chain    \* per participant, its episodes and their fates

Live == "live"
Episodes == [id : Ids, fate : {Live, "reset"} \cup Reasons]
Last(p) == chain[p][Len(chain[p])]
IsLive(p) == chain[p] # <<>> /\ Last(p).fate = Live

Init == chain = [p \in Participants |-> <<>>]

Begin(p, id) ==
    /\ ~IsLive(p)
    /\ chain' = [chain EXCEPT ![p] = Append(@, [id |-> id, fate |-> Live])]

Reset(p, id) ==
    /\ IsLive(p) /\ id # Last(p).id
    /\ LET left == [chain[p] EXCEPT ![Len(chain[p])].fate = "reset"] IN
       chain' = [chain EXCEPT ![p] = Append(left, [id |-> id, fate |-> Live])]

Terminate(p, reason) ==
    /\ IsLive(p)
    /\ chain' = [chain EXCEPT ![p][Len(chain[p])].fate = reason]

Next ==
    \E p \in Participants :
        \/ \E id \in Ids : Begin(p, id) \/ Reset(p, id)
        \/ \E reason \in Reasons : Terminate(p, reason)

Spec == Init /\ [][Next]_chain
=============================================================================
