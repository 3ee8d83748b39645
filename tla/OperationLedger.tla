--------------------------- MODULE OperationLedger ---------------------------
(***************************************************************************)
(* What a client of the control plane may rely on, whatever happens to the *)
(* process: a ledger in which an idempotency key names one operation, an   *)
(* operation is accepted before anything is done for it, its outcome is    *)
(* written once, success is written only when the published snapshot has   *)
(* its effect, and effects are never taken back.                           *)
(*                                                                         *)
(* Nothing here says that an operation settles: the control plane keeps no *)
(* promise about an operation that was running when the process died.      *)
(***************************************************************************)
CONSTANTS Ops, Keys, NoKey, None

VARIABLES
    ledger,    \* per operation None, or its key and state
    effects    \* the operations whose effect the published snapshot has

vars == <<ledger, effects>>

Entries == [key : Keys \cup {NoKey},
            state : {"running", "succeeded", "failed"}]

Init ==
    /\ ledger = [o \in Ops |-> None]
    /\ effects = {}

Entered == {o \in Ops : ledger[o] # None}

\* Enter a new operation: running, or settled on the spot when the control
\* plane answers it without a backend.
Enter(o, e) ==
    /\ o \notin Entered
    /\ e.key = NoKey \/ \A p \in Entered : ledger[p].key # e.key
    /\ ledger' = [ledger EXCEPT ![o] = e]
    /\ UNCHANGED effects

\* Publish a snapshot: effects are only added, and only of entered operations.
Publish ==
    /\ effects' \in SUBSET Entered
    /\ effects \subseteq effects'
    /\ UNCHANGED ledger

Settle(o, state) ==
    /\ o \in Entered
    /\ ledger[o].state = "running"
    /\ state = "failed" \/ (state = "succeeded" /\ o \in effects)
    /\ ledger' = [ledger EXCEPT ![o].state = state]
    /\ UNCHANGED effects

Next ==
    \/ \E o \in Ops, e \in Entries : Enter(o, e)
    \/ Publish
    \/ \E o \in Ops, state \in {"succeeded", "failed"} : Settle(o, state)

Spec == Init /\ [][Next]_vars
=============================================================================
