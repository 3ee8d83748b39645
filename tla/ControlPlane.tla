---------------------------- MODULE ControlPlane ----------------------------
(***************************************************************************)
(* The reference control plane: RuntimeControlPlane                        *)
(* (aces_processor/control_plane.py) over the file store                   *)
(* LocalControlPlaneStore (aces_processor/control_plane_store.py).         *)
(*                                                                         *)
(* Handlers run one at a time: the HTTP routes are coroutines that call    *)
(* the synchronous methods without an await in between.  What interleaves  *)
(* with a handler is the death of the process and a store write that       *)
(* raises, so a handler is cut into steps at its durable writes and at the *)
(* backend call:                                                           *)
(*                                                                         *)
(*   admit  - about to persist the RUNNING record                          *)
(*   call   - about to call the backend                                    *)
(*   save   - the new snapshot is in memory, about to write snapshot.json  *)
(*   settle - about to persist the final record and return the receipt     *)
(*                                                                         *)
(* Abstracted: a snapshot is the set of operations whose backend result it *)
(* descends from, and the status of one workflow run; timestamps, domains, *)
(* diagnostics and changed addresses are dropped from receipts and         *)
(* records.  Workflow results and participant episodes have modules of     *)
(* their own.                                                              *)
(***************************************************************************)
EXTENDS Naturals, FiniteSets

CONSTANTS
    Ops,          \* operation ids, fresh uuids in the code
    Keys,         \* non-empty Idempotency-Key values
    Prints,       \* non-empty request fingerprints
    NoKey,        \* the empty idempotency key
    NoPrint,      \* the empty fingerprint of in-process callers
    None,         \* no operation, no record, no base snapshot
    Services,     \* the domains for which the target has a component
    CallerBases,  \* whether callers pass a base_snapshot they read earlier
    Crashes,      \* whether the process may die
    StoreFaults,  \* whether a store write may raise with the process alive
    TornWrites    \* whether an interrupted write_text leaves an unreadable file

BackendKinds == {"provisioning", "orchestration", "evaluation", "participant"}
Kinds == BackendKinds \cup {"cancel", "reconcile"}

VARIABLES
    up,       \* the process is running
    memory,   \* _snapshot and _operations of the running object
    disk,     \* snapshot.json, operations.json and which of them are damaged
    handler,  \* the request being handled
    held,     \* a snapshot some caller read and may pass as base_snapshot
    ran,      \* history: the operations whose backend method was called
    rebased,  \* history: whether a caller's base_snapshot was ever used
    receipts, \* history: the receipts returned for a non-empty key
    stops     \* history: per key, how often it durably ended a workflow run

history == <<ran, rebased, receipts, stops>>
vars == <<up, memory, disk, handler, held, history>>
-----------------------------------------------------------------------------
RunStates == {"absent", "running", "ended"}
Snapshots == [applied : SUBSET Ops, run : RunStates]
\* Mutated form: the initial snapshot is not filled in.
UnsetSnapshot == [applied |-> {}, run |-> None]
EmptySnapshot == [applied |-> {}, run |-> "absent"]

OperationStates == {"running", "succeeded", "failed"}
Records == [state : OperationStates, accepted : BOOLEAN,
            key : Keys \cup {NoKey}, print : Prints \cup {NoPrint}]
RecordMaps == [Ops -> Records \cup {None}]
NoRecords == [o \in Ops |-> None]

ASSUME ConstantsOK ==
    /\ NoKey \notin Keys
    /\ NoPrint \notin Prints
    /\ None \notin Ops \cup Records \cup Snapshots
    /\ "provisioning" \in Services
    /\ {CallerBases, Crashes, StoreFaults, TornWrites} \subseteq BOOLEAN

Requests == [kind : Kinds, key : Keys \cup {NoKey},
             print : Prints \cup {NoPrint}, base : Snapshots \cup {None}]

Files == {"snapshot.json", "operations.json"}
Idle == [stage |-> "idle", op |-> None, kind |-> None, base |-> None,
         record |-> None]
Busy == [stage : {"admit", "call", "save", "settle"}, op : Ops, kind : Kinds,
         base : Snapshots \cup {None}, record : Records]

(***************************************************************************)
(* Everything has its type.                                                *)
(***************************************************************************)
TypeOK ==
    /\ up \in BOOLEAN
    /\ memory \in [snapshot : Snapshots, operations : RecordMaps]
    /\ disk \in [snapshot : Snapshots, operations : RecordMaps,
                 damaged : SUBSET Files]
    /\ handler \in Busy \cup {Idle}
    /\ held \in Snapshots
    /\ ran \subseteq Ops
    /\ rebased \in BOOLEAN
    /\ receipts \subseteq [key : Keys, op : Ops]
    /\ stops \in [Keys -> Nat]

Init ==
    /\ up = TRUE
    /\ memory = [snapshot |-> EmptySnapshot, operations |-> NoRecords]
    /\ disk = [snapshot |-> EmptySnapshot, operations |-> NoRecords,
               damaged |-> {}]
    /\ handler = Idle
    /\ held = EmptySnapshot
    /\ ran = {} /\ rebased = FALSE /\ receipts = {}
    /\ stops = [k \in Keys |-> 0]
-----------------------------------------------------------------------------
(* Looking up an idempotency key, in the store and not in memory.          *)

\* Mutated form: operations still running do not count as holders.
SettledHolders(k) ==
    {o \in Ops : /\ disk.operations[o] # None
                 /\ disk.operations[o].key = k
                 /\ disk.operations[o].state # "running"}

Holders(k) ==
    {o \in Ops : disk.operations[o] # None /\ disk.operations[o].key = k}

SameRequest(rec, print) ==
    NoPrint \in {rec.print, print} \/ rec.print = print

\* find_by_idempotency answers with one record of the key; which one depends
\* on the store when there are several.
Replay(r) ==
    /\ r.key # NoKey
    /\ \E o \in Holders(r.key) :
        /\ SameRequest(disk.operations[o], r.print)
        /\ memory' = [memory EXCEPT !.operations[o] = disk.operations[o]]
        /\ receipts' = receipts \cup {[key |-> r.key, op |-> o]}
    /\ UNCHANGED <<up, disk, handler, held, ran, rebased, stops>>

\* Mutated form: the lookup is forgotten.
KeyIgnored(r) == r \in Requests
KeyIsFree(r) == r.key = NoKey \/ Holders(r.key) = {}

\* Any use of operations.json parses the file first.
Readable(file) == file \notin disk.damaged

\* Mutated form: ids are not fresh.
AnyOps == Ops
FreshOps == {o \in Ops \ ran : /\ memory.operations[o] = None
                               /\ disk.operations[o] = None}

Record(r, state, accepted) ==
    [state |-> state, accepted |-> accepted, key |-> r.key, print |-> r.print]

Handle(r, stage, o, rec) ==
    handler' = [stage |-> stage, op |-> o, kind |-> r.kind, base |-> r.base,
                record |-> rec]
-----------------------------------------------------------------------------
(* One action per submission method.                                       *)

\* submit_provisioning, submit_orchestration, submit_evaluation and the four
\* participant methods with their component present: _execute_operation and
\* _execute_participant_action up to the RUNNING record.  A participant
\* method has no base_snapshot parameter.
Execute(r) ==
    /\ r.kind \in Services
    /\ r.kind = "participant" => r.base = None
    /\ \/ Replay(r)
       \/ /\ KeyIsFree(r)
          /\ \E o \in FreshOps :
                LET rec == Record(r, "running", TRUE) IN
                /\ Handle(r, "admit", o, rec)
                /\ memory' = [memory EXCEPT !.operations[o] = rec]
          /\ UNCHANGED <<up, disk, held, history>>

\* A missing component is rejected before the key is looked up; the
\* orchestration and evaluation methods do not even record the key.
RejectMissing(r) ==
    /\ r.kind \in BackendKinds \ Services
    /\ r.base = None
    /\ \E o \in FreshOps :
        LET kept == IF r.kind = "participant" THEN r
                    ELSE [r EXCEPT !.key = NoKey, !.print = NoPrint]
        IN  Handle(kept, "settle", o, Record(kept, "failed", FALSE))
    /\ UNCHANGED <<up, memory, disk, held, history>>

\* Ending the run is visible in memory before anything is written.
EndRun ==
    /\ memory' = [memory EXCEPT !.snapshot.run = "ended"]
    /\ UNCHANGED <<up, disk, held, history>>

\* cancel_workflow: unknown run or other run_id, already ended, or running.
Cancel(r) ==
    /\ r.kind = "cancel" /\ r.base = None
    /\ \/ Replay(r)
       \/ /\ KeyIsFree(r)
          /\ \E o \in FreshOps :
              \/ /\ Handle(r, "settle", o, Record(r, "failed", FALSE))
                 /\ UNCHANGED <<up, memory, disk, held, history>>
              \/ /\ memory.snapshot.run = "ended"
                 /\ Handle(r, "settle", o, Record(r, "succeeded", TRUE))
                 /\ UNCHANGED <<up, memory, disk, held, history>>
              \/ /\ memory.snapshot.run = "running"
                 /\ Handle(r, "save", o, Record(r, "succeeded", TRUE))
                 /\ EndRun

\* reconcile_workflow_timeouts: the deadline has passed or not; the snapshot
\* is saved in both cases.
Reconcile(r) ==
    /\ r.kind = "reconcile" /\ r.base = None
    /\ \/ Replay(r)
       \/ /\ KeyIsFree(r)
          /\ \E o \in FreshOps :
                Handle(r, "save", o, Record(r, "succeeded", TRUE))
          /\ \/ memory.snapshot.run = "running" /\ EndRun
             \/ UNCHANGED <<up, memory, disk, held, history>>

Submit ==
    /\ up /\ handler = Idle
    /\ \E r \in [kind : Kinds, key : Keys \cup {NoKey},
                 print : Prints \cup {NoPrint},
                 base : IF CallerBases THEN {None, held} ELSE {None}] :
        /\ r.key # NoKey => Readable("operations.json")
        /\ Execute(r) \/ RejectMissing(r) \/ Cancel(r) \/ Reconcile(r)

\* A caller of get_snapshot keeps what it read.
ReadSnapshot ==
    /\ CallerBases /\ up /\ held # memory.snapshot
    /\ held' = memory.snapshot
    /\ UNCHANGED <<up, memory, disk, handler, history>>
-----------------------------------------------------------------------------
(* The rest of the handler.                                                *)

Advance(stage) == handler' = [handler EXCEPT !.stage = stage]

\* Mutated form: the RUNNING record is kept in memory only.
KeepRunning ==
    /\ up /\ handler.stage = "admit"
    /\ Advance("call")
    /\ UNCHANGED <<up, memory, disk, held, history>>

PersistRunning ==
    /\ up /\ handler.stage = "admit"
    /\ Readable("operations.json")
    /\ disk' = [disk EXCEPT !.operations[handler.op] = handler.record]
    /\ Advance("call")
    /\ UNCHANGED <<up, memory, held, history>>

\* What a backend method may leave behind, through _call_backend_apply: an
\* exception or an invalid result becomes a failure with the input snapshot,
\* a reported failure keeps the partial snapshot.
BackendResults(kind, input, o) ==
    LET runs == IF kind = "orchestration" THEN {input.run, "running", "ended"}
                ELSE {input.run}
        changed == [applied : {input.applied \cup {o}}, run : runs]
    IN  [snapshot : changed, state : {"succeeded", "failed"}]
            \cup [snapshot : {input}, state : {"failed"}]

CallBackend ==
    /\ up /\ handler.stage = "call"
    /\ LET input == IF handler.base = None THEN memory.snapshot
                    ELSE handler.base IN
       \E result \in BackendResults(handler.kind, input, handler.op) :
        /\ memory' = [memory EXCEPT !.snapshot = result.snapshot]
        /\ handler' = [handler EXCEPT !.stage = "save",
                                      !.record.state = result.state]
    /\ ran' = ran \cup {handler.op}
    /\ rebased' = (rebased \/ handler.base # None)
    /\ UNCHANGED <<up, disk, held, receipts, stops>>

\* Mutated form: the snapshot is not saved.
KeepSnapshot ==
    /\ up /\ handler.stage = "save"
    /\ Advance("settle")
    /\ UNCHANGED <<up, memory, disk, held, history>>

SaveSnapshot ==
    /\ up /\ handler.stage = "save"
    /\ disk' = [disk EXCEPT !.snapshot = memory.snapshot,
                            !.damaged = @ \ {"snapshot.json"}]
    /\ Advance("settle")
    /\ LET k == handler.record.key
           stopped == /\ handler.kind \in {"cancel", "reconcile"}
                      /\ disk.snapshot.run # memory.snapshot.run
       IN  stops' = IF k \in Keys /\ stopped
                    THEN [stops EXCEPT ![k] = @ + 1] ELSE stops
    /\ UNCHANGED <<up, memory, held, ran, rebased, receipts>>

\* Mutated form: the final record is kept in memory only.
SettleInMemory ==
    /\ up /\ handler.stage = "settle"
    /\ memory' = [memory EXCEPT !.operations[handler.op] = handler.record]
    /\ receipts' = IF handler.record.key = NoKey THEN receipts
                   ELSE receipts \cup {[key |-> handler.record.key,
                                        op |-> handler.op]}
    /\ handler' = Idle
    /\ UNCHANGED <<up, disk, held, ran, rebased, stops>>

Settle ==
    /\ up /\ handler.stage = "settle"
    /\ Readable("operations.json")
    /\ memory' = [memory EXCEPT !.operations[handler.op] = handler.record]
    /\ disk' = [disk EXCEPT !.operations[handler.op] = handler.record]
    /\ receipts' = IF handler.record.key = NoKey THEN receipts
                   ELSE receipts \cup {[key |-> handler.record.key,
                                        op |-> handler.op]}
    /\ handler' = Idle
    /\ UNCHANGED <<up, held, ran, rebased, stops>>
-----------------------------------------------------------------------------
(* What can go wrong in the middle.                                        *)

\* The file the handler is about to write, if any.
NextFile ==
    CASE handler.stage \in {"admit", "settle"} -> {"operations.json"}
      [] handler.stage = "save" -> {"snapshot.json"}
      [] OTHER -> {}

\* write_text truncates the file before it writes the new text.
Torn == {{}} \cup (IF TornWrites THEN {NextFile} ELSE {})

\* The backend may have been called, and its result is then lost.
Crash ==
    /\ Crashes /\ up
    /\ \E torn \in Torn : disk' = [disk EXCEPT !.damaged = @ \cup torn]
    /\ up' = FALSE
    /\ memory' = [snapshot |-> EmptySnapshot, operations |-> NoRecords]
    /\ handler' = Idle
    /\ ran' \in {ran} \cup (IF handler.stage = "call"
                           THEN {ran \cup {handler.op}} ELSE {})
    /\ UNCHANGED <<held, rebased, receipts, stops>>

\* A new RuntimeControlPlane over the same directory; loading a damaged file
\* raises, so there is no object.
\* Mutated form: the records are not loaded.
RestartEmpty ==
    /\ ~up /\ disk.damaged = {}
    /\ up' = TRUE
    /\ memory' = [snapshot |-> disk.snapshot, operations |-> NoRecords]
    /\ UNCHANGED <<disk, handler, held, history>>

Restart ==
    /\ ~up /\ disk.damaged = {}
    /\ up' = TRUE
    /\ memory' = [snapshot |-> disk.snapshot, operations |-> disk.operations]
    /\ UNCHANGED <<disk, handler, held, history>>

\* A write raises: the exception leaves the handler, memory keeps what
\* _persist_record put there before the write.
StoreRaises ==
    /\ up /\ NextFile # {}
    /\ \/ /\ StoreFaults
          /\ \E torn \in Torn : disk' = [disk EXCEPT !.damaged = @ \cup torn]
       \/ /\ "operations.json" \in NextFile \cap disk.damaged
          /\ disk' = disk
    /\ memory' = IF handler.stage = "save" THEN memory
                 ELSE [memory EXCEPT !.operations[handler.op] = handler.record]
    /\ handler' = Idle
    /\ UNCHANGED <<up, held, history>>
-----------------------------------------------------------------------------
\* Mutated form: the handler ends after saving the snapshot.
ProgressToSave == PersistRunning \/ CallBackend \/ SaveSnapshot
Progress == PersistRunning \/ CallBackend \/ SaveSnapshot \/ Settle

Next == Submit \/ ReadSnapshot \/ Progress \/ Crash \/ Restart \/ StoreRaises

Spec == Init /\ [][Next]_vars

-----------------------------------------------------------------------------
(* Safety.                                                                 *)

Recorded == {o \in Ops : disk.operations[o] # None}

(***************************************************************************)
(* Write-ahead: nothing was asked of the backend, and no snapshot in       *)
(* memory or on disk contains a result, without a record on disk, whatever *)
(* dies or raises in between (_execute_operation persists the RUNNING      *)
(* record before the backend call).                                        *)
(***************************************************************************)
WriteAhead ==
    ran \cup memory.snapshot.applied \cup disk.snapshot.applied \subseteq Recorded

(***************************************************************************)
(* Retries: of the operations recorded under one idempotency key at most   *)
(* one ever reached the backend, across crashes, restarts and failed       *)
(* writes (_idempotent_receipt before, and the record ahead of, the call). *)
(***************************************************************************)
ExecutedOncePerKey ==
    \A o, p \in ran :
        /\ o # p
        /\ {o, p} \subseteq Recorded
        /\ disk.operations[o].key = disk.operations[p].key
        => disk.operations[o].key = NoKey

(***************************************************************************)
(* A client that repeats a request under its key is always told the same   *)
(* operation.  Holds when every participant request reaches the lookup,    *)
(* that is when the target has a participant runtime.                      *)
(***************************************************************************)
ReceiptsAgree ==
    \A a, b \in receipts : a.key = b.key => a.op = b.op

(***************************************************************************)
(* A returned receipt names an operation that is on disk under that key,   *)
(* so it can be queried after any restart.                                 *)
(***************************************************************************)
ReceiptsAreDurable ==
    \A rc \in receipts :
        rc.op \in Recorded /\ disk.operations[rc.op].key = rc.key

(***************************************************************************)
(* A record that says a backend operation succeeded implies that the saved *)
(* snapshot has its result: save_snapshot comes before the final record,   *)
(* and no later save may lose it unless a caller forced an old             *)
(* base_snapshot.                                                          *)
(***************************************************************************)
SucceededIsDurable ==
    ~rebased /\ Readable("snapshot.json") =>
        \A o \in ran : disk.operations[o].state = "succeeded"
                            => o \in disk.snapshot.applied

(***************************************************************************)
(* Between handlers the running object shows what a restarted one would:   *)
(* readers of get_operation and get_snapshot, which look at memory only,   *)
(* cannot tell.  A store write that raised breaks this (StoreFaults).      *)
(***************************************************************************)
MemoryMirrorsDisk ==
    up /\ handler = Idle /\ ~StoreFaults =>
        /\ memory.snapshot = disk.snapshot
        /\ memory.operations = disk.operations

(***************************************************************************)
(* One key ends a running workflow at most once, so that a late retry of   *)
(* cancel or reconcile does not hit a run started since.                   *)
(***************************************************************************)
StopsOncePerKey == \A k \in Keys : stops[k] <= 1

(***************************************************************************)
(* A record on disk changes once, from running to final, by its own        *)
(* handler, and keeps the request it answers.  So nobody, no retry and no  *)
(* restart, settles an operation whose handler died.                       *)
(***************************************************************************)
RecordsOnlySettle ==
    [][\A o \in Recorded :
        \/ disk'.operations[o] = disk.operations[o]
        \/ /\ handler.op = o
           /\ disk.operations[o].state = "running"
           /\ disk'.operations[o].state # "running"
           /\ disk'.operations[o] =
                [disk.operations[o] EXCEPT !.state = disk'.operations[o].state]
      ]_disk
-----------------------------------------------------------------------------
(* Refinement.                                                             *)

LedgerEntry(rec) ==
    IF rec = None THEN None ELSE [key |-> rec.key, state |-> rec.state]

Ledger == INSTANCE OperationLedger
    WITH ledger <- [o \in Ops |-> LedgerEntry(disk.operations[o])],
         effects <- disk.snapshot.applied

ASSUME NoneIsNoEntry == None \notin Ledger!Entries

(***************************************************************************)
(* The files on disk implement the ledger when no caller passes a          *)
(* base_snapshot (the HTTP routes never do) and the target has a           *)
(* participant runtime.                                                    *)
(***************************************************************************)
ImplementsLedger == Ledger!Spec
-----------------------------------------------------------------------------
(* Liveness.                                                               *)

\* A handler that was started runs on: it is straight-line synchronous code.
FairSpec == Spec /\ WF_vars(Progress)

Unsettled(o) == o \in Recorded /\ disk.operations[o].state = "running"

(***************************************************************************)
(* An operation recorded RUNNING is settled, unless its handler is cut off *)
(* by the death of the process or by a store write that raises.            *)
(***************************************************************************)
OperationsSettle ==
    \A o \in Ops :
        (up /\ handler.op = o /\ Unsettled(o))
            ~> (~Unsettled(o) \/ ~up \/ (StoreFaults /\ handler.op # o))
=============================================================================
