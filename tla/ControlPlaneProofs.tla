-------------------------- MODULE ControlPlaneProofs --------------------------
(***************************************************************************)
(* Theorems about ControlPlane, for every set of operation ids, keys and   *)
(* fingerprints, every set of services, and any mix of crashes, raising    *)
(* writes and torn writes.                                                 *)
(***************************************************************************)
EXTENDS ControlPlane, TLAPS

USE ConstantsOK

LEMMA IdleNotBusy == Idle \notin Busy
  BY DEF Idle, Busy

LEMMA RecordIsRecord ==
    ASSUME NEW r \in Requests, NEW st \in OperationStates, NEW acc \in BOOLEAN
    PROVE  Record(r, st, acc) \in Records
  BY DEF Record, Records, Requests

(***************************************************************************)
(* The type invariant.                                                     *)
(***************************************************************************)
LEMMA TypeInit == Init => TypeOK
  <1> SUFFICES ASSUME Init PROVE TypeOK
    OBVIOUS
  <1>1. EmptySnapshot \in Snapshots /\ NoRecords \in RecordMaps
    BY DEF EmptySnapshot, Snapshots, RunStates, NoRecords, RecordMaps
  <1>2. /\ memory \in [snapshot : Snapshots, operations : RecordMaps]
        /\ disk \in [snapshot : Snapshots, operations : RecordMaps,
                     damaged : SUBSET Files]
    BY <1>1 DEF Init
  <1>3. stops \in [Keys -> Nat]
    BY DEF Init
  <1>4. QED
    BY <1>1, <1>2, <1>3 DEF Init, TypeOK

LEMMA TypeSubmit == TypeOK /\ Submit => TypeOK'
  <1> SUFFICES ASSUME TypeOK, Submit PROVE TypeOK'
    OBVIOUS
  <1>1. PICK r \in Requests : Execute(r) \/ RejectMissing(r) \/ Cancel(r) \/ Reconcile(r)
    BY DEF Submit, Requests, TypeOK
  <1>2. ASSUME Replay(r) PROVE TypeOK'
    BY <1>1, <1>2 DEF Replay, Holders, TypeOK, RecordMaps, Requests
  <1>3. CASE Execute(r)
    <2>1. ASSUME NEW o \in FreshOps,
                 Handle(r, "admit", o, Record(r, "running", TRUE)),
                 memory' = [memory EXCEPT !.operations[o] = Record(r, "running", TRUE)],
                 UNCHANGED <<up, disk, held, history>>
          PROVE  TypeOK'
      <3>1. Record(r, "running", TRUE) \in Records
        BY RecordIsRecord DEF OperationStates
      <3>2. handler' \in Busy
        BY <2>1, <3>1 DEF Handle, Busy, FreshOps, Requests
      <3>3. memory' \in [snapshot : Snapshots, operations : RecordMaps]
        BY <2>1, <3>1 DEF TypeOK, RecordMaps, FreshOps
      <3>4. QED
        BY <2>1, <3>2, <3>3 DEF TypeOK, history
    <2>2. QED
      BY <1>2, <1>3, <2>1 DEF Execute
  <1>4. CASE RejectMissing(r)
    <2>1. PICK kept \in Requests, o \in FreshOps :
             Handle(kept, "settle", o, Record(kept, "failed", FALSE))
      BY <1>4 DEF RejectMissing, Requests
    <2>2. handler' \in Busy
      BY <2>1, RecordIsRecord DEF Handle, Busy, FreshOps, Requests, OperationStates
    <2>3. QED
      BY <1>4, <2>2 DEF RejectMissing, TypeOK, history
  <1>5. ASSUME NEW stage \in {"save", "settle"}, NEW o \in FreshOps,
               NEW st \in OperationStates, NEW acc \in BOOLEAN,
               Handle(r, stage, o, Record(r, st, acc)),
               EndRun \/ UNCHANGED <<up, memory, disk, held, history>>
        PROVE  TypeOK'
    <2>1. handler' \in Busy
      BY <1>5, RecordIsRecord DEF Handle, Busy, FreshOps, Requests
    <2>2. memory' \in [snapshot : Snapshots, operations : RecordMaps]
      BY <1>5 DEF EndRun, TypeOK, Snapshots, RunStates
    <2>3. QED
      BY <1>5, <2>1, <2>2 DEF EndRun, TypeOK, history
  <1>6. CASE Cancel(r)
    BY <1>2, <1>5, <1>6 DEF Cancel, OperationStates
  <1>7. CASE Reconcile(r)
    BY <1>2, <1>5, <1>7 DEF Reconcile, OperationStates
  <1>8. QED
    BY <1>1, <1>3, <1>4, <1>6, <1>7

LEMMA TypeNext == TypeOK /\ [Next]_vars => TypeOK'
  <1> SUFFICES ASSUME TypeOK, [Next]_vars PROVE TypeOK'
    OBVIOUS
  <1>1. CASE Submit
    BY <1>1, TypeSubmit
  <1>2. CASE ReadSnapshot
    BY <1>2 DEF ReadSnapshot, TypeOK, history
  <1>3. CASE PersistRunning
    <2>1. handler \in Busy
      BY <1>3 DEF PersistRunning, TypeOK, Idle
    <2>2. handler' \in Busy
      BY <1>3, <2>1 DEF PersistRunning, Advance, Busy
    <2>3. disk' \in [snapshot : Snapshots, operations : RecordMaps, damaged : SUBSET Files]
      BY <1>3, <2>1 DEF PersistRunning, TypeOK, RecordMaps, Busy
    <2>4. QED
      BY <1>3, <2>2, <2>3 DEF PersistRunning, TypeOK, history
  <1>4. CASE CallBackend
    <2>1. handler \in Busy
      BY <1>4 DEF CallBackend, TypeOK, Idle
    <2> DEFINE input == IF handler.base = None THEN memory.snapshot ELSE handler.base
    <2>2. input \in Snapshots
      BY <2>1 DEF TypeOK, Busy
    <2>3. PICK result \in BackendResults(handler.kind, input, handler.op) :
            /\ memory' = [memory EXCEPT !.snapshot = result.snapshot]
            /\ handler' = [handler EXCEPT !.stage = "save", !.record.state = result.state]
      BY <1>4 DEF CallBackend
    <2>4. result.snapshot \in Snapshots /\ result.state \in OperationStates
      BY <2>1, <2>2, <2>3 DEF BackendResults, Snapshots, RunStates, OperationStates, Busy
    <2>5. handler' \in Busy
      BY <2>1, <2>3, <2>4 DEF Busy, Records
    <2>6. QED
      BY <1>4, <2>1, <2>3, <2>4, <2>5 DEF CallBackend, TypeOK, Busy
  <1>5. CASE SaveSnapshot
    <2>1. handler \in Busy
      BY <1>5 DEF SaveSnapshot, TypeOK, Idle
    <2>2. handler' \in Busy
      BY <1>5, <2>1 DEF SaveSnapshot, Advance, Busy
    <2>3. stops' \in [Keys -> Nat]
      BY <1>5 DEF SaveSnapshot, TypeOK
    <2>4. QED
      BY <1>5, <2>2, <2>3 DEF SaveSnapshot, TypeOK
  <1>6. CASE Settle
    <2>1. handler \in Busy
      BY <1>6 DEF Settle, TypeOK, Idle
    <2>2. /\ memory' \in [snapshot : Snapshots, operations : RecordMaps]
          /\ disk' \in [snapshot : Snapshots, operations : RecordMaps, damaged : SUBSET Files]
      BY <1>6, <2>1 DEF Settle, TypeOK, RecordMaps, Busy
    <2>3. receipts' \subseteq [key : Keys, op : Ops]
      BY <1>6, <2>1 DEF Settle, TypeOK, Busy, Records
    <2>4. QED
      BY <1>6, <2>2, <2>3 DEF Settle, TypeOK
  <1>7. CASE Crash
    <2>1. disk' \in [snapshot : Snapshots, operations : RecordMaps, damaged : SUBSET Files]
      BY <1>7 DEF Crash, TypeOK, Torn, NextFile, Files
    <2>2. memory' \in [snapshot : Snapshots, operations : RecordMaps]
      BY <1>7 DEF Crash, EmptySnapshot, Snapshots, NoRecords, RecordMaps, RunStates
    <2>3. ran' \subseteq Ops
      BY <1>7 DEF Crash, TypeOK, Busy, Idle
    <2>4. QED
      BY <1>7, <2>1, <2>2, <2>3 DEF Crash, TypeOK
  <1>8. CASE Restart
    BY <1>8 DEF Restart, TypeOK, history
  <1>9. CASE StoreRaises
    <2>1. handler \in Busy
      BY <1>9 DEF StoreRaises, NextFile, TypeOK, Idle
    <2>2. disk' \in [snapshot : Snapshots, operations : RecordMaps, damaged : SUBSET Files]
      BY <1>9 DEF StoreRaises, TypeOK, Torn, NextFile, Files
    <2>3. memory' \in [snapshot : Snapshots, operations : RecordMaps]
      BY <1>9, <2>1 DEF StoreRaises, TypeOK, RecordMaps, Busy
    <2>4. QED
      BY <1>9, <2>2, <2>3 DEF StoreRaises, TypeOK, history
  <1>10. CASE UNCHANGED vars
    BY <1>10 DEF vars, history, TypeOK
  <1>11. QED
    BY <1>1, <1>2, <1>3, <1>4, <1>5, <1>6, <1>7, <1>8, <1>9, <1>10 DEF Next, Progress

\* Memory, disk, handler and history are well typed in every reachable state.
THEOREM TypeCorrect == Spec => []TypeOK
  BY TypeInit, TypeNext, PTL DEF Spec
-----------------------------------------------------------------------------
(***************************************************************************)
(* The inductive invariant.  EffectsInv and KeyInv are stated about ran,   *)
(* the calls made, because a crash may lose the snapshot but not the call; *)
(* HandlerInv carries what Submit found free through the writes that       *)
(* separate the lookup from the call.                                      *)
(***************************************************************************)
Untouched == handler.op \notin ran /\ disk.operations[handler.op] = None
Called == /\ handler.op \in ran
          /\ disk.operations[handler.op] = [handler.record EXCEPT !.state = "running"]

HandlerInv ==
    /\ ~up => handler = Idle
    /\ handler.stage = "admit" => Untouched /\ handler.record.state = "running"
    /\ handler.stage = "call" =>
            /\ handler.op \notin ran
            /\ disk.operations[handler.op] = handler.record
            /\ handler.record.state = "running"
    /\ handler.stage \in {"save", "settle"} => Untouched \/ Called

EffectsInv ==
    /\ ran \subseteq Recorded
    /\ memory.snapshot.applied \subseteq ran
    /\ disk.snapshot.applied \subseteq ran
    /\ held.applied \subseteq ran
    /\ handler.base \in Snapshots => handler.base.applied \subseteq ran

KeyInv ==
    /\ ExecutedOncePerKey
    /\ handler.stage = "admit" /\ handler.record.key # NoKey
            => Holders(handler.record.key) = {}
    /\ handler.stage = "call" /\ handler.record.key # NoKey
            => Holders(handler.record.key) = {handler.op}

DurableInv ==
    ~rebased =>
        /\ up => disk.snapshot.applied \subseteq memory.snapshot.applied
        /\ \A o \in ran : disk.operations[o].state = "succeeded"
                            => o \in disk.snapshot.applied
        /\ handler.op \in ran /\ handler.record.state = "succeeded" =>
                /\ handler.stage = "save" => handler.op \in memory.snapshot.applied
                /\ handler.stage = "settle" => handler.op \in disk.snapshot.applied

\* A handler past the backend call writes a final record.
FinalInv == handler.stage \in {"save", "settle"} => handler.record.state # "running"

\* With a participant runtime no request skips the lookup, and a key has one
\* record at most: that of the handler, if the handler has the key.
OneHolder ==
    "participant" \in Services =>
        /\ \A o, p \in Recorded :
            disk.operations[o].key = disk.operations[p].key
                => o = p \/ disk.operations[o].key = NoKey
        /\ handler.stage # "idle" /\ handler.record.key # NoKey
            => Holders(handler.record.key) \subseteq {handler.op}

Inv == /\ TypeOK /\ HandlerInv /\ EffectsInv /\ KeyInv /\ ReceiptsAreDurable
       /\ DurableInv /\ FinalInv /\ OneHolder

(***************************************************************************)
(* What Submit does to the parts the invariant is about: answer from the   *)
(* store, or start a handler on an untouched operation.                    *)
(***************************************************************************)
Answers ==
    /\ handler' = handler
    /\ \A rc \in receipts' \ receipts :
            rc.op \in Recorded /\ disk.operations[rc.op].key = rc.key

Starts ==
    /\ receipts' = receipts
    /\ handler' \in Busy
    /\ handler'.op \notin ran /\ disk.operations[handler'.op] = None
    /\ handler'.stage \in {"admit", "save", "settle"}
    /\ handler'.base \in {None, held}
    /\ handler'.stage = "admit" <=> handler'.record.state = "running"
    /\ \/ handler'.record.key = NoKey
       \/ Holders(handler'.record.key) = {}
       \/ "participant" \notin Services /\ handler'.stage = "settle"

LEMMA SubmitEffect ==
    TypeOK /\ Submit =>
        /\ up /\ handler = Idle
        /\ UNCHANGED <<up, disk, held, ran, rebased, stops>>
        /\ memory'.snapshot.applied = memory.snapshot.applied
        /\ Answers \/ Starts
  <1> SUFFICES ASSUME TypeOK, Submit
               PROVE  /\ up /\ handler = Idle
                      /\ UNCHANGED <<up, disk, held, ran, rebased, stops>>
                      /\ memory'.snapshot.applied = memory.snapshot.applied
                      /\ Answers \/ Starts
    OBVIOUS
  <1>1. PICK r \in Requests :
            /\ Execute(r) \/ RejectMissing(r) \/ Cancel(r) \/ Reconcile(r)
            /\ r.base \in {None, held}
    BY DEF Submit, Requests, TypeOK
  <1> DEFINE Goal == /\ UNCHANGED <<up, disk, held, ran, rebased, stops>>
                     /\ memory'.snapshot.applied = memory.snapshot.applied
                     /\ Answers \/ Starts
  <1>2. ASSUME Replay(r) PROVE Goal
    BY <1>2 DEF Replay, Holders, Recorded, Answers, TypeOK
  <1>3. ASSUME NEW q \in Requests, q.base \in {None, held}, NEW o \in FreshOps,
               NEW stage \in {"admit", "save", "settle"},
               NEW st \in OperationStates, NEW acc \in BOOLEAN,
               stage = "admit" <=> st = "running",
               Handle(q, stage, o, Record(q, st, acc)),
               \/ KeyIsFree(q)
               \/ "participant" \notin Services /\ stage = "settle",
               receipts' = receipts
        PROVE  Starts
    <2>1. Record(q, st, acc) \in Records
      BY RecordIsRecord
    <2>2. handler' \in Busy
      BY <1>3, <2>1 DEF Handle, Busy, FreshOps, Requests
    <2>3. QED
      BY <1>3, <2>2 DEF Starts, Handle, Record, FreshOps, KeyIsFree
  <1>4. ASSUME Execute(r) PROVE Goal
    BY <1>1, <1>2, <1>3, <1>4 DEF Execute, history, OperationStates, TypeOK
  <1>5. ASSUME RejectMissing(r) PROVE Goal
    <2>1. PICK o \in FreshOps :
            LET kept == IF r.kind = "participant" THEN r
                        ELSE [r EXCEPT !.key = NoKey, !.print = NoPrint]
            IN  Handle(kept, "settle", o, Record(kept, "failed", FALSE))
      BY <1>5 DEF RejectMissing
    <2> DEFINE kept == IF r.kind = "participant" THEN r
                       ELSE [r EXCEPT !.key = NoKey, !.print = NoPrint]
    <2>2. kept \in Requests /\ kept.base \in {None, held}
      BY <1>1 DEF Requests
    <2>3. KeyIsFree(kept) \/ "participant" \notin Services
      BY <1>5 DEF RejectMissing, KeyIsFree, Requests
    <2>4. Starts
      BY <1>3, <1>5, <2>1, <2>2, <2>3 DEF RejectMissing, history, OperationStates
    <2>5. QED
      BY <1>5, <2>4 DEF RejectMissing, history
  <1>6. ASSUME Cancel(r) PROVE Goal
    <2>1. CASE Replay(r)
      BY <1>2, <2>1
    <2>2. CASE KeyIsFree(r) /\ ~Replay(r)
      <3>1. PICK o \in FreshOps, stage \in {"save", "settle"},
                 st \in {"succeeded", "failed"}, acc \in BOOLEAN :
                /\ Handle(r, stage, o, Record(r, st, acc))
                /\ EndRun \/ UNCHANGED <<up, memory, disk, held, history>>
        BY <1>6, <2>2 DEF Cancel, OperationStates
      <3>2. Starts
        BY <1>1, <1>3, <2>2, <3>1 DEF EndRun, history, OperationStates
      <3>3. QED
        BY <3>1, <3>2 DEF EndRun, history, TypeOK, Snapshots
    <2>3. QED
      BY <1>6, <2>1, <2>2 DEF Cancel
  <1>7. ASSUME Reconcile(r) PROVE Goal
    <2>1. CASE Replay(r)
      BY <1>2, <2>1
    <2>2. CASE KeyIsFree(r) /\ ~Replay(r)
      <3>1. PICK o \in FreshOps :
                /\ Handle(r, "save", o, Record(r, "succeeded", TRUE))
                /\ EndRun \/ UNCHANGED <<up, memory, disk, held, history>>
        BY <1>7, <2>2 DEF Reconcile
      <3>2. Starts
        BY <1>1, <1>3, <2>2, <3>1 DEF EndRun, history, OperationStates
      <3>3. QED
        BY <3>1, <3>2 DEF EndRun, history, TypeOK, Snapshots
    <2>3. QED
      BY <1>7, <2>1, <2>2 DEF Reconcile
  <1>8. QED
    BY <1>1, <1>4, <1>5, <1>6, <1>7 DEF Submit
-----------------------------------------------------------------------------
(* Each conjunct is kept by every action.                                  *)

LEMMA InvInit == Init => Inv
  <1> SUFFICES ASSUME Init PROVE Inv
    OBVIOUS
  <1>1. TypeOK
    BY TypeInit
  <1>2. HandlerInv /\ ReceiptsAreDurable
    BY DEF Init, HandlerInv, Idle, ReceiptsAreDurable
  <1>3. EffectsInv
    BY DEF Init, EffectsInv, EmptySnapshot, Idle
  <1>4. KeyInv
    BY DEF Init, KeyInv, ExecutedOncePerKey, Idle
  <1>5. DurableInv
    BY DEF Init, DurableInv, EmptySnapshot
  <1>6. FinalInv /\ OneHolder
    BY DEF Init, FinalInv, OneHolder, Recorded, NoRecords, Idle
  <1>7. QED
    BY <1>1, <1>2, <1>3, <1>4, <1>5, <1>6 DEF Inv

LEMMA BusyStage ==
    ASSUME TypeOK, handler.stage # "idle" PROVE handler \in Busy
  BY DEF TypeOK, Idle

LEMMA HandlerInvNext == TypeOK /\ HandlerInv /\ [Next]_vars => HandlerInv'
  <1> SUFFICES ASSUME TypeOK, HandlerInv, [Next]_vars PROVE HandlerInv'
    OBVIOUS
  <1>1. CASE Submit
    <2>1. CASE Answers
      BY <1>1, <2>1, SubmitEffect DEF Answers, HandlerInv, Untouched, Called, Idle
    <2>2. CASE Starts
      BY <1>1, <2>2, SubmitEffect DEF Starts, HandlerInv, Untouched, Busy
    <2>3. QED
      BY <1>1, <2>1, <2>2, SubmitEffect
  <1>2. CASE ReadSnapshot
    BY <1>2 DEF ReadSnapshot, history, HandlerInv, Untouched, Called
  <1>3. CASE PersistRunning
    <2>1. handler \in Busy
      BY <1>3, BusyStage DEF PersistRunning
    <2>2. disk'.operations[handler.op] = handler.record
      BY <1>3, <2>1 DEF PersistRunning, TypeOK, Busy, RecordMaps
    <2>3. /\ handler'.stage = "call" /\ handler'.op = handler.op
          /\ handler'.record = handler.record
      BY <1>3, <2>1 DEF PersistRunning, Advance, Busy
    <2>4. QED
      BY <1>3, <2>2, <2>3 DEF PersistRunning, HandlerInv, history, Untouched
  <1>4. CASE CallBackend
    <2>1. handler \in Busy
      BY <1>4, BusyStage DEF CallBackend
    <2>2. PICK st : handler' = [handler EXCEPT !.stage = "save", !.record.state = st]
      BY <1>4 DEF CallBackend
    <2>3. /\ handler'.stage = "save" /\ handler'.op = handler.op
          /\ handler'.record = [handler.record EXCEPT !.state = st]
      BY <2>1, <2>2 DEF Busy
    <2>4. [handler'.record EXCEPT !.state = "running"] = handler.record
      BY <1>4, <2>1, <2>3 DEF CallBackend, HandlerInv, Busy, Records
    <2>5. Called'
      BY <1>4, <2>3, <2>4 DEF CallBackend, HandlerInv, Called
    <2>6. QED
      BY <1>4, <2>3, <2>5 DEF CallBackend, HandlerInv
  <1>5. CASE SaveSnapshot
    <2>1. handler \in Busy
      BY <1>5, BusyStage DEF SaveSnapshot
    <2>2. /\ handler'.stage = "settle" /\ handler'.op = handler.op
          /\ handler'.record = handler.record
          /\ disk'.operations = disk.operations
      BY <1>5, <2>1 DEF SaveSnapshot, Advance, Busy, TypeOK
    <2>3. QED
      BY <1>5, <2>2 DEF SaveSnapshot, HandlerInv, Untouched, Called
  <1>6. CASE Settle
    BY <1>6 DEF Settle, HandlerInv, Idle
  <1>7. CASE Crash
    BY <1>7 DEF Crash, HandlerInv, Idle
  <1>8. CASE Restart
    BY <1>8 DEF Restart, HandlerInv, Untouched, Called, history, Idle
  <1>9. CASE StoreRaises
    BY <1>9 DEF StoreRaises, HandlerInv, Idle
  <1>10. CASE UNCHANGED vars
    BY <1>10 DEF vars, history, HandlerInv, Untouched, Called
  <1>11. QED
    BY <1>1, <1>2, <1>3, <1>4, <1>5, <1>6, <1>7, <1>8, <1>9, <1>10 DEF Next, Progress

LEMMA EffectsInvNext ==
    TypeOK /\ HandlerInv /\ EffectsInv /\ [Next]_vars => EffectsInv'
  <1> SUFFICES ASSUME TypeOK, HandlerInv, EffectsInv, [Next]_vars PROVE EffectsInv'
    OBVIOUS
  <1>1. CASE Submit
    <2>1. handler'.base \in Snapshots => handler'.base.applied \subseteq ran
      BY <1>1, SubmitEffect DEF Answers, Starts, EffectsInv
    <2>2. QED
      BY <1>1, <2>1, SubmitEffect DEF EffectsInv, Recorded
  <1>2. CASE ReadSnapshot
    BY <1>2 DEF ReadSnapshot, history, EffectsInv, Recorded
  <1>3. CASE PersistRunning
    <2>1. handler \in Busy
      BY <1>3, BusyStage DEF PersistRunning
    <2>2. disk'.operations = [disk.operations EXCEPT ![handler.op] = handler.record]
          /\ disk'.snapshot = disk.snapshot
      BY <1>3 DEF PersistRunning, TypeOK
    <2>3. Recorded \subseteq Recorded'
      BY <2>1, <2>2 DEF Recorded, TypeOK, RecordMaps, Busy
    <2>4. handler'.base = handler.base
      BY <1>3, <2>1 DEF PersistRunning, Advance, Busy
    <2>5. QED
      BY <1>3, <2>2, <2>3, <2>4 DEF PersistRunning, EffectsInv, history
  <1>4. CASE CallBackend
    <2>1. handler \in Busy
      BY <1>4, BusyStage DEF CallBackend
    <2> DEFINE input == IF handler.base = None THEN memory.snapshot ELSE handler.base
    <2>2. input.applied \subseteq ran /\ input \in Snapshots
      BY <2>1 DEF EffectsInv, TypeOK, Busy
    <2>3. PICK result \in BackendResults(handler.kind, input, handler.op) :
            /\ memory' = [memory EXCEPT !.snapshot = result.snapshot]
            /\ handler' = [handler EXCEPT !.stage = "save", !.record.state = result.state]
      BY <1>4 DEF CallBackend
    <2>4. result.snapshot.applied \subseteq ran \cup {handler.op}
      BY <2>2, <2>3 DEF BackendResults
    <2>5. memory'.snapshot.applied \subseteq ran' /\ handler'.base = handler.base
      BY <1>4, <2>1, <2>3, <2>4 DEF CallBackend, TypeOK, Busy
    <2>6. ran' \subseteq Recorded'
      BY <1>4, <2>1 DEF CallBackend, EffectsInv, HandlerInv, Recorded, Busy
    <2>7. QED
      BY <1>4, <2>5, <2>6 DEF CallBackend, EffectsInv
  <1>5. CASE SaveSnapshot
    <2>1. handler \in Busy
      BY <1>5, BusyStage DEF SaveSnapshot
    <2>2. /\ disk'.operations = disk.operations
          /\ disk'.snapshot = memory.snapshot
          /\ handler'.base = handler.base
      BY <1>5, <2>1 DEF SaveSnapshot, Advance, Busy, TypeOK
    <2>3. QED
      BY <1>5, <2>2 DEF SaveSnapshot, EffectsInv, Recorded
  <1>6. CASE Settle
    <2>1. handler \in Busy
      BY <1>6, BusyStage DEF Settle
    <2>2. disk'.operations = [disk.operations EXCEPT ![handler.op] = handler.record]
          /\ disk'.snapshot = disk.snapshot /\ memory'.snapshot = memory.snapshot
      BY <1>6 DEF Settle, TypeOK
    <2>3. Recorded \subseteq Recorded'
      BY <2>1, <2>2 DEF Recorded, TypeOK, RecordMaps, Busy
    <2>4. handler'.base \notin Snapshots
      BY <1>6 DEF Settle, Idle
    <2>5. QED
      BY <1>6, <2>2, <2>3, <2>4 DEF Settle, EffectsInv
  <1>7. CASE Crash
    <2>1. /\ disk'.operations = disk.operations /\ disk'.snapshot = disk.snapshot
          /\ memory'.snapshot.applied = {}
          /\ handler'.base \notin Snapshots
      BY <1>7 DEF Crash, TypeOK, EmptySnapshot, Idle
    <2>2. ran \subseteq ran' /\ ran' \subseteq Recorded
      BY <1>7, BusyStage DEF Crash, EffectsInv, HandlerInv, Recorded, Busy
    <2>3. QED
      BY <1>7, <2>1, <2>2 DEF Crash, EffectsInv, Recorded
  <1>8. CASE Restart
    BY <1>8 DEF Restart, EffectsInv, history, Recorded
  <1>9. CASE StoreRaises
    <2>1. /\ disk'.operations = disk.operations /\ disk'.snapshot = disk.snapshot
          /\ memory'.snapshot = memory.snapshot
          /\ handler'.base \notin Snapshots
      BY <1>9 DEF StoreRaises, TypeOK, Idle
    <2>2. QED
      BY <1>9, <2>1 DEF StoreRaises, EffectsInv, history, Recorded
  <1>10. CASE UNCHANGED vars
    BY <1>10 DEF vars, history, EffectsInv, Recorded
  <1>11. QED
    BY <1>1, <1>2, <1>3, <1>4, <1>5, <1>6, <1>7, <1>8, <1>9, <1>10 DEF Next, Progress

\* A write of operations.json adds the handled operation under its own key.
LEMMA RecordWritten ==
    ASSUME TypeOK, HandlerInv, PersistRunning \/ Settle
    PROVE  /\ handler \in Busy
           /\ disk'.snapshot = disk.snapshot
           /\ disk'.operations = [disk.operations EXCEPT ![handler.op] = handler.record]
           /\ disk'.operations[handler.op] = handler.record
           /\ Recorded' = Recorded \cup {handler.op}
           /\ \A o \in Ops : o # handler.op => disk'.operations[o] = disk.operations[o]
           /\ handler.op \in Recorded => disk.operations[handler.op].key = handler.record.key
  <1>1. handler \in Busy
    BY BusyStage DEF PersistRunning, Settle
  <1>2. disk'.snapshot = disk.snapshot
        /\ disk'.operations = [disk.operations EXCEPT ![handler.op] = handler.record]
    BY DEF PersistRunning, Settle, TypeOK
  <1>3. /\ disk'.operations[handler.op] = handler.record
        /\ \A o \in Ops : o # handler.op => disk'.operations[o] = disk.operations[o]
    BY <1>1, <1>2 DEF TypeOK, RecordMaps, Busy
  <1>4. Recorded' = Recorded \cup {handler.op}
    BY <1>1, <1>3 DEF Recorded, Busy
  <1>5. handler.op \in Recorded => disk.operations[handler.op].key = handler.record.key
    BY <1>1 DEF PersistRunning, Settle, HandlerInv, Untouched, Called, Recorded, Busy, Records
  <1>6. QED
    BY <1>1, <1>2, <1>3, <1>4, <1>5

\* Every other step leaves operations.json and the records in it alone.
LEMMA RecordsKept ==
    ASSUME TypeOK, [Next]_vars, ~PersistRunning, ~Settle
    PROVE  disk'.operations = disk.operations
  <1>1. CASE Submit
    BY <1>1, SubmitEffect
  <1>2. CASE ReadSnapshot \/ CallBackend \/ Restart \/ UNCHANGED vars
    BY <1>2 DEF ReadSnapshot, CallBackend, Restart, vars
  <1>3. CASE SaveSnapshot \/ Crash \/ StoreRaises
    BY <1>3 DEF SaveSnapshot, Crash, StoreRaises, TypeOK
  <1>4. QED
    BY <1>1, <1>2, <1>3 DEF Next, Progress

LEMMA KeyInvNext ==
    TypeOK /\ HandlerInv /\ EffectsInv /\ KeyInv /\ [Next]_vars => KeyInv'
  <1> SUFFICES ASSUME TypeOK, HandlerInv, EffectsInv, KeyInv, [Next]_vars PROVE KeyInv'
    OBVIOUS
  <1>1. CASE Submit
    <2>1. CASE Answers
      BY <1>1, <2>1, SubmitEffect
         DEF Answers, KeyInv, ExecutedOncePerKey, Recorded, Holders
    <2>2. CASE Starts
      BY <1>1, <2>2, SubmitEffect
         DEF Starts, KeyInv, ExecutedOncePerKey, Recorded, Holders
    <2>3. QED
      BY <1>1, <2>1, <2>2, SubmitEffect
  <1>2. CASE PersistRunning
    <2>1. handler'.op = handler.op /\ handler'.record = handler.record
          /\ handler'.stage = "call"
      BY <1>2, RecordWritten DEF PersistRunning, Advance, Busy
    <2>2. ran' = ran /\ handler.op \notin ran
      BY <1>2 DEF PersistRunning, history, HandlerInv, Untouched
    <2>3. ExecutedOncePerKey'
      BY <1>2, <2>2, RecordWritten DEF KeyInv, ExecutedOncePerKey, EffectsInv, TypeOK
    <2>4. ASSUME handler.record.key # NoKey
          PROVE  {o \in Ops : /\ disk'.operations[o] # None
                              /\ disk'.operations[o].key = handler.record.key}
                    = {handler.op}
      <3>1. handler.op \in Ops /\ handler.op \in Recorded'
        BY <1>2, RecordWritten DEF Busy
      <3>2. \A o \in Ops : o # handler.op /\ disk.operations[o] # None
                             => disk.operations[o].key # handler.record.key
        BY <1>2, <2>4 DEF PersistRunning, KeyInv, Holders
      <3>3. QED
        BY <1>2, <3>1, <3>2, RecordWritten DEF Recorded
    <2>5. QED
      BY <2>1, <2>3, <2>4 DEF KeyInv, Holders
  <1>3. CASE Settle
    <2>1. ran' = ran /\ handler'.stage = "idle"
      BY <1>3 DEF Settle, Idle
    <2>2. \A o \in ran : disk'.operations[o].key = disk.operations[o].key
      BY <1>3, <2>1, RecordWritten DEF EffectsInv, TypeOK
    <2>3. ExecutedOncePerKey'
      BY <2>1, <2>2, RecordWritten, <1>3 DEF KeyInv, ExecutedOncePerKey, EffectsInv
    <2>4. QED
      BY <2>1, <2>3 DEF KeyInv
  <1>4. ASSUME handler.stage = "call", ran' \in {ran, ran \cup {handler.op}},
               disk'.operations = disk.operations,
               handler'.stage \notin {"admit", "call"}
        PROVE  KeyInv'
    <2>1. handler \in Busy /\ handler.op \in Recorded
      BY <1>4, BusyStage DEF HandlerInv, Recorded, Busy
    <2>2. \A o \in ran : disk.operations[o].key = handler.record.key
                            => handler.record.key = NoKey
      BY <1>4, <2>1 DEF KeyInv, HandlerInv, Holders, EffectsInv, Recorded, TypeOK
    <2>3. disk.operations[handler.op].key = handler.record.key
      BY <1>4 DEF HandlerInv
    <2>4. ExecutedOncePerKey'
      BY <1>4, <2>1, <2>2, <2>3 DEF KeyInv, ExecutedOncePerKey, Recorded
    <2>5. QED
      BY <1>4, <2>4 DEF KeyInv
  <1>5. CASE CallBackend
    <2>1. handler'.stage = "save"
      BY <1>5, BusyStage DEF CallBackend, Busy
    <2>2. QED
      BY <1>4, <1>5, <2>1 DEF CallBackend
  <1>6. CASE Crash
    <2>1. disk'.operations = disk.operations /\ handler'.stage = "idle"
      BY <1>6 DEF Crash, TypeOK, Idle
    <2>2. CASE handler.stage = "call"
      BY <1>4, <1>6, <2>1, <2>2 DEF Crash
    <2>3. CASE handler.stage # "call"
      BY <1>6, <2>1, <2>3 DEF Crash, KeyInv, ExecutedOncePerKey, Recorded
    <2>4. QED
      BY <2>2, <2>3
  <1>7. CASE ReadSnapshot \/ Restart \/ UNCHANGED vars
    BY <1>7 DEF ReadSnapshot, Restart, vars, history,
               KeyInv, ExecutedOncePerKey, Recorded, Holders
  <1>8. CASE SaveSnapshot \/ StoreRaises
    <2>1. disk'.operations = disk.operations /\ ran' = ran
      BY <1>8 DEF SaveSnapshot, StoreRaises, TypeOK, history
    <2>2. handler'.stage \notin {"admit", "call"}
      BY <1>8, BusyStage DEF SaveSnapshot, StoreRaises, Advance, Idle, Busy
    <2>3. QED
      BY <2>1, <2>2 DEF KeyInv, ExecutedOncePerKey, Recorded
  <1>9. QED
    BY <1>1, <1>2, <1>3, <1>5, <1>6, <1>7, <1>8 DEF Next, Progress

LEMMA ReceiptsNext ==
    TypeOK /\ HandlerInv /\ ReceiptsAreDurable /\ [Next]_vars => ReceiptsAreDurable'
  <1> SUFFICES ASSUME TypeOK, HandlerInv, ReceiptsAreDurable, [Next]_vars
               PROVE  ReceiptsAreDurable'
    OBVIOUS
  <1>1. CASE Submit
    <2>1. disk' = disk /\ \A rc \in receipts' \ receipts :
                rc.op \in Recorded /\ disk.operations[rc.op].key = rc.key
      BY <1>1, SubmitEffect DEF Answers, Starts
    <2>2. QED
      BY <2>1 DEF ReceiptsAreDurable, Recorded
  <1>2. CASE PersistRunning \/ Settle
    <2>1. \A rc \in receipts : rc.op \in Recorded' /\ disk'.operations[rc.op].key = rc.key
      BY <1>2, RecordWritten DEF ReceiptsAreDurable, TypeOK
    <2>2. \A rc \in receipts' \ receipts : rc.op = handler.op /\ rc.key = handler.record.key
      BY <1>2 DEF PersistRunning, Settle, history
    <2>3. QED
      BY <1>2, <2>1, <2>2, RecordWritten DEF ReceiptsAreDurable
  <1>3. CASE ~Submit /\ ~PersistRunning /\ ~Settle
    <2>1. receipts' = receipts
      BY <1>3 DEF Next, Progress, ReadSnapshot, CallBackend, SaveSnapshot, Crash,
                  Restart, StoreRaises, vars, history
    <2>2. QED
      BY <1>3, <2>1, RecordsKept DEF ReceiptsAreDurable, Recorded
  <1>4. QED
    BY <1>1, <1>2, <1>3

LEMMA DurableNext ==
    TypeOK /\ HandlerInv /\ EffectsInv /\ DurableInv /\ [Next]_vars => DurableInv'
  <1> SUFFICES ASSUME TypeOK, HandlerInv, EffectsInv, DurableInv, [Next]_vars, ~rebased'
               PROVE  DurableInv'
    BY DEF DurableInv
  <1>1. CASE Submit
    BY <1>1, SubmitEffect DEF Answers, Starts, DurableInv, Idle
  <1>2. CASE PersistRunning
    <2>1. handler.op \notin ran /\ ran' = ran
      BY <1>2 DEF PersistRunning, HandlerInv, Untouched, history
    <2>2. \A o \in ran : disk'.operations[o] = disk.operations[o]
      BY <1>2, <2>1, RecordWritten DEF TypeOK
    <2>3. handler'.op = handler.op
      BY <1>2, RecordWritten DEF PersistRunning, Advance, Busy
    <2>4. QED
      BY <1>2, <2>1, <2>2, <2>3, RecordWritten DEF PersistRunning, DurableInv, history
  <1>3. CASE CallBackend
    <2>1. handler \in Busy /\ ~rebased /\ handler.base = None
      BY <1>3, BusyStage DEF CallBackend, TypeOK
    <2>2. PICK result \in BackendResults(handler.kind, memory.snapshot, handler.op) :
            /\ memory' = [memory EXCEPT !.snapshot = result.snapshot]
            /\ handler' = [handler EXCEPT !.stage = "save", !.record.state = result.state]
      BY <1>3, <2>1 DEF CallBackend
    <2>3. /\ memory.snapshot.applied \subseteq result.snapshot.applied
          /\ result.state = "succeeded" => handler.op \in result.snapshot.applied
      BY <2>2 DEF BackendResults
    <2>4. /\ memory'.snapshot = result.snapshot
          /\ handler'.stage = "save" /\ handler'.op = handler.op
          /\ handler'.record.state = result.state
      BY <2>1, <2>2 DEF TypeOK, Busy, Records
    <2>5. disk.operations[handler.op].state = "running"
      BY <1>3 DEF CallBackend, HandlerInv
    <2>6. QED
      BY <1>3, <2>1, <2>3, <2>4, <2>5 DEF CallBackend, DurableInv
  <1>4. CASE SaveSnapshot
    <2>1. handler \in Busy
      BY <1>4, BusyStage DEF SaveSnapshot
    <2>2. /\ disk'.operations = disk.operations /\ disk'.snapshot = memory.snapshot
          /\ handler'.stage = "settle" /\ handler'.op = handler.op
          /\ handler'.record = handler.record
      BY <1>4, <2>1 DEF SaveSnapshot, Advance, Busy, TypeOK
    <2>3. QED
      BY <1>4, <2>2 DEF SaveSnapshot, DurableInv
  <1>5. CASE Settle
    <2>1. ran' = ran /\ up' = up /\ rebased' = rebased /\ handler'.stage = "idle"
          /\ memory'.snapshot = memory.snapshot
      BY <1>5 DEF Settle, Idle, TypeOK
    <2>2. \A o \in ran : disk'.operations[o].state = "succeeded"
                            => o \in disk.snapshot.applied
      BY <1>5, <2>1, RecordWritten DEF Settle, DurableInv, TypeOK
    <2>3. QED
      BY <1>5, <2>1, <2>2, RecordWritten DEF DurableInv
  <1>6. CASE Crash
    <2>1. /\ disk'.operations = disk.operations /\ disk'.snapshot = disk.snapshot
          /\ handler'.stage = "idle" /\ up' = FALSE /\ rebased' = rebased
      BY <1>6 DEF Crash, TypeOK, Idle
    <2>2. \A o \in ran' \ ran : disk.operations[o].state = "running"
      BY <1>6 DEF Crash, HandlerInv
    <2>3. QED
      BY <2>1, <2>2 DEF DurableInv
  <1>7. CASE Restart
    BY <1>7 DEF Restart, history, DurableInv, HandlerInv, Idle
  <1>8. CASE StoreRaises
    <2>1. /\ disk'.operations = disk.operations /\ disk'.snapshot = disk.snapshot
          /\ memory'.snapshot = memory.snapshot /\ handler'.stage = "idle"
      BY <1>8 DEF StoreRaises, TypeOK, Idle
    <2>2. QED
      BY <1>8, <2>1 DEF StoreRaises, history, DurableInv
  <1>9. CASE ReadSnapshot \/ UNCHANGED vars
    BY <1>9 DEF ReadSnapshot, vars, history, DurableInv
  <1>10. QED
    BY <1>1, <1>2, <1>3, <1>4, <1>5, <1>6, <1>7, <1>8, <1>9 DEF Next, Progress

LEMMA FinalNext == TypeOK /\ FinalInv /\ [Next]_vars => FinalInv'
  <1> SUFFICES ASSUME TypeOK, FinalInv, [Next]_vars PROVE FinalInv'
    OBVIOUS
  <1>1. CASE Submit
    BY <1>1, SubmitEffect DEF Answers, Starts, FinalInv
  <1>2. CASE PersistRunning
    BY <1>2, BusyStage DEF PersistRunning, Advance, FinalInv, Busy
  <1>3. CASE CallBackend
    <2>1. handler \in Busy
      BY <1>3, BusyStage DEF CallBackend
    <2> DEFINE input == IF handler.base = None THEN memory.snapshot ELSE handler.base
    <2>2. PICK result \in BackendResults(handler.kind, input, handler.op) :
            handler' = [handler EXCEPT !.stage = "save", !.record.state = result.state]
      BY <1>3 DEF CallBackend
    <2>3. result.state # "running"
      BY <2>2 DEF BackendResults
    <2>4. handler'.record.state = result.state
      BY <2>1, <2>2 DEF Busy, Records
    <2>5. QED
      BY <2>3, <2>4 DEF FinalInv
  <1>4. CASE SaveSnapshot
    BY <1>4, BusyStage DEF SaveSnapshot, Advance, FinalInv, Busy
  <1>5. CASE Settle \/ Crash \/ StoreRaises
    BY <1>5 DEF Settle, Crash, StoreRaises, FinalInv, Idle
  <1>6. CASE ReadSnapshot \/ Restart \/ UNCHANGED vars
    BY <1>6 DEF ReadSnapshot, Restart, vars, FinalInv
  <1>7. QED
    BY <1>1, <1>2, <1>3, <1>4, <1>5, <1>6 DEF Next, Progress

LEMMA OneHolderNext ==
    TypeOK /\ HandlerInv /\ OneHolder /\ [Next]_vars => OneHolder'
  <1> SUFFICES ASSUME TypeOK, HandlerInv, OneHolder, [Next]_vars,
                      "participant" \in Services
               PROVE  OneHolder'
    BY DEF OneHolder
  <1>1. CASE Submit
    <2>1. CASE Answers
      BY <1>1, <2>1, SubmitEffect DEF Answers, OneHolder, Recorded, Holders
    <2>2. CASE Starts
      BY <1>1, <2>2, SubmitEffect DEF Starts, OneHolder, Recorded, Holders
    <2>3. QED
      BY <1>1, <2>1, <2>2, SubmitEffect
  <1>2. CASE PersistRunning \/ Settle
    <2>1. handler.stage # "idle" /\ handler.op \in Ops
      BY <1>2, RecordWritten DEF PersistRunning, Settle, Busy
    <2>2. \A o \in Recorded : disk.operations[o].key = handler.record.key
                                => o = handler.op \/ handler.record.key = NoKey
      BY <2>1 DEF OneHolder, Holders, Recorded
    <2>3. \A o \in Recorded' : /\ o \in Ops
                               /\ o # handler.op => /\ o \in Recorded
                                                    /\ disk'.operations[o] = disk.operations[o]
      BY <1>2, <2>1, RecordWritten DEF Recorded
    <2>4. \A o, p \in Recorded' :
            disk'.operations[o].key = disk'.operations[p].key
                => o = p \/ disk'.operations[o].key = NoKey
      BY <1>2, <2>2, <2>3, RecordWritten DEF OneHolder
    <2>5. \/ handler'.stage = "idle"
          \/ handler'.op = handler.op /\ handler'.record = handler.record
      BY <1>2, RecordWritten DEF PersistRunning, Settle, Advance, Idle, Busy
    <2>6. \A o \in Recorded' : disk'.operations[o].key = handler.record.key
                                => o = handler.op \/ handler.record.key = NoKey
      BY <2>2, <2>3
    <2>7. QED
      BY <2>4, <2>5, <2>6 DEF OneHolder, Holders, Recorded
  <1>3. CASE ~Submit /\ ~PersistRunning /\ ~Settle
    <2>1. disk'.operations = disk.operations
      BY <1>3, RecordsKept
    <2>2. \/ handler'.stage = "idle"
          \/ /\ handler.stage # "idle" /\ handler'.op = handler.op
             /\ handler'.record.key = handler.record.key
      <3>1. CASE CallBackend
        BY <3>1, BusyStage DEF CallBackend, Busy, Records
      <3>2. CASE SaveSnapshot
        BY <3>2, BusyStage DEF SaveSnapshot, Advance, Busy
      <3>3. CASE ReadSnapshot \/ Crash \/ Restart \/ StoreRaises \/ UNCHANGED vars
        BY <3>3 DEF ReadSnapshot, Crash, Restart, StoreRaises, vars, Idle
      <3>4. QED
        BY <1>3, <3>1, <3>2, <3>3 DEF Next, Progress
    <2>3. QED
      BY <2>1, <2>2 DEF OneHolder, Recorded, Holders
  <1>4. QED
    BY <1>1, <1>2, <1>3

\* The inductive invariant holds of every reachable state.
THEOREM InvCorrect == Spec => []Inv
  <1>1. Inv /\ [Next]_vars => Inv'
    BY TypeNext, HandlerInvNext, EffectsInvNext, KeyInvNext, ReceiptsNext, DurableNext,
       FinalNext, OneHolderNext
       DEF Inv
  <1>2. QED
    BY InvInit, <1>1, PTL DEF Spec

(***************************************************************************)
(* The results.                                                            *)
(***************************************************************************)
\* No backend call and no snapshot content without a record on disk.
THEOREM WriteAheadCorrect == Spec => []WriteAhead
  <1>1. Inv => WriteAhead
    BY DEF Inv, EffectsInv, WriteAhead
  <1>2. QED
    BY InvCorrect, <1>1, PTL

\* At most one backend call per idempotency key, whatever crashes.
THEOREM ExecutedOncePerKeyCorrect == Spec => []ExecutedOncePerKey
  <1>1. Inv => ExecutedOncePerKey
    BY DEF Inv, KeyInv
  <1>2. QED
    BY InvCorrect, <1>1, PTL

\* A returned receipt survives every restart.
THEOREM ReceiptsAreDurableCorrect == Spec => []ReceiptsAreDurable
  <1>1. Inv => ReceiptsAreDurable
    BY DEF Inv
  <1>2. QED
    BY InvCorrect, <1>1, PTL

\* A recorded success is in the saved snapshot.
THEOREM SucceededIsDurableCorrect == Spec => []SucceededIsDurable
  <1>1. Inv => SucceededIsDurable
    BY DEF Inv, DurableInv, SucceededIsDurable
  <1>2. QED
    BY InvCorrect, <1>1, PTL

\* One key is always answered with one operation, when a participant runtime
\* is there and so every request is looked up first.
THEOREM ReceiptsAgreeCorrect ==
    ASSUME "participant" \in Services PROVE Spec => []ReceiptsAgree
  <1>1. Inv => ReceiptsAgree
    BY DEF Inv, TypeOK, OneHolder, ReceiptsAreDurable, ReceiptsAgree
  <1>2. QED
    BY InvCorrect, <1>1, PTL

\* A record on disk changes once, from running to final, by its own handler:
\* the rest of the record was written when it was admitted.
THEOREM RecordsOnlySettleCorrect == Spec => RecordsOnlySettle
  <1> DEFINE Step(o) ==
        \/ disk'.operations[o] = disk.operations[o]
        \/ /\ handler.op = o
           /\ disk.operations[o].state = "running"
           /\ disk'.operations[o].state # "running"
           /\ disk'.operations[o] =
                [disk.operations[o] EXCEPT !.state = disk'.operations[o].state]
  <1>1. ASSUME Inv, [Next]_vars, NEW o \in Recorded PROVE Step(o)
    <2>1. CASE o # handler.op \/ ~(PersistRunning \/ Settle)
      BY <1>1, <2>1, RecordWritten, RecordsKept DEF Inv, Recorded
    <2>2. CASE o = handler.op /\ PersistRunning
      BY <1>1, <2>2 DEF Inv, HandlerInv, Untouched, PersistRunning, Recorded
    <2>3. CASE o = handler.op /\ Settle
      <3>1. handler \in Busy /\ disk'.operations[o] = handler.record
        BY <1>1, <2>3, RecordWritten DEF Inv
      <3>2. /\ disk.operations[o] = [handler.record EXCEPT !.state = "running"]
            /\ handler.record.state # "running"
        BY <1>1, <2>3 DEF Inv, HandlerInv, FinalInv, Untouched, Called, Settle, Recorded
      <3>3. handler.record \in Records
        BY <3>1 DEF Busy
      <3>4. handler.record = [disk.operations[o] EXCEPT !.state = handler.record.state]
        BY <3>2, <3>3 DEF Records
      <3>5. QED
        BY <2>3, <3>1, <3>2, <3>3, <3>4 DEF Records
    <2>4. QED
      BY <2>1, <2>2, <2>3
  <1>2. Inv /\ [Next]_vars => [\A o \in Recorded : Step(o)]_disk
    BY <1>1
  <1>3. QED
    BY InvCorrect, <1>2, PTL DEF Spec, RecordsOnlySettle
-----------------------------------------------------------------------------
(***************************************************************************)
(* Memory and disk.  Without store faults they part only inside a handler: *)
(* the RUNNING record is in memory first, and so is a new snapshot.  A     *)
(* file that is damaged was damaged by a crash, and nothing starts again.  *)
(***************************************************************************)
MirrorInv ==
    ~StoreFaults /\ up =>
        /\ disk.damaged = {}
        /\ handler.stage = "admit" =>
            memory.operations = [disk.operations EXCEPT ![handler.op] = handler.record]
        /\ handler.stage # "admit" => memory.operations = disk.operations
        /\ handler.stage # "save" => memory.snapshot = disk.snapshot

\* A handler that starts puts its RUNNING record into memory, or ends a run
\* there, or leaves memory alone.
LEMMA SubmitMemory ==
    ASSUME TypeOK, Submit, memory.operations = disk.operations,
           memory.snapshot = disk.snapshot
    PROVE  /\ handler'.stage = "admit" =>
                memory'.operations = [disk.operations EXCEPT ![handler'.op] = handler'.record]
           /\ handler'.stage # "admit" => memory'.operations = disk.operations
           /\ handler'.stage # "save" => memory'.snapshot = disk.snapshot
  <1>1. PICK r \in Requests : Execute(r) \/ RejectMissing(r) \/ Cancel(r) \/ Reconcile(r)
    BY DEF Submit, Requests, TypeOK
  <1>2. handler.stage = "idle"
    BY DEF Submit, Idle
  <1>3. CASE Replay(r)
    <2>1. PICK o \in Ops : memory' = [memory EXCEPT !.operations[o] = disk.operations[o]]
      BY <1>3 DEF Replay, Holders
    <2>2. memory'.operations = disk.operations /\ memory'.snapshot = disk.snapshot
      BY <2>1 DEF TypeOK, RecordMaps
    <2>3. handler' = handler
      BY <1>3 DEF Replay
    <2>4. QED
      BY <1>2, <2>2, <2>3
  <1>4. CASE Execute(r) /\ ~Replay(r)
    <2>1. PICK o \in FreshOps :
            /\ Handle(r, "admit", o, Record(r, "running", TRUE))
            /\ memory' = [memory EXCEPT !.operations[o] = Record(r, "running", TRUE)]
      BY <1>4 DEF Execute
    <2>2. QED
      BY <2>1 DEF Handle, TypeOK
  <1>5. ASSUME NEW q, NEW o, NEW stage \in {"save", "settle"}, NEW rec,
               Handle(q, stage, o, rec),
               \/ stage = "save" /\ EndRun
               \/ UNCHANGED <<up, memory, disk, held, history>>
        PROVE  /\ handler'.stage = stage /\ memory'.operations = disk.operations
               /\ stage # "save" => memory'.snapshot = disk.snapshot
    BY <1>5 DEF Handle, EndRun, TypeOK
  <1>6. CASE RejectMissing(r)
    BY <1>5, <1>6 DEF RejectMissing
  <1>7. CASE Cancel(r) /\ ~Replay(r)
    BY <1>5, <1>7 DEF Cancel
  <1>8. CASE Reconcile(r) /\ ~Replay(r)
    BY <1>5, <1>8 DEF Reconcile
  <1>9. QED
    BY <1>1, <1>3, <1>4, <1>6, <1>7, <1>8

LEMMA MirrorInit == Init => MirrorInv
  BY DEF Init, MirrorInv, Idle

LEMMA MirrorNext ==
    TypeOK /\ HandlerInv /\ MirrorInv /\ [Next]_vars => MirrorInv'
  <1> SUFFICES ASSUME TypeOK, HandlerInv, MirrorInv, [Next]_vars, ~StoreFaults, up'
               PROVE  MirrorInv'
    BY DEF MirrorInv
  <1>1. CASE Submit
    <2>1. up /\ handler.stage = "idle" /\ disk' = disk
      BY <1>1, SubmitEffect DEF Idle
    <2>2. memory.operations = disk.operations /\ memory.snapshot = disk.snapshot
      BY <2>1 DEF MirrorInv
    <2>3. QED
      BY <1>1, <2>1, <2>2, SubmitMemory DEF MirrorInv
  <1>2. CASE PersistRunning
    <2>1. handler'.stage = "call" /\ disk'.damaged = disk.damaged
      BY <1>2, BusyStage DEF PersistRunning, Advance, Busy, TypeOK
    <2>2. QED
      BY <1>2, <2>1, RecordWritten DEF PersistRunning, MirrorInv
  <1>3. CASE CallBackend
    <2>1. handler'.stage = "save" /\ memory'.operations = memory.operations
      BY <1>3, BusyStage DEF CallBackend, Busy, TypeOK
    <2>2. QED
      BY <1>3, <2>1 DEF CallBackend, MirrorInv
  <1>4. CASE SaveSnapshot
    <2>1. /\ handler'.stage = "settle" /\ disk'.operations = disk.operations
          /\ disk'.snapshot = memory.snapshot
          /\ disk'.damaged = disk.damaged \ {"snapshot.json"}
      BY <1>4, BusyStage DEF SaveSnapshot, Advance, Busy, TypeOK
    <2>2. QED
      BY <1>4, <2>1 DEF SaveSnapshot, MirrorInv
  <1>5. CASE Settle
    <2>1. /\ handler'.stage = "idle" /\ memory'.snapshot = memory.snapshot
          /\ memory'.operations = [memory.operations EXCEPT ![handler.op] = handler.record]
          /\ disk'.damaged = disk.damaged
      BY <1>5 DEF Settle, Idle, TypeOK
    <2>2. QED
      BY <1>5, <2>1, RecordWritten DEF Settle, MirrorInv
  <1>6. CASE Crash
    BY <1>6 DEF Crash
  <1>7. CASE Restart
    <2>1. handler' = Idle
      BY <1>7 DEF Restart, HandlerInv
    <2>2. QED
      BY <1>7, <2>1 DEF Restart, MirrorInv, Idle
  <1>8. CASE StoreRaises
    BY <1>8 DEF StoreRaises, MirrorInv
  <1>9. CASE ReadSnapshot \/ UNCHANGED vars
    BY <1>9 DEF ReadSnapshot, vars, history, MirrorInv
  <1>10. QED
    BY <1>1, <1>2, <1>3, <1>4, <1>5, <1>6, <1>7, <1>8, <1>9 DEF Next, Progress

\* Between handlers memory shows what a restart would load.
THEOREM MemoryMirrorsDiskCorrect == Spec => []MemoryMirrorsDisk
  <1>1. TypeOK /\ HandlerInv /\ MirrorInv => MemoryMirrorsDisk
    BY DEF MirrorInv, MemoryMirrorsDisk, Idle
  <1>2. Inv => TypeOK /\ HandlerInv
    BY DEF Inv
  <1>3. QED
    BY InvCorrect, MirrorInit, MirrorNext, <1>1, <1>2, PTL DEF Spec-----------------------------------------------------------------------------
(***************************************************************************)
(* The refinement.  Where callers pass no base_snapshot and every request  *)
(* is looked up, each write of operations.json enters or settles one       *)
(* operation of the ledger, each write of snapshot.json publishes, and     *)
(* everything else is a stutter.                                           *)
(***************************************************************************)
CurrentBases == ~CallerBases => ~rebased /\ handler.base = None

LEMMA CurrentBasesNext ==
    TypeOK /\ CurrentBases /\ [Next]_vars => CurrentBases'
  <1> SUFFICES ASSUME TypeOK, CurrentBases, [Next]_vars, ~CallerBases
               PROVE  ~rebased' /\ handler'.base = None
    BY DEF CurrentBases
  <1> USE DEF CurrentBases
  <1>1. CASE Submit
    <2>1. PICK r \in Requests :
            /\ r.base = None
            /\ Execute(r) \/ RejectMissing(r) \/ Cancel(r) \/ Reconcile(r)
      BY <1>1 DEF Submit, Requests, TypeOK
    <2>2. rebased' = rebased
      BY <1>1, SubmitEffect
    <2>3. CASE Replay(r)
      BY <2>2, <2>3 DEF Replay
    <2>4. \A q, stage, o, rec : Handle(q, stage, o, rec) => handler'.base = q.base
      BY DEF Handle
    <2>5. CASE ~Replay(r)
      <3>1. CASE Execute(r) \/ Cancel(r) \/ Reconcile(r)
        <4>1. \E stage, o, rec : Handle(r, stage, o, rec)
          BY <2>5, <3>1 DEF Execute, Cancel, Reconcile
        <4>2. QED
          BY <2>1, <2>2, <2>4, <4>1
      <3>2. CASE RejectMissing(r)
        <4>1. PICK o : LET kept == IF r.kind = "participant" THEN r
                                   ELSE [r EXCEPT !.key = NoKey, !.print = NoPrint]
                       IN  Handle(kept, "settle", o, Record(kept, "failed", FALSE))
          BY <3>2 DEF RejectMissing
        <4>2. handler'.base = r.base
          BY <2>1, <4>1 DEF Handle, Requests
        <4>3. QED
          BY <2>1, <2>2, <4>2
      <3>3. QED
        BY <2>1, <3>1, <3>2
    <2>6. QED
      BY <2>3, <2>5
  <1>2. CASE PersistRunning \/ SaveSnapshot
    BY <1>2, BusyStage DEF PersistRunning, SaveSnapshot, Advance, Busy, history
  <1>3. CASE CallBackend
    BY <1>3, BusyStage DEF CallBackend, Busy
  <1>4. CASE Settle \/ Crash \/ StoreRaises
    BY <1>4 DEF Settle, Crash, StoreRaises, Idle, history
  <1>5. CASE ReadSnapshot \/ Restart \/ UNCHANGED vars
    BY <1>5 DEF ReadSnapshot, Restart, vars, history
  <1>6. QED
    BY <1>1, <1>2, <1>3, <1>4, <1>5 DEF Next, Progress

\* The ledger enters what is recorded.
LEMMA EnteredIsRecorded ==
    ASSUME TypeOK
    PROVE  /\ Ledger!Entered = Recorded
           /\ \A o \in Recorded : /\ LedgerEntry(disk.operations[o]) \in Ledger!Entries
                                  /\ LedgerEntry(disk.operations[o]).key
                                        = disk.operations[o].key
                                  /\ LedgerEntry(disk.operations[o]).state
                                        = disk.operations[o].state
  <1>1. ASSUME NEW rec \in Records
        PROVE  /\ LedgerEntry(rec) = [key |-> rec.key, state |-> rec.state]
               /\ LedgerEntry(rec) \in Ledger!Entries
    BY <1>1 DEF LedgerEntry, Ledger!Entries, Records, OperationStates
  <1>2. \A rec \in Records : LedgerEntry(rec) # None
    BY <1>1, NoneIsNoEntry
  <1>3. QED
    BY <1>1, <1>2 DEF TypeOK, RecordMaps, Recorded, Ledger!Entered, LedgerEntry
\* A step that leaves both files alone stutters; so does one that writes a
\* record again.
LEMMA LedgerStutters ==
    ASSUME disk'.operations = disk.operations,
           disk'.snapshot.applied = disk.snapshot.applied
    PROVE  UNCHANGED Ledger!vars
  BY DEF Ledger!vars

\* Writing the record of a handler that has none yet enters it.
LEMMA WriteEnters ==
    ASSUME Inv, "participant" \in Services, PersistRunning \/ Settle, Untouched
    PROVE  Ledger!Next
  <1> DEFINE rec == handler.record
             e == LedgerEntry(rec)
  <1>1. handler.op \in Ops /\ handler.op \notin Ledger!Entered /\ rec \in Records
    BY RecordWritten, EnteredIsRecorded DEF Inv, Untouched, Recorded, Busy
  <1>2. e \in Ledger!Entries /\ e.key = rec.key
    BY <1>1 DEF LedgerEntry, Ledger!Entries, Records, OperationStates
  <1>3. e.key = NoKey \/ \A o \in Ledger!Entered : LedgerEntry(disk.operations[o]).key # e.key
    <2>1. handler.stage # "idle"
      BY DEF PersistRunning, Settle
    <2>2. rec.key = NoKey \/ \A o \in Recorded : disk.operations[o].key # rec.key
      BY <2>1 DEF Inv, OneHolder, Holders, Recorded, Untouched
    <2>3. QED
      BY <1>2, <2>2, EnteredIsRecorded DEF Inv
  <1>4. [o \in Ops |-> LedgerEntry(disk.operations[o])]'
            = [[o \in Ops |-> LedgerEntry(disk.operations[o])] EXCEPT ![handler.op] = e]
    <2>1. \A o \in Ops : disk'.operations[o] = IF o = handler.op THEN rec
                                               ELSE disk.operations[o]
      BY RecordWritten DEF Inv
    <2>2. QED
      BY <2>1
  <1>5. UNCHANGED disk.snapshot.applied
    BY RecordWritten DEF Inv
  <1>6. Ledger!Enter(handler.op, e)
    BY <1>1, <1>3, <1>4, <1>5 DEF Ledger!Enter, Ledger!Entered
  <1>7. QED
    BY <1>1, <1>2, <1>6 DEF Ledger!Next

\* The final record of an operation that was called settles it.
LEMMA WriteSettles ==
    ASSUME Inv, CurrentBases, ~CallerBases, Settle, Called
    PROVE  Ledger!Next
  <1> DEFINE rec == handler.record
  <1>1. /\ handler.op \in Ops /\ rec \in Records /\ rec.state # "running"
        /\ disk.operations[handler.op] = [rec EXCEPT !.state = "running"]
    BY RecordWritten DEF Inv, FinalInv, Settle, Called, Busy
  <1>2. rec.state \in {"failed", "succeeded"}
    BY <1>1 DEF Records, OperationStates
  <1>3. rec.state = "succeeded" => handler.op \in disk.snapshot.applied
    BY DEF Inv, DurableInv, CurrentBases, Settle, Called
  <1>4. handler.op \in Recorded
    BY DEF Inv, EffectsInv, Called
  <1>5. LedgerEntry(disk.operations[handler.op]) = [key |-> rec.key, state |-> "running"]
    BY <1>1, <1>4 DEF Recorded, LedgerEntry, Records
  <1>6. LedgerEntry(rec) = [key |-> rec.key, state |-> rec.state]
    BY <1>1 DEF LedgerEntry
  <1>7. [o \in Ops |-> LedgerEntry(disk.operations[o])]'
            = [[o \in Ops |-> LedgerEntry(disk.operations[o])]
                    EXCEPT ![handler.op].state = rec.state]
    <2>1. \A o \in Ops : disk'.operations[o] = IF o = handler.op THEN rec
                                               ELSE disk.operations[o]
      BY RecordWritten DEF Inv
    <2>2. QED
      BY <1>1, <1>5, <1>6, <2>1
  <1>8. UNCHANGED disk.snapshot.applied
    BY RecordWritten DEF Inv
  <1>9. Ledger!Settle(handler.op, rec.state)
    BY <1>1, <1>2, <1>3, <1>4, <1>5, <1>7, <1>8, EnteredIsRecorded
       DEF Inv, Ledger!Settle
  <1>10. QED
    BY <1>1, <1>2, <1>9 DEF Ledger!Next

\* What is saved has everything the file had, and only recorded operations.
LEMMA SavePublishes ==
    ASSUME Inv, CurrentBases, ~CallerBases, SaveSnapshot
    PROVE  Ledger!Next
  <1>1. disk'.operations = disk.operations /\ disk'.snapshot = memory.snapshot
    BY DEF SaveSnapshot, Inv, TypeOK
  <1>2. memory.snapshot.applied \subseteq Recorded
    BY DEF Inv, EffectsInv
  <1>3. disk.snapshot.applied \subseteq memory.snapshot.applied
    BY DEF Inv, DurableInv, CurrentBases, SaveSnapshot
  <1>4. Ledger!Publish
    BY <1>1, <1>2, <1>3, EnteredIsRecorded DEF Inv, Ledger!Publish
  <1>5. QED
    BY <1>4 DEF Ledger!Next

LEMMA LedgerInit == Init => Ledger!Init
  BY DEF Init, Ledger!Init, EmptySnapshot, NoRecords, LedgerEntry

LEMMA LedgerStep ==
    ASSUME "participant" \in Services, ~CallerBases, Inv, CurrentBases, [Next]_vars
    PROVE  [Ledger!Next]_(Ledger!vars)
  <1>1. CASE PersistRunning
    BY <1>1, WriteEnters DEF PersistRunning, Inv, HandlerInv
  <1>2. CASE Settle
    <2>1. Untouched \/ Called
      BY <1>2 DEF Settle, Inv, HandlerInv
    <2>2. QED
      BY <1>2, <2>1, WriteEnters, WriteSettles
  <1>3. CASE SaveSnapshot
    BY <1>3, SavePublishes
  <1>4. CASE ~PersistRunning /\ ~Settle /\ ~SaveSnapshot
    <2>1. disk'.operations = disk.operations
      BY <1>4, RecordsKept DEF Inv
    <2>2. disk'.snapshot = disk.snapshot
      <3>1. CASE Submit
        BY <3>1, SubmitEffect DEF Inv
      <3>2. CASE ReadSnapshot \/ CallBackend \/ Restart \/ UNCHANGED vars
        BY <3>2 DEF ReadSnapshot, CallBackend, Restart, vars
      <3>3. CASE Crash \/ StoreRaises
        BY <3>3 DEF Crash, StoreRaises, Inv, TypeOK
      <3>4. QED
        BY <1>4, <3>1, <3>2, <3>3 DEF Next, Progress
    <2>3. QED
      BY <2>1, <2>2, LedgerStutters
  <1>5. QED
    BY <1>1, <1>2, <1>3, <1>4

\* The files on disk are the ledger clients rely on, through every crash,
\* restart and torn or raising write.
THEOREM ImplementsLedgerCorrect ==
    ASSUME "participant" \in Services, ~CallerBases PROVE Spec => ImplementsLedger
  <1>1. Init => CurrentBases
    BY DEF Init, CurrentBases, Idle
  <1>2. Inv => TypeOK
    BY DEF Inv
  <1>3. Spec => []CurrentBases
    BY InvCorrect, <1>1, <1>2, CurrentBasesNext, PTL DEF Spec
  <1>4. Inv /\ CurrentBases /\ [Next]_vars => [Ledger!Next]_(Ledger!vars)
    BY LedgerStep
  <1>5. QED
    BY InvCorrect, <1>3, <1>4, LedgerInit, PTL DEF Spec, ImplementsLedger, Ledger!Spec
=============================================================================
