------------------------ MODULE ModuleRegistryProofs ------------------------
(***************************************************************************)
(* Theorems about ModuleRegistry, for every set of processes, scenarios,   *)
(* files, versions and signers, any trust policy, any number of edits,     *)
(* pushes and crashes, and either order of the members of a bundle.        *)
(***************************************************************************)
EXTENDS ModuleRegistry, NumberLemmas, SequenceTheorems, TLAPS

Members == DOMAIN Empty
Imports == UNION {ToSet(s) : s \in Scenarios}

\* What an import can be found to be, now.
LocalFounds == {Found(None, r, r, None) : r \in Roots}
OciFounds == {Found(m, m.bundle, m.bundle.root, m.signer) : m \in registry.pushed}
\* The records resolve can write, now.
LockRecords ==
    {Record(import, f) : import \in {i \in Imports : i.class = "local"}, f \in LocalFounds}
    \cup {Record(import, f) : import \in {i \in Imports : i.class = "oci"}, f \in OciFounds}
\* What a load can have read.
Loaded == [root : Roots \cup {None, Torn}, part : Parts \cup {None, Torn}]

\* The files, the registry, the lockfile and the cache.
StoresOK ==
    /\ tree \in Trees
    /\ registry.pushed \subseteq Manifests
    /\ registry = [tags |-> registry.tags, pushed |-> registry.pushed]
    /\ registry.tags \in [Versions -> registry.pushed \cup {None}]
    /\ lock \in {None, Torn} \/ lock \in Seq(LockRecords)
    /\ cache \in [Manifests -> Loaded]
    /\ \A m \in Manifests, f \in Members : cache[m][f] \in {None, Torn, m.bundle[f]}
    /\ verified \subseteq Scenarios /\ scars \subseteq registry.pushed

\* A process is idle or at a stage of a command.
FrameOK(p) ==
    /\ proc[p] = [k \in DOMAIN Idle |-> proc[p][k]]
    /\ proc[p].cmd \in Commands /\ proc[p].stage \in Stages
    /\ proc[p].locks \in BOOLEAN /\ proc[p].open \in BOOLEAN
    /\ proc[p].open => proc[p].stage = "extract"
    /\ proc[p].stage = "idle" => proc[p] = Idle
    /\ proc[p].cmd = "resolve" \/ proc[p].stage = "write" => ~proc[p].locks
    /\ proc[p].cmd = "load" /\ proc[p].stage # "idle" => proc[p].locks
    /\ proc[p].lock # None => proc[p].lock \in Seq(LockRecords)
    /\ proc[p].out \in Seq(IF proc[p].locks THEN Loaded ELSE LockRecords)
    /\ proc[p].stage # "idle" => /\ proc[p].scenario \in Scenarios
                                 /\ Len(proc[p].out) <= Len(proc[p].scenario)
    /\ proc[p].stage \notin {"idle", "compare", "write"} =>
          Len(proc[p].out) < Len(proc[p].scenario)

\* What was found for the import a process is at: a manifest, which is the one
\* the import is locked to if it is, or the file in the tree.
OfRegistry(p) ==
    /\ Effective(p).class = "oci" /\ proc[p].got \in OciFounds
    /\ Locked(p) # None => Locked(p).found.manifest = proc[p].got.manifest
OfTree(p) == Effective(p).class = "local" /\ proc[p].got \in LocalFounds
FoundOK(p) ==
    /\ proc[p].stage = "fetch" =>
          /\ Effective(p) # None /\ Effective(p).class = "oci"
          /\ \/ "tag" \in DOMAIN proc[p].want /\ proc[p].want.tag \in Versions
             \/ "tag" \notin DOMAIN proc[p].want /\ proc[p].want.manifest \in registry.pushed
    /\ proc[p].stage \in {"extract", "ready"} => Effective(p) # None /\ OfRegistry(p)
    /\ proc[p].stage = "ready" => cache[proc[p].got.manifest].root # None
    /\ proc[p].stage = "extract" =>
          /\ proc[p].left \in {Order, Tail(Order)}
          /\ proc[p].left = Tail(Order) => cache[proc[p].got.manifest][Order[1]] # None
          /\ proc[p].open => cache[proc[p].got.manifest][Head(proc[p].left)] # None
    /\ proc[p].stage \in {"read", "nested"} =>
          /\ proc[p].locks /\ Effective(p) # None
          /\ OfRegistry(p) \/ OfTree(p)
          /\ OfRegistry(p) => cache[proc[p].got.manifest].root # None

\* What a load has read is what its lockfile recorded, as far as LockedLoads
\* promises: of the imports done, and of the import it is at.
AsLocked(records, import, got, disturbed) ==
    LET record == LockRecordFor(records, import)
    IN  record # None =>
          IF import.class = "oci"
          THEN \A f \in DOMAIN Empty : got[f] \in {record.found.content[f], Torn}
          ELSE "files" \notin disturbed => got.root = record.found.content
AllAsLocked(records, scenario, out, disturbed) ==
    records # None =>
        \A i \in DOMAIN out :
            AsLocked(records, Delegated(records, scenario[i]), out[i], disturbed)
LoadsOK(p) ==
    /\ proc[p].locks =>
          AllAsLocked(proc[p].lock, proc[p].scenario, proc[p].out, proc[p].disturbed)
    /\ proc[p].stage = "read" /\ OfTree(p) /\ Locked(p) # None
          /\ "files" \notin proc[p].disturbed => tree.root = Locked(p).found.content
    /\ proc[p].stage = "nested" =>
          /\ proc[p].root \in Roots \cup {None, Torn}
          /\ OfRegistry(p) => proc[p].root \in {proc[p].got.manifest.bundle.root, Torn}
          /\ OfTree(p) /\ Locked(p) # None /\ "files" \notin proc[p].disturbed =>
                proc[p].root = Locked(p).found.content

ProcOK(p) == FrameOK(p) /\ FoundOK(p) /\ LoadsOK(p)
LastOK == last.cmd = "load" /\ last.ok =>
              AllAsLocked(last.lock, last.scenario, last.out, last.disturbed)

\* The inductive invariant of the first two theorems.
Inv == /\ StoresOK /\ LastOK
       /\ proc = [p \in Procs |-> proc[p]] /\ \A p \in Procs : ProcOK(p)

\* What a step of others does to a process, and what it leaves in the stores.
Spared(q) ==
    \/ proc'[q] = proc[q] /\ (tree' = tree \/ proc[q].stage = "idle")
    \/ /\ proc[q].stage # "idle"
       /\ tree' = tree \/ "files" \in proc'[q].disturbed
       /\ \E what : proc'[q] = [proc[q] EXCEPT !.disturbed = @ \cup {what}]
Forward ==
    /\ registry.pushed \subseteq registry'.pushed
    /\ \A m \in Manifests, f \in Members : cache[m][f] # None => cache'[m][f] # None
-----------------------------------------------------------------------------
(***************************************************************************)
(* Records and the imports they are found for.                             *)
(***************************************************************************)
LEMMA FoundFacts ==
    ASSUME NEW f
    PROVE  /\ f \in OciFounds => /\ f.manifest \in registry.pushed
                                 /\ f.content = f.manifest.bundle
                                 /\ f.id = f.manifest.bundle.root.id
           /\ f \in LocalFounds => f.manifest = None /\ f.content \in Roots
  BY DEF OciFounds, LocalFounds, Found

LEMMA RecordFacts ==
    ASSUME NEW r \in LockRecords
    PROVE  /\ r.source \in {"local", "oci"}
           /\ r.source = "local" => r.found \in LocalFounds
           /\ r.source = "oci" => r.found \in OciFounds
<1>1. PICK import \in Imports, f \in LocalFounds \cup OciFounds :
         /\ r = Record(import, f)
         /\ \/ import.class = "local" /\ f \in LocalFounds
            \/ import.class = "oci" /\ f \in OciFounds
  BY DEF LockRecords
<1>2. r.source = import.class /\ r.found = f
  BY <1>1 DEF Record, Source
<1> QED  BY <1>1, <1>2

LEMMA IsLockRecord ==
    ASSUME NEW import \in Imports, NEW f,
           \/ import.class = "local" /\ f \in LocalFounds
           \/ import.class = "oci" /\ f \in OciFounds
    PROVE  Record(import, f) \in LockRecords
  BY DEF LockRecords

LEMMA ScenarioFacts ==
    ASSUME NEW s \in Scenarios
    PROVE  /\ Len(s) \in Nat /\ Len(s) > 0 /\ DOMAIN s = 1 .. Len(s)
           /\ \A i \in 1 .. Len(s) : s[i] \in Imports
<1>1. s \in Seq(ToSet(s)) /\ s # <<>>
  BY ScenariosOK
<1>2. Len(s) \in Nat /\ DOMAIN s = 1 .. Len(s)
  BY <1>1, LenProperties
<1>3. Len(s) > 0
  BY <1>1, <1>2, EmptySeq
<1>4. \A i \in 1 .. Len(s) : s[i] \in ToSet(s)
  BY <1>2 DEF ToSet
<1> QED  BY <1>2, <1>3, <1>4 DEF Imports

LEMMA ImportFacts ==
    ASSUME NEW import \in Imports
    PROVE  /\ import.class \in {"local", "oci", "locked"} /\ import # None
           /\ DOMAIN import = {"class", "of", "ns", "versions", "params", "digest"}
<1>1. PICK s \in Scenarios : import \in ToSet(s)
  BY DEF Imports
<1>2. PICK i \in DOMAIN s : import = s[i]
  BY <1>1 DEF ToSet
<1> QED  BY <1>2, ScenariosOK

\* Both look-ups pick a record of the lockfile.
LEMMA LockRecordFound ==
    ASSUME NEW records, records # None => records \in Seq(LockRecords), NEW import,
           LockRecordFor(records, import) # None
    PROVE  /\ LockRecordFor(records, import) \in LockRecords
           /\ LockRecordFor(records, import).source = Source(import)
<1> DEFINE hits == {i \in DOMAIN records : /\ records[i].source = Source(import)
                                           /\ records[i].ns = import.ns
                                           /\ records[i].requested = import.versions}
<1>1. records # None /\ hits # {} /\ LockRecordFor(records, import) = records[Min(hits)]
  BY DEF LockRecordFor
<1>2. DOMAIN records = 1 .. Len(records) /\ Len(records) \in Nat
  BY <1>1, LenProperties
<1>3. Min(hits) \in hits
  <2>1. hits \in SUBSET Nat
    BY <1>2
  <2> HIDE DEF hits
  <2> QED  BY <1>1, <2>1, MinIsLeast
<1>4. records[Min(hits)] \in LockRecords
  BY <1>1, <1>2, <1>3, ElementOfSeq
<1> QED  BY <1>1, <1>3, <1>4

LEMMA DelegatedFacts ==
    ASSUME NEW records, records # None => records \in Seq(LockRecords),
           NEW import \in Imports, Delegated(records, import) # None
    PROVE  /\ Delegated(records, import).class \in {"local", "oci"}
           /\ import.class # "locked" => Delegated(records, import) = import
           /\ records = None => import.class # "locked"
<1>1. CASE import.class # "locked"
  BY <1>1, ImportFacts DEF Delegated
<1>2. CASE import.class = "locked"
  <2> DEFINE hits == {i \in DOMAIN records : records[i].source = import.of}
             r == records[Min(hits)]
  <2>1. /\ records # None /\ hits # {}
        /\ Delegated(records, import) =
             [import EXCEPT
                !.class = r.source, !.versions = r.requested,
                !.ns = IF @ = "" THEN r.ns ELSE @,
                !.digest = IF @ = None THEN r.found.content ELSE @]
    BY <1>2 DEF Delegated
  <2>2. DOMAIN records = 1 .. Len(records) /\ Len(records) \in Nat
    BY <2>1, LenProperties
  <2>3. Min(hits) \in hits
    <3>1. hits \in SUBSET Nat
      BY <2>2
    <3> HIDE DEF hits
    <3> QED  BY <2>1, <3>1, MinIsLeast
  <2>4. r \in LockRecords
    BY <2>1, <2>2, <2>3, ElementOfSeq
  <2>5. r.source \in {"local", "oci"}
    BY <2>4, RecordFacts
  <2>6. Delegated(records, import).class = r.source
    <3> HIDE DEF r
    <3> QED  BY <2>1, ImportFacts
  <2> QED  BY <1>2, <2>1, <2>5, <2>6
<1> QED  BY <1>1, <1>2
-----------------------------------------------------------------------------
(***************************************************************************)
(* Steps of others: pushing adds records, and a process that is spared     *)
(* stands where it stood.                                                  *)
(***************************************************************************)
LEMMA RecordsGrow ==
    ASSUME registry.pushed \subseteq registry'.pushed
    PROVE  /\ OciFounds \subseteq OciFounds' /\ LocalFounds' = LocalFounds
           /\ LockRecords \subseteq LockRecords'
           /\ Seq(LockRecords) \subseteq Seq(LockRecords')
<1>1. OciFounds \subseteq OciFounds' /\ LocalFounds' = LocalFounds
  BY DEF OciFounds, LocalFounds, Found
<1>2. LockRecords \subseteq LockRecords'
  <2>1. Imports' = Imports
    BY DEF Imports
  <2>2. SUFFICES ASSUME NEW r \in LockRecords PROVE r \in LockRecords'
    OBVIOUS
  <2>3. PICK import \in Imports, f \in LocalFounds \cup OciFounds :
           /\ r = Record(import, f)
           /\ \/ import.class = "local" /\ f \in LocalFounds
              \/ import.class = "oci" /\ f \in OciFounds
    BY DEF LockRecords
  <2> QED  BY <1>1, <2>1, <2>3 DEF LockRecords
<1> QED  BY <1>1, <1>2, SeqMonotonic

\* The import a process is at depends on its task alone.
LEMMA SameTask ==
    ASSUME NEW p, proc'[p].lock = proc[p].lock, proc'[p].locks = proc[p].locks,
           proc'[p].scenario = proc[p].scenario, proc'[p].out = proc[p].out
    PROVE  Effective(p)' = Effective(p) /\ Locked(p)' = Locked(p)
  BY DEF Effective, Locked, InUse, Import, Delegated, LockRecordFor, Source

\* All that a task and a stage consist of, but what disturbed them.
SameFrame(q) ==
    /\ proc'[q] = [k \in DOMAIN Idle |-> proc'[q][k]]
    /\ proc'[q].cmd = proc[q].cmd /\ proc'[q].scenario = proc[q].scenario
    /\ proc'[q].stage = proc[q].stage /\ proc'[q].lock = proc[q].lock
    /\ proc'[q].locks = proc[q].locks /\ proc'[q].out = proc[q].out
    /\ proc'[q].want = proc[q].want /\ proc'[q].got = proc[q].got
    /\ proc'[q].left = proc[q].left /\ proc'[q].open = proc[q].open
    /\ proc'[q].root = proc[q].root /\ proc'[q].sure = proc[q].sure

\* A disturbance more takes nothing away from what was read.
LEMMA AsLockedStays ==
    ASSUME NEW records, NEW scenario, NEW out, NEW d, NEW e,
           AllAsLocked(records, scenario, out, d), "files" \notin e => "files" \notin d
    PROVE  AllAsLocked(records, scenario, out, e)
<1>1. ASSUME NEW import, NEW got, AsLocked(records, import, got, d)
      PROVE  AsLocked(records, import, got, e)
  BY <1>1 DEF AsLocked
<1> QED  BY <1>1 DEF AllAsLocked

LEMMA SparedSame ==
    ASSUME NEW q, FrameOK(q), Spared(q)
    PROVE  /\ SameFrame(q)
           /\ "files" \notin proc'[q].disturbed => "files" \notin proc[q].disturbed
           /\ proc[q].stage # "idle" /\ "files" \notin proc'[q].disturbed => tree' = tree
           /\ proc[q].stage = "idle" => proc'[q] = Idle
<1>1. CASE proc'[q] = proc[q]
  BY <1>1 DEF FrameOK, Spared, SameFrame
<1>2. CASE proc'[q] # proc[q]
  <2>1. proc[q] = [k \in DOMAIN Idle |-> proc[q][k]] /\ proc[q].stage # "idle"
    BY <1>2 DEF FrameOK, Spared
  <2> QED  BY <1>2, <2>1 DEF Spared, Idle, SameFrame
<1> QED  BY <1>1, <1>2

LEMMA SparedFrame ==
    ASSUME NEW q, FrameOK(q), Spared(q), Forward PROVE FrameOK(q)'
<1>1. Seq(LockRecords) \subseteq Seq(LockRecords')
  BY RecordsGrow DEF Forward
<1>2. SameFrame(q)
  BY SparedSame
<1>3. proc'[q].lock # None => proc'[q].lock \in Seq(LockRecords')
  BY <1>1, <1>2 DEF FrameOK, SameFrame
<1>4. proc'[q].out \in Seq(IF proc'[q].locks THEN Loaded ELSE LockRecords')
  <2>1. CASE proc[q].locks
    BY <1>2, <2>1 DEF FrameOK, SameFrame
  <2>2. CASE ~proc[q].locks
    BY <1>1, <1>2, <2>2 DEF FrameOK, SameFrame
  <2> QED  BY <2>1, <2>2
<1>5. Loaded' = Loaded
  BY DEF Loaded
<1> QED  BY <1>2, <1>3, <1>4, <1>5, SparedSame DEF FrameOK, SameFrame

LEMMA SparedTask ==
    ASSUME NEW q, FrameOK(q), Spared(q)
    PROVE  /\ Effective(q)' = Effective(q) /\ Locked(q)' = Locked(q)
           /\ OfTree(q)' = OfTree(q)
<1>1. Effective(q)' = Effective(q) /\ Locked(q)' = Locked(q)
  BY SparedSame, SameTask DEF SameFrame
<1> QED  BY <1>1, SparedSame DEF OfTree, SameFrame, LocalFounds, Found

LEMMA SparedOK ==
    ASSUME NEW q, ProcOK(q), Spared(q), StoresOK, Forward PROVE ProcOK(q)'
<1>0. FrameOK(q) /\ FoundOK(q) /\ LoadsOK(q) /\ SameFrame(q)
  BY SparedSame DEF ProcOK
<1>1. FrameOK(q)'
  BY <1>0, SparedFrame
<1>2. OciFounds \subseteq OciFounds'
  BY RecordsGrow DEF Forward
<1>3. OfRegistry(q) => OfRegistry(q)' /\ proc[q].got.manifest \in Manifests
  <2>1. SUFFICES ASSUME OfRegistry(q)
                 PROVE  OfRegistry(q)' /\ proc[q].got.manifest \in Manifests
    OBVIOUS
  <2>2. proc[q].got.manifest \in Manifests
    BY <2>1, FoundFacts DEF OfRegistry, StoresOK
  <2> QED  BY <1>0, <1>2, <2>1, <2>2, SparedTask DEF OfRegistry, SameFrame
<1>4. OfTree(q)' = OfTree(q) /\ Effective(q)' = Effective(q) /\ Locked(q)' = Locked(q)
  BY <1>0, SparedTask
<1>5. OfRegistry(q) \/ OfTree(q) => OfRegistry(q)' = OfRegistry(q)
  <2>1. Effective(q).class = "oci" => ~OfTree(q)
    BY DEF OfTree
  <2> QED  BY <1>3, <1>4, <2>1 DEF OfRegistry
<1>6. OfRegistry(q) => /\ cache[proc[q].got.manifest].root # None =>
                            cache'[proc[q].got.manifest].root # None
                       /\ \A f \in Members : cache[proc[q].got.manifest][f] # None =>
                            cache'[proc[q].got.manifest][f] # None
  BY <1>3 DEF Forward, Members, Empty
<1>7. FoundOK(q)'
  <2>1. proc[q].stage = "extract" =>
            {Order[1], Head(Order), Head(Tail(Order))} \subseteq Members
    BY OrderOK DEF Members, Empty
  <2>2. (proc[q].stage = "extract" =>
          /\ proc[q].left \in {Order, Tail(Order)}
          /\ proc[q].left = Tail(Order) => cache[proc[q].got.manifest][Order[1]] # None
          /\ proc[q].open => cache[proc[q].got.manifest][Head(proc[q].left)] # None)'
    <3>1. SUFFICES ASSUME proc[q].stage = "extract"
                   PROVE  (/\ proc[q].left \in {Order, Tail(Order)}
                           /\ proc[q].left = Tail(Order) =>
                                cache[proc[q].got.manifest][Order[1]] # None
                           /\ proc[q].open =>
                                cache[proc[q].got.manifest][Head(proc[q].left)] # None)'
      BY <1>0 DEF SameFrame
    <3>2. OfRegistry(q) /\ Order[1] \in Members /\ Head(proc[q].left) \in Members
      BY <1>0, <2>1, <3>1 DEF FoundOK
    <3> QED  BY <1>0, <1>6, <3>1, <3>2 DEF FoundOK, SameFrame
  <2>3. (proc[q].stage = "fetch" =>
          /\ Effective(q) # None /\ Effective(q).class = "oci"
          /\ \/ "tag" \in DOMAIN proc[q].want /\ proc[q].want.tag \in Versions
             \/ "tag" \notin DOMAIN proc[q].want /\ proc[q].want.manifest \in registry.pushed)'
    BY <1>0, <1>4 DEF FoundOK, SameFrame, Forward
  <2> QED  BY <1>0, <1>3, <1>4, <1>5, <1>6, <2>2, <2>3 DEF FoundOK, SameFrame
<1>8. LoadsOK(q)'
  <2>1. (proc[q].locks =>
           AllAsLocked(proc[q].lock, proc[q].scenario, proc[q].out, proc[q].disturbed))'
    BY <1>0, SparedSame, AsLockedStays DEF LoadsOK, SameFrame
  <2> QED  BY <1>0, <1>3, <1>4, <1>5, <2>1, SparedSame DEF LoadsOK, SameFrame, FoundOK
<1> QED  BY <1>1, <1>7, <1>8 DEF ProcOK
-----------------------------------------------------------------------------
(***************************************************************************)
(* Steps of a process itself.                                              *)
(***************************************************************************)
LEMMA EffectiveFacts ==
    ASSUME NEW p, FrameOK(p), proc[p].stage \notin {"idle", "compare", "write"}
    PROVE  /\ Import(p) \in Imports
           /\ Effective(p) # None =>
                /\ Effective(p).class \in {"local", "oci"}
                /\ ~proc[p].locks => Effective(p) = Import(p)
           /\ Locked(p) # None =>
                Locked(p) \in LockRecords /\ Locked(p).source = Source(Effective(p))
<1>1. Import(p) \in Imports
  <2>1. proc[p].scenario \in Scenarios /\ Len(proc[p].out) < Len(proc[p].scenario)
    BY DEF FrameOK
  <2>2. Len(proc[p].out) \in Nat
    BY LenProperties DEF FrameOK
  <2> QED  BY <2>1, <2>2, ScenarioFacts DEF Import
<1>2. InUse(p) # None => InUse(p) \in Seq(LockRecords)
  BY DEF InUse, FrameOK
<1>3. ~proc[p].locks => InUse(p) = None
  BY DEF InUse
<1> QED  BY <1>1, <1>2, <1>3, DelegatedFacts, LockRecordFound DEF Effective, Locked

LEMMA StoresKept ==
    ASSUME StoresOK, UNCHANGED <<tree, registry, lock, cache, verified, scars>>
    PROVE  StoresOK' /\ Forward
<1>1. LockRecords' = LockRecords /\ Loaded' = Loaded
  BY DEF LockRecords, OciFounds, LocalFounds, Found, Record, Imports, Loaded
<1> QED  BY <1>1 DEF StoresOK, Forward

\* A step is sound if it is for the process that takes it, and spares the others.
LEMMA Combine ==
    ASSUME Inv, NEW p \in Procs, StoresOK', LastOK', Forward,
           proc' = [q \in Procs |-> proc'[q]], \A q \in Procs \ {p} : Spared(q), ProcOK(p)'
    PROVE  Inv'
  BY SparedOK DEF Inv

LEMMA OwnStep ==
    ASSUME Inv, NEW p \in Procs, NEW frame, proc' = [proc EXCEPT ![p] = frame],
           UNCHANGED tree, StoresOK', LastOK', Forward, ProcOK(p)'
    PROVE  Inv'
<1>1. proc' = [q \in Procs |-> proc'[q]]
  BY DEF Inv
<1>2. \A q \in Procs \ {p} : Spared(q)
  BY DEF Inv, Spared
<1> QED  BY <1>1, <1>2, Combine

LEMMA IdleOK ==
    ASSUME NEW p
    PROVE  /\ proc[p] = Idle => ProcOK(p)
           /\ proc'[p] = Idle => ProcOK(p)'
<1>0. /\ Idle = [k \in DOMAIN Idle |-> Idle[k]]
      /\ Idle.cmd = "load" /\ Idle.stage = "idle" /\ Idle.lock = None
      /\ Idle.locks = FALSE /\ Idle.open = FALSE /\ Idle.out = <<>>
  BY DEF Idle
<1>1. <<>> \in Seq(LockRecords) /\ <<>> \in Seq(LockRecords')
  BY EmptySeq
<1>2. (proc[p] = Idle => FrameOK(p)) /\ (proc'[p] = Idle => FrameOK(p)')
  BY <1>0, <1>1 DEF FrameOK, Commands, Stages
<1>3. (proc[p] = Idle => FoundOK(p)) /\ (proc'[p] = Idle => FoundOK(p)')
  BY <1>0 DEF FoundOK
<1>4. (proc[p] = Idle => LoadsOK(p)) /\ (proc'[p] = Idle => LoadsOK(p)')
  BY <1>0 DEF LoadsOK
<1> QED  BY <1>2, <1>3, <1>4 DEF ProcOK

\* A command ends, well or not.
LEMMA EndStep ==
    ASSUME Inv, NEW p \in Procs, proc' = [proc EXCEPT ![p] = Idle], StoresOK', Forward,
           UNCHANGED tree, LastOK'
    PROVE  Inv'
<1>1. ProcOK(p)'
  <2>1. proc'[p] = Idle
    BY DEF Inv
  <2> QED  BY <2>1, IdleOK
<1> QED  BY <1>1, OwnStep

LEMMA EndedFacts ==
    ASSUME NEW p
    PROVE  /\ Ended(p).cmd = proc[p].cmd /\ Ended(p).ok = TRUE
           /\ Ended(p).lock = proc[p].lock /\ Ended(p).scenario = proc[p].scenario
           /\ Ended(p).out = proc[p].out /\ Ended(p).disturbed = proc[p].disturbed
  BY DEF Ended, Nothing, Idle

LEMMA FailedFacts ==
    ASSUME NEW p, NEW causes, FailOver(p, causes)
    PROVE  /\ last'.cmd = proc[p].cmd /\ last'.ok = FALSE /\ last'.sure = proc[p].sure
           /\ last'.disturbed = proc[p].disturbed /\ last'.causes = causes
  BY DEF FailOver, Nothing

LEMMA FailOverStep ==
    ASSUME Inv, NEW p \in Procs, NEW causes, FailOver(p, causes),
           UNCHANGED <<tree, registry>>
    PROVE  Inv'
<1>1. LastOK'
  BY FailedFacts DEF LastOK
<1>2. StoresOK' /\ Forward
  BY StoresKept DEF FailOver, Inv
<1> QED  BY <1>1, <1>2, EndStep DEF FailOver

LEMMA FailStep ==
    ASSUME Inv, NEW p \in Procs, Fail(p), UNCHANGED <<tree, registry>>
    PROVE  Inv'
  BY FailOverStep DEF Fail
-----------------------------------------------------------------------------
(***************************************************************************)
(* The author and the registry.                                            *)
(***************************************************************************)
LEMMA DisturbSpares ==
    ASSUME NEW what, Disturb(what), Inv, tree' = tree \/ what = "files"
    PROVE  proc' = [q \in Procs |-> proc'[q]] /\ \A q \in Procs : Spared(q)
<1>1. proc' = [q \in Procs |-> proc'[q]]
  BY DEF Disturb
<1>2. SUFFICES ASSUME NEW q \in Procs PROVE Spared(q)
  BY <1>1
<1>3. CASE proc[q].stage = "idle"
  BY <1>3 DEF Disturb, Spared
<1>4. CASE proc[q].stage # "idle"
  <2>1. proc'[q] = [proc[q] EXCEPT !.disturbed = @ \cup {what}]
    BY <1>4 DEF Disturb
  <2>2. proc[q] = [k \in DOMAIN Idle |-> proc[q][k]]
    BY DEF Inv, ProcOK, FrameOK
  <2>3. what \in proc'[q].disturbed
    BY <2>1, <2>2 DEF Idle
  <2> QED  BY <1>4, <2>1, <2>3 DEF Spared
<1> QED  BY <1>3, <1>4

LEMMA AuthorStep ==
    ASSUME Inv, NEW what, Disturb(what), tree' = tree \/ what = "files",
           StoresOK', Forward, UNCHANGED last
    PROVE  Inv'
<1>1. LastOK'
  BY DEF Inv, LastOK, AllAsLocked, AsLocked
<1> QED  BY <1>1, DisturbSpares, SparedOK DEF Inv

LEMMA ManifestFacts ==
    ASSUME NEW m \in Manifests
    PROVE  /\ m.bundle \in Trees /\ m.signer \in Signers
           /\ m.bundle.root \in Roots /\ m.bundle.part \in Parts
           /\ m.bundle.root.version \in Versions
           /\ m # None
           /\ \A f \in Members : m.bundle[f] \notin {None, Torn}
  BY RootsOK, SentinelsOK DEF Manifests, Trees, Members, Empty

LEMMA EditStep == ASSUME Inv, NEW new \in Trees, Edit(new) PROVE Inv'
<1>1. LockRecords' = LockRecords /\ Loaded' = Loaded
  BY DEF Edit, LockRecords, OciFounds, LocalFounds, Found, Record, Imports, Loaded
<1>2. StoresOK' /\ Forward
  BY <1>1 DEF Inv, StoresOK, Edit, Forward
<1> QED  BY <1>2, AuthorStep DEF Edit

LEMMA PushStep ==
    ASSUME Inv, registry.pushed \subseteq registry'.pushed,
           registry'.pushed \subseteq Manifests,
           registry' = [tags |-> registry'.tags, pushed |-> registry'.pushed],
           registry'.tags \in [Versions -> registry'.pushed \cup {None}],
           Disturb("registry"), UNCHANGED <<tree, lock, cache, last, verified, scars>>
    PROVE  Inv'
<1>1. Seq(LockRecords) \subseteq Seq(LockRecords') /\ Loaded' = Loaded
  BY RecordsGrow DEF Loaded
<1>2. StoresOK' /\ Forward
  BY <1>1 DEF Inv, StoresOK, Forward
<1> QED  BY <1>2, AuthorStep

LEMMA PublishStep == ASSUME Inv, NEW signer \in Signers, Publish(signer) PROVE Inv'
<1> DEFINE m == [bundle |-> tree, signer |-> signer]
<1>1. m \in Manifests /\ m.bundle.root.version \in Versions
  <2>1. m \in Manifests
    BY DEF Manifests, Inv, StoresOK
  <2> QED  BY <2>1, ManifestFacts
<1>2. /\ registry' = Pushed(m) /\ Disturb("registry")
      /\ UNCHANGED <<tree, lock, cache, last, verified, scars>>
  BY DEF Publish
<1> HIDE DEF m
<1>3. /\ registry'.pushed = registry.pushed \cup {m}
      /\ registry'.tags = [registry.tags EXCEPT ![m.bundle.root.version] = m]
      /\ registry' = [tags |-> registry'.tags, pushed |-> registry'.pushed]
  BY <1>2 DEF Pushed
<1> QED  BY <1>1, <1>2, <1>3, PushStep DEF Inv, StoresOK

LEMMA RetagStep ==
    ASSUME Inv, NEW v \in Versions, NEW m \in registry.pushed \cup {None}, Retag(v, m)
    PROVE  Inv'
<1>1. /\ registry'.pushed = registry.pushed
      /\ registry'.tags = [registry.tags EXCEPT ![v] = m]
      /\ registry' = [tags |-> registry'.tags, pushed |-> registry'.pushed]
  BY DEF Retag, Inv, StoresOK
<1> QED  BY <1>1, PushStep DEF Retag, Inv, StoresOK
-----------------------------------------------------------------------------
(***************************************************************************)
(* A command, from its start to the choice of what an import is.           *)
(***************************************************************************)
LEMMA StartStep ==
    ASSUME Inv, NEW p \in Procs, NEW cmd \in Jobs[p], NEW scenario \in Scenarios,
           Start(p, cmd, scenario)
    PROVE  Inv'
<1>1. cmd \in Commands
  BY JobsOK DEF Commands
<1>2. StoresOK' /\ Forward
  BY StoresKept DEF Inv, Start
<1>3. LastOK'
  <2>1. CASE last' = Nothing
    BY <2>1 DEF LastOK, AllAsLocked, Nothing
  <2>2. CASE last' = [Nothing EXCEPT !.cmd = cmd, !.scenario = scenario, !.ok = FALSE]
    BY <2>2 DEF LastOK, Nothing
  <2> QED  BY <2>1, <2>2 DEF Start
<1>4. CASE UNCHANGED proc
  <2>1. proc' = [proc EXCEPT ![p] = proc[p]] /\ Spared(p)
    BY <1>4 DEF Inv, Spared, Start
  <2>2. ProcOK(p)'
    BY <1>2, <2>1, SparedOK DEF Inv
  <2> QED  BY <1>2, <1>3, <2>1, <2>2, OwnStep DEF Start
<1>5. CASE /\ proc' = [proc EXCEPT ![p] = Begin(cmd, scenario, cmd = "load")]
           /\ cmd # "resolve" => lock # Torn
  <2> DEFINE frame == Begin(cmd, scenario, cmd = "load")
  <2>1. /\ frame = [k \in DOMAIN Idle |-> frame[k]]
        /\ frame.cmd = cmd /\ frame.stage = "resolve" /\ frame.locks = (cmd = "load")
        /\ frame.open = FALSE /\ frame.out = <<>> /\ frame.scenario = scenario
        /\ frame.lock # None => frame.lock \in Seq(LockRecords)
    BY <1>5, ZenonT(60) DEF Begin, Idle, Inv, StoresOK
  <2>2. proc'[p] = frame
    BY <1>5 DEF Inv
  <2> HIDE DEF frame
  <2>3. FrameOK(p)'
    <3>1. LockRecords' = LockRecords
      BY RecordsGrow DEF Start, LockRecords, OciFounds, LocalFounds, Record, Found, Imports
    <3>2. <<>> \in Seq(IF frame.locks THEN Loaded ELSE LockRecords) /\ Len(<<>>) = 0
      BY EmptySeq
    <3>3. Len(scenario) \in Nat /\ Len(scenario) > 0
      BY ScenarioFacts
    <3>4. /\ frame.locks \in BOOLEAN
          /\ frame.locks <=> (frame.cmd = "load")
          /\ Loaded' = Loaded
      BY <2>1 DEF Loaded
    <3>5. (proc[p].out \in Seq(IF proc[p].locks THEN Loaded ELSE LockRecords))'
      BY <2>1, <2>2, <3>1, <3>2, <3>4
    <3>6. /\ (proc[p] = [k \in DOMAIN Idle |-> proc[p][k]])'
          /\ (proc[p].lock # None => proc[p].lock \in Seq(LockRecords))'
      BY <2>1, <2>2, <3>1
    <3>7. Len(proc'[p].out) = 0 /\ Len(proc'[p].scenario) > 0
          /\ Len(proc'[p].scenario) \in Nat
      BY <2>1, <2>2, <3>2, <3>3
    <3>8. /\ proc'[p].locks \in BOOLEAN /\ proc'[p].open \in BOOLEAN
          /\ proc'[p].stage = "resolve" /\ proc'[p].cmd \in Commands /\ ~proc'[p].open
          /\ proc'[p].cmd = "resolve" => ~proc'[p].locks
          /\ proc'[p].cmd = "load" => proc'[p].locks
          /\ proc'[p].scenario \in Scenarios
      BY <1>1, <2>1, <2>2, <3>4
    <3> QED  BY <3>5, <3>6, <3>7, <3>8 DEF FrameOK, Stages
  <2>4. FoundOK(p)' /\ LoadsOK(p)'
    BY <2>1, <2>2 DEF FoundOK, LoadsOK, AllAsLocked
  <2> QED  BY <1>2, <1>3, <1>5, <2>3, <2>4, OwnStep DEF ProcOK, Start
<1> QED  BY <1>4, <1>5 DEF Start

\* What has the task of a process as it was, and is at another stage.
LEMMA SameFrameOK ==
    ASSUME Inv, NEW p \in Procs, NEW frame, proc' = [proc EXCEPT ![p] = frame],
           frame = [k \in DOMAIN Idle |-> frame[k]],
           frame.cmd = proc[p].cmd, frame.scenario = proc[p].scenario,
           frame.lock = proc[p].lock, frame.locks = proc[p].locks,
           frame.out = proc[p].out, frame.disturbed = proc[p].disturbed,
           frame.open \in BOOLEAN, frame.open => frame.stage = "extract",
           proc[p].stage \notin {"idle", "compare", "write"},
           frame.stage \in Stages \ {"idle", "write"}, UNCHANGED registry
    PROVE  /\ FrameOK(p)' /\ proc'[p] = frame
           /\ Effective(p)' = Effective(p) /\ Locked(p)' = Locked(p)
           /\ OciFounds' = OciFounds /\ LocalFounds' = LocalFounds
           /\ (proc[p].locks => AllAsLocked(proc[p].lock, proc[p].scenario, proc[p].out,
                                            proc[p].disturbed))'
<1>1. proc'[p] = frame /\ FrameOK(p) /\ LoadsOK(p)
  BY DEF Inv, ProcOK
<1>2. LockRecords' = LockRecords /\ OciFounds' = OciFounds /\ LocalFounds' = LocalFounds
  BY DEF LockRecords, OciFounds, LocalFounds, Record, Found, Imports
<1>3. FrameOK(p)'
  BY <1>1, <1>2 DEF FrameOK, Loaded
<1>4. Effective(p)' = Effective(p) /\ Locked(p)' = Locked(p)
  BY <1>1, SameTask
<1>5. (proc[p].locks => AllAsLocked(proc[p].lock, proc[p].scenario, proc[p].out,
                                    proc[p].disturbed))'
  <2>1. proc[p].locks =>
          AllAsLocked(frame.lock, frame.scenario, frame.out, frame.disturbed)
    BY <1>1 DEF LoadsOK
  <2> QED  BY <1>1, <2>1
<1> QED  BY <1>1, <1>2, <1>3, <1>4, <1>5

\* A step that ends at another stage of the same import.
LEMMA SameTaskStep ==
    ASSUME Inv, NEW p \in Procs, NEW frame, proc' = [proc EXCEPT ![p] = frame],
           FrameOK(p)', FoundOK(p)', LoadsOK(p)', StoresOK', Forward, UNCHANGED <<tree, last>>
    PROVE  Inv'
<1>1. LastOK'
  BY DEF Inv, LastOK, AllAsLocked, AsLocked
<1> QED  BY <1>1, OwnStep DEF ProcOK

\* The import is resolved: a record more, or its files are read next.
LEMMA ResolvedStep ==
    ASSUME Inv, NEW p \in Procs, NEW found, proc' = [proc EXCEPT ![p] = Resolved(p, found)],
           proc[p].stage \in {"resolve", "ready"}, Effective(p) # None,
           \/ /\ Effective(p).class = "oci" /\ found \in OciFounds
              /\ Locked(p) # None => Locked(p).found.manifest = found.manifest
              /\ cache[found.manifest].root # None
           \/ /\ Effective(p).class = "local" /\ found \in LocalFounds
              /\ Locked(p) # None => tree.root = Locked(p).found.content,
           UNCHANGED <<tree, registry, lock, cache, last, verified, scars>>
    PROVE  Inv'
<1>1. StoresOK' /\ Forward
  BY StoresKept DEF Inv
<1>2. FrameOK(p) /\ LoadsOK(p) /\ proc[p].stage \notin {"idle", "compare", "write"}
  BY DEF Inv, ProcOK
<1>3. CASE proc[p].locks
  <2> DEFINE frame == [proc[p] EXCEPT !.stage = "read", !.got = found]
  <2>1. /\ frame = [k \in DOMAIN Idle |-> frame[k]]
        /\ frame.cmd = proc[p].cmd /\ frame.scenario = proc[p].scenario
        /\ frame.lock = proc[p].lock /\ frame.locks = proc[p].locks
        /\ frame.out = proc[p].out /\ frame.disturbed = proc[p].disturbed
        /\ frame.open = FALSE /\ frame.stage = "read" /\ frame.got = found
    BY <1>2 DEF FrameOK, Idle
  <2>2. proc' = [proc EXCEPT ![p] = frame]
    BY <1>3 DEF Resolved
  <2> HIDE DEF frame
  <2>3. /\ FrameOK(p)' /\ proc'[p] = frame
        /\ Effective(p)' = Effective(p) /\ Locked(p)' = Locked(p)
        /\ OciFounds' = OciFounds /\ LocalFounds' = LocalFounds
        /\ (proc[p].locks => AllAsLocked(proc[p].lock, proc[p].scenario, proc[p].out,
                                         proc[p].disturbed))'
    BY <1>2, <2>1, <2>2, SameFrameOK DEF Stages
  <2>4. FoundOK(p)'
    <3>1. OfRegistry(p)' \/ OfTree(p)'
      BY <2>1, <2>3 DEF OfRegistry, OfTree
    <3>2. OfRegistry(p)' => cache'[proc'[p].got.manifest].root # None
      BY <2>1, <2>3 DEF OfRegistry
    <3>3. proc'[p].stage = "read" /\ proc'[p].locks /\ Effective(p)' # None
      BY <1>3, <2>1, <2>3
    <3> QED  BY <3>1, <3>2, <3>3 DEF FoundOK
  <2>5. LoadsOK(p)'
    BY <2>1, <2>3 DEF LoadsOK, OfTree
  <2> QED  BY <1>1, <2>2, <2>3, <2>4, <2>5, SameTaskStep
<1>4. CASE ~proc[p].locks
  <2> DEFINE r == Record(Import(p), found)
             frame == [proc[p] EXCEPT !.stage = "compare", !.out = Append(@, r)]
  <2>1. r \in LockRecords
    BY <1>2, <1>4, EffectiveFacts, IsLockRecord
  <2>2. /\ proc[p].out \in Seq(LockRecords)
        /\ Append(proc[p].out, r) \in Seq(LockRecords)
        /\ Len(Append(proc[p].out, r)) = Len(proc[p].out) + 1
        /\ Len(proc[p].out) \in Nat
    BY <1>2, <1>4, <2>1, AppendProperties, LenProperties DEF FrameOK
  <2> HIDE DEF r
  <2>3. /\ frame = [k \in DOMAIN Idle |-> frame[k]]
        /\ frame.cmd = proc[p].cmd /\ frame.scenario = proc[p].scenario
        /\ frame.lock = proc[p].lock /\ frame.locks = proc[p].locks
        /\ frame.out = Append(proc[p].out, r)
        /\ frame.open = FALSE /\ frame.stage = "compare"
    BY <1>2 DEF FrameOK, Idle
  <2>4. proc' = [proc EXCEPT ![p] = frame] /\ proc'[p] = frame
    BY <1>4 DEF Resolved, r, Inv
  <2> HIDE DEF frame
  <2>5. FrameOK(p)'
    <3>1. LockRecords' = LockRecords
      BY DEF LockRecords, OciFounds, LocalFounds, Record, Found, Imports
    <3>2. Len(frame.out) <= Len(frame.scenario)
      <4>1. Len(proc[p].scenario) \in Nat
        BY <1>2, ScenarioFacts DEF FrameOK
      <4> QED  BY <1>2, <2>2, <2>3, <4>1 DEF FrameOK
    <3>3. frame.out \in Seq(IF frame.locks THEN Loaded ELSE LockRecords)
      BY <1>4, <2>2, <2>3
    <3> QED  BY <1>2, <2>3, <2>4, <3>1, <3>2, <3>3 DEF FrameOK, Stages, Loaded
  <2>6. FoundOK(p)' /\ LoadsOK(p)'
    BY <1>4, <2>3, <2>4 DEF FoundOK, LoadsOK
  <2> QED  BY <1>1, <2>4, <2>5, <2>6, SameTaskStep
<1> QED  BY <1>3, <1>4

LEMMA ResolveLocalStep == ASSUME Inv, NEW p \in Procs, ResolveLocal(p) PROVE Inv'
<1>1. CASE Fail(p)
  BY <1>1, FailStep DEF ResolveLocal
<1>2. CASE ~Fail(p)
  <2>1. /\ LocalAccepted(p) /\ proc[p].stage = "resolve"
        /\ proc' = [proc EXCEPT ![p] = Resolved(p, Found(None, tree.root, tree.root, None))]
        /\ Effective(p) # None /\ Effective(p).class = "local"
        /\ UNCHANGED <<tree, registry, lock, cache, last, verified, scars>>
    BY <1>2 DEF ResolveLocal
  <2>2. Found(None, tree.root, tree.root, None) \in LocalFounds
    BY DEF LocalFounds, Inv, StoresOK, Trees
  <2>3. Locked(p) # None => tree.root = Locked(p).found.content
    <3>1. SUFFICES ASSUME Locked(p) # None PROVE tree.root = Locked(p).found.content
      OBVIOUS
    <3>2. Locked(p) \in LockRecords /\ Locked(p).source = "local"
      BY <2>1, <3>1, EffectiveFacts DEF Inv, ProcOK, Source
    <3>3. Locked(p).found.content \in Roots
      BY <3>2, RecordFacts, FoundFacts
    <3> QED  BY <2>1, <3>1, <3>3, SentinelsOK DEF LocalAccepted, Pinned
  <2> QED  BY <2>1, <2>2, <2>3, ResolvedStep
<1> QED  BY <1>1, <1>2

\* The tag that is looked up is one of the registry.
LEMMA LatestTagged ==
    ASSUME NEW vs \in SUBSET Versions, vs # {} PROVE Latest(vs) \in vs
<1>1. IsFiniteSet(vs) /\ vs \in SUBSET Int
  BY VersionsOK, FS_Subset
<1>2. PICK v \in vs : \A w \in vs : w <= v
  BY <1>1, GreatestExists
<1> QED  BY <1>2 DEF Latest

LEMMA ReferenceFacts ==
    ASSUME Inv, NEW p \in Procs, proc[p].stage = "resolve", Effective(p) # None,
           Effective(p).class = "oci",
           Locked(p) # None \/ Tagged \cap Effective(p).versions # {}
    PROVE  \/ /\ Locked(p) # None /\ Reference(p) = [manifest |-> Locked(p).found.manifest]
              /\ Locked(p).found.manifest \in registry.pushed
           \/ /\ Locked(p) = None /\ "tag" \in DOMAIN Reference(p)
              /\ Reference(p).tag \in Versions
<1>1. CASE Locked(p) # None
  <2>1. Locked(p) \in LockRecords /\ Locked(p).source = "oci"
    BY <1>1, EffectiveFacts DEF Inv, ProcOK, Source
  <2> QED  BY <1>1, <2>1, RecordFacts, FoundFacts DEF Reference
<1>2. CASE Locked(p) = None
  <2>1. Latest(Tagged \cap Effective(p).versions) \in Versions
    <3>1. Tagged \cap Effective(p).versions \in SUBSET Versions
      BY DEF Tagged
    <3> QED  BY <1>2, <3>1, LatestTagged
  <2> QED  BY <1>2, <2>1 DEF Reference
<1> QED  BY <1>1, <1>2

LEMMA SelectTagStep == ASSUME Inv, NEW p \in Procs, SelectTag(p) PROVE Inv'
<1>1. CASE Fail(p)
  BY <1>1, FailStep DEF SelectTag
<1>2. CASE ~Fail(p)
  <2> DEFINE frame == [proc[p] EXCEPT !.stage = "fetch", !.want = Reference(p)]
  <2>1. /\ proc[p].stage = "resolve" /\ Effective(p) # None /\ Effective(p).class = "oci"
        /\ Locked(p) # None \/ Tagged \cap Effective(p).versions # {}
        /\ proc' = [proc EXCEPT ![p].stage = "fetch", ![p].want = Reference(p)]
        /\ UNCHANGED <<tree, registry, lock, cache, last, verified, scars>>
    BY <1>2 DEF SelectTag
  <2>2. /\ frame = [k \in DOMAIN Idle |-> frame[k]]
        /\ frame.cmd = proc[p].cmd /\ frame.scenario = proc[p].scenario
        /\ frame.lock = proc[p].lock /\ frame.locks = proc[p].locks
        /\ frame.out = proc[p].out /\ frame.disturbed = proc[p].disturbed
        /\ frame.open = FALSE /\ frame.stage = "fetch" /\ frame.want = Reference(p)
    <3>1. proc[p] = [k \in DOMAIN Idle |-> proc[p][k]] /\ proc[p].open = FALSE
      BY <2>1 DEF Inv, ProcOK, FrameOK
    <3> QED  BY <3>1 DEF Idle
  <2>3. proc' = [proc EXCEPT ![p] = frame]
    BY <2>1 DEF Inv
  <2> HIDE DEF frame
  <2>4. /\ FrameOK(p)' /\ proc'[p] = frame
        /\ Effective(p)' = Effective(p) /\ Locked(p)' = Locked(p)
        /\ (proc[p].locks => AllAsLocked(proc[p].lock, proc[p].scenario, proc[p].out,
                                         proc[p].disturbed))'
    BY <2>1, <2>2, <2>3, SameFrameOK DEF Stages
  <2>5. FoundOK(p)'
    <3>1. \/ "tag" \in DOMAIN Reference(p) /\ Reference(p).tag \in Versions
          \/ /\ "tag" \notin DOMAIN Reference(p)
             /\ Reference(p).manifest \in registry.pushed
      BY <2>1, ReferenceFacts
    <3> QED  BY <2>1, <2>2, <2>4, <3>1 DEF FoundOK
  <2>6. LoadsOK(p)'
    BY <2>2, <2>4 DEF LoadsOK
  <2> QED  BY <2>1, <2>3, <2>4, <2>5, <2>6, StoresKept, SameTaskStep DEF Inv
<1> QED  BY <1>1, <1>2

LEMMA FetchStep == ASSUME Inv, NEW p \in Procs, FetchManifest(p) PROVE Inv'
<1> DEFINE m == Fetched(proc[p].want)
           found == Found(m, m.bundle, m.bundle.root, m.signer)
           hit == [proc[p] EXCEPT !.want = None, !.got = found, !.stage = "ready"]
           miss == [proc[p] EXCEPT !.want = None, !.got = found, !.stage = "extract",
                                   !.left = ToExtract]
           frame == IF CacheHit(m) THEN hit ELSE miss
<1>1. CASE Fail(p)
  BY <1>1, FailStep DEF FetchManifest
<1>2. CASE ~Fail(p)
  <2>1. /\ proc[p].stage = "fetch" /\ m # None /\ ManifestAccepted(p, m)
        /\ UNCHANGED <<tree, registry, lock, cache, last, verified, scars>>
    BY <1>2 DEF FetchManifest
  <2>2. proc' = [proc EXCEPT ![p] = frame]
    BY <1>2 DEF FetchManifest
  <2>3. /\ frame = [k \in DOMAIN Idle |-> frame[k]]
        /\ frame.cmd = proc[p].cmd /\ frame.scenario = proc[p].scenario
        /\ frame.lock = proc[p].lock /\ frame.locks = proc[p].locks
        /\ frame.out = proc[p].out /\ frame.disturbed = proc[p].disturbed
        /\ frame.open = FALSE /\ frame.got = found
        /\ \/ frame.stage = "ready" /\ CacheHit(m)
           \/ frame.stage = "extract" /\ frame.left = Order
    <3>1. proc[p] = [k \in DOMAIN Idle |-> proc[p][k]] /\ proc[p].open = FALSE
      BY <2>1 DEF Inv, ProcOK, FrameOK
    <3> HIDE DEF found, m
    <3> QED  BY <3>1 DEF Idle, ToExtract
  <2>4. m \in registry.pushed
    <3>1. \/ "tag" \in DOMAIN proc[p].want /\ proc[p].want.tag \in Versions
          \/ "tag" \notin DOMAIN proc[p].want /\ proc[p].want.manifest \in registry.pushed
      BY <2>1 DEF Inv, ProcOK, FoundOK
    <3> QED  BY <2>1, <3>1 DEF Fetched, Inv, StoresOK
  <2>5. /\ found \in OciFounds /\ found.manifest = m
        /\ Locked(p) # None => Locked(p).found.manifest = m
    BY <2>1, <2>4 DEF OciFounds, Found, ManifestAccepted
  <2> HIDE DEF frame, m, found, hit, miss
  <2>6. /\ FrameOK(p)' /\ proc'[p] = frame
        /\ Effective(p)' = Effective(p) /\ Locked(p)' = Locked(p)
        /\ OciFounds' = OciFounds
        /\ (proc[p].locks => AllAsLocked(proc[p].lock, proc[p].scenario, proc[p].out,
                                         proc[p].disturbed))'
    BY <2>1, <2>2, <2>3, SameFrameOK DEF Stages
  <2>7. FoundOK(p)'
    <3>1. Effective(p) # None /\ Effective(p).class = "oci"
      BY <2>1 DEF Inv, ProcOK, FoundOK
    <3>2. OfRegistry(p)'
      BY <2>3, <2>5, <2>6, <3>1 DEF OfRegistry
    <3>3. Order # Tail(Order)
      BY OrderOK
    <3> QED  BY <2>1, <2>3, <2>5, <2>6, <3>1, <3>2, <3>3 DEF FoundOK, CacheHit
  <2>8. LoadsOK(p)'
    BY <2>3, <2>6 DEF LoadsOK
  <2> QED  BY <2>1, <2>2, <2>6, <2>7, <2>8, StoresKept, SameTaskStep DEF Inv
<1> QED  BY <1>1, <1>2
-----------------------------------------------------------------------------
(***************************************************************************)
(* A bundle is extracted.                                                  *)
(***************************************************************************)
LEMMA OrderFacts ==
    /\ Order[1] = Head(Order) /\ Order[2] = Head(Tail(Order))
    /\ Members = {Order[1], Order[2]} /\ Order[1] # Order[2]
    /\ Len(Order) = 2 /\ Len(Tail(Order)) = 1 /\ Order # Tail(Order)
  BY OrderOK DEF Members, Empty

LEMMA ExtractFacts ==
    ASSUME Inv, NEW p \in Procs, proc[p].stage = "extract"
    PROVE  /\ proc[p].got.manifest \in Manifests /\ proc[p].got.manifest \in registry.pushed
           /\ Head(proc[p].left) \in Members
           /\ Effective(p) # None /\ OfRegistry(p) /\ FrameOK(p)
           /\ \/ proc[p].left = Order
              \/ /\ proc[p].left = Tail(Order)
                 /\ cache[proc[p].got.manifest][Order[1]] # None
<1>1. Effective(p) # None /\ OfRegistry(p) /\ FoundOK(p) /\ FrameOK(p)
  BY DEF Inv, ProcOK, FoundOK
<1>2. proc[p].got.manifest \in Manifests /\ proc[p].got.manifest \in registry.pushed
  BY <1>1, FoundFacts DEF OfRegistry, Inv, StoresOK
<1> QED  BY <1>1, <1>2, OrderFacts DEF FoundOK

\* The manifest and the member a process is extracting, and what it puts there.
Mending(p) == proc[p].got.manifest
Member(p) == Head(proc[p].left)
Writes(p) == IF proc[p].open THEN Mending(p).bundle[Member(p)] ELSE Torn

LEMMA ExtractWrites ==
    ASSUME Inv, NEW p \in Procs, Extract(p)
    PROVE  /\ cache' \in [Manifests -> Loaded]
           /\ \A n \in Manifests, g \in Members :
                 cache'[n][g] = IF n = Mending(p) /\ g = Member(p) THEN Writes(p)
                                ELSE cache[n][g]
           /\ \A n \in Manifests, g \in Members : cache'[n][g] \in {None, Torn, n.bundle[g]}
           /\ Writes(p) # None
<1> DEFINE m == Mending(p)
           f == Member(p)
           v == Writes(p)
<1>0. m \in Manifests /\ f \in Members /\ StoresOK
  BY ExtractFacts DEF Inv, Extract, Mending, Member
<1>1. m.bundle.root \in Roots /\ m.bundle.part \in Parts /\ f \in {"root", "part"}
  BY <1>0, ManifestFacts DEF Members, Empty
<1>2. cache[m] \in Loaded
  BY <1>0 DEF StoresOK
<1>3. cache' = [cache EXCEPT ![m] = [cache[m] EXCEPT ![f] = v]]
  BY <1>0 DEF StoresOK, Extract, Mending, Member, Writes
<1>4. v \in {Torn, m.bundle[f]}
  BY DEF Writes
<1> HIDE DEF m, f, v
<1>5. [cache[m] EXCEPT ![f] = v] \in Loaded
  BY <1>1, <1>2, <1>4 DEF Loaded
<1>6. cache' \in [Manifests -> Loaded]
  BY <1>0, <1>3, <1>5 DEF StoresOK
<1>7. \A n \in Manifests, g \in Members :
         cache'[n][g] = IF n = m /\ g = f THEN v ELSE cache[n][g]
  <2> SUFFICES ASSUME NEW n \in Manifests, NEW g \in Members
               PROVE  cache'[n][g] = IF n = m /\ g = f THEN v ELSE cache[n][g]
    OBVIOUS
  <2>1. g \in DOMAIN cache[m]
    BY <1>2 DEF Loaded, Members, Empty
  <2> QED  BY <1>0, <1>3, <2>1 DEF StoresOK
<1>8. v # None
  BY <1>0, <1>4, ManifestFacts, SentinelsOK
<1>9. \A n \in Manifests, g \in Members : cache'[n][g] \in {None, Torn, n.bundle[g]}
  BY <1>0, <1>4, <1>7 DEF StoresOK
<1> QED  BY <1>6, <1>7, <1>8, <1>9 DEF m, f, v

LEMMA ExtractStep == ASSUME Inv, NEW p \in Procs, Extract(p) PROVE Inv'
<1> DEFINE m == Mending(p)
           f == Member(p)
           v == Writes(p)
           opened == [proc[p] EXCEPT !.open = TRUE]
           written == [proc[p] EXCEPT !.open = FALSE, !.left = Tail(@),
                                      !.stage = IF Len(proc[p].left) = 1 THEN "ready" ELSE @]
           frame == IF ~proc[p].open THEN opened ELSE written
<1>1. proc[p].stage = "extract" /\ UNCHANGED <<tree, registry, lock, last, verified, scars>>
  BY DEF Extract
<1>2. /\ m \in Manifests /\ m \in registry.pushed /\ f \in Members
      /\ Effective(p) # None /\ OfRegistry(p) /\ FrameOK(p)
      /\ proc[p].left = Order \/ (proc[p].left = Tail(Order) /\ cache[m][Order[1]] # None)
  BY <1>1, ExtractFacts DEF Mending, Member
<1>3. proc' = [proc EXCEPT ![p] = frame]
  BY DEF Extract
<1>5. /\ frame = [k \in DOMAIN Idle |-> frame[k]]
      /\ frame.cmd = proc[p].cmd /\ frame.scenario = proc[p].scenario
      /\ frame.lock = proc[p].lock /\ frame.locks = proc[p].locks
      /\ frame.out = proc[p].out /\ frame.disturbed = proc[p].disturbed
      /\ frame.got = proc[p].got /\ frame.open = ~proc[p].open /\ frame.open \in BOOLEAN
      /\ ~proc[p].open => frame.left = proc[p].left /\ frame.stage = "extract"
      /\ proc[p].open => /\ frame.left = Tail(proc[p].left)
                         /\ frame.stage = IF Len(proc[p].left) = 1 THEN "ready" ELSE "extract"
  BY <1>1, <1>2 DEF FrameOK, Idle
<1> HIDE DEF frame, opened, written, m, f, v
<1>6. /\ cache' \in [Manifests -> Loaded]
      /\ \A n \in Manifests, g \in Members :
            cache'[n][g] = IF n = m /\ g = f THEN v ELSE cache[n][g]
      /\ \A n \in Manifests, g \in Members : cache'[n][g] \in {None, Torn, n.bundle[g]}
      /\ v # None
  BY ExtractWrites DEF m, f, v
<1>7. StoresOK' /\ Forward
  <2>1. LockRecords' = LockRecords /\ Loaded' = Loaded
    BY <1>1 DEF LockRecords, OciFounds, LocalFounds, Found, Record, Imports, Loaded
  <2> QED  BY <1>1, <1>6, <2>1 DEF StoresOK, Inv, Forward
<1>8. frame.stage \in Stages \ {"idle", "write"} /\ (frame.open => frame.stage = "extract")
  BY <1>1, <1>5 DEF Stages
<1>9. /\ FrameOK(p)' /\ proc'[p] = frame
      /\ Effective(p)' = Effective(p) /\ Locked(p)' = Locked(p) /\ OciFounds' = OciFounds
      /\ (proc[p].locks => AllAsLocked(proc[p].lock, proc[p].scenario, proc[p].out,
                                       proc[p].disturbed))'
  BY <1>1, <1>3, <1>5, <1>8, SameFrameOK
<1>10. OfRegistry(p)' /\ Effective(p)' # None
  BY <1>2, <1>5, <1>9 DEF OfRegistry
<1>11. FoundOK(p)'
  <2>1. frame.got.manifest = m
    BY <1>5 DEF m, Mending
  <2>2. CASE ~proc[p].open
    <3>1. frame.stage = "extract" /\ frame.left = proc[p].left /\ Head(frame.left) = f
      BY <1>5, <2>2 DEF f, Member
    <3>2. cache'[m][f] # None /\ (frame.left = Tail(Order) => cache'[m][Order[1]] # None)
      BY <1>2, <1>6, <3>1, OrderFacts
    <3> QED  BY <1>2, <1>9, <1>10, <2>1, <3>1, <3>2 DEF FoundOK
  <2>3. CASE proc[p].open /\ proc[p].left = Order
    <3>1. frame.stage = "extract" /\ frame.left = Tail(Order) /\ ~frame.open
      BY <1>5, <2>3, OrderFacts
    <3>2. cache'[m][Order[1]] # None
      BY <1>2, <1>6, <2>3, OrderFacts DEF f, Member
    <3> QED  BY <1>9, <1>10, <2>1, <3>1, <3>2 DEF FoundOK
  <2>4. CASE proc[p].open /\ proc[p].left = Tail(Order)
    <3>1. frame.stage = "ready"
      BY <1>5, <2>4, OrderFacts
    <3>2. cache'[m].root # None
      <4>1. cache[m][Order[1]] # None /\ f = Order[2]
        BY <1>2, <2>4, OrderFacts DEF f, Member
      <4>2. "root" \in Members
        BY DEF Members, Empty
      <4> QED  BY <1>2, <1>6, <4>1, <4>2, OrderFacts
    <3> QED  BY <1>9, <1>10, <2>1, <3>1, <3>2 DEF FoundOK
  <2> QED  BY <1>2, <2>2, <2>3, <2>4
<1>12. LoadsOK(p)'
  BY <1>5, <1>8, <1>9 DEF LoadsOK
<1> QED  BY <1>1, <1>3, <1>7, <1>9, <1>11, <1>12, SameTaskStep

LEMMA AcceptStep == ASSUME Inv, NEW p \in Procs, Accept(p) PROVE Inv'
<1>1. CASE Fail(p)
  BY <1>1, FailStep DEF Accept
<1>2. CASE ~Fail(p)
  <2>1. /\ proc[p].stage = "ready"
        /\ proc' = [proc EXCEPT ![p] = Resolved(p, proc[p].got)]
        /\ UNCHANGED <<tree, registry, lock, cache, last, verified, scars>>
    BY <1>2 DEF Accept
  <2>2. /\ Effective(p) # None /\ Effective(p).class = "oci" /\ proc[p].got \in OciFounds
        /\ Locked(p) # None => Locked(p).found.manifest = proc[p].got.manifest
        /\ cache[proc[p].got.manifest].root # None
    BY <2>1 DEF Inv, ProcOK, FoundOK, OfRegistry
  <2> QED  BY <2>1, <2>2, ResolvedStep
<1> QED  BY <1>1, <1>2
-----------------------------------------------------------------------------
(***************************************************************************)
(* A load reads what was resolved.                                         *)
(***************************************************************************)
LEMMA PlaceFacts ==
    ASSUME Inv, NEW p \in Procs, proc[p].stage \in {"read", "nested"}
    PROVE  /\ Place(p) \in Loaded
           /\ OfTree(p) => Place(p) = tree
           /\ OfRegistry(p) =>
                /\ Place(p) = cache[proc[p].got.manifest] /\ Place(p).root # None
                /\ \A f \in Members :
                      Place(p)[f] \in {None, Torn, proc[p].got.manifest.bundle[f]}
           /\ OfTree(p) \/ OfRegistry(p)
<1>1. /\ OfTree(p) \/ OfRegistry(p)
      /\ OfRegistry(p) => cache[proc[p].got.manifest].root # None
  BY DEF Inv, ProcOK, FoundOK
<1>2. OfTree(p) => Place(p) = tree
  BY FoundFacts DEF OfTree, Place
<1>3. OfRegistry(p) => /\ proc[p].got.manifest \in Manifests
                       /\ Place(p) = cache[proc[p].got.manifest]
  <2>1. SUFFICES ASSUME OfRegistry(p)
                 PROVE  /\ proc[p].got.manifest \in Manifests
                        /\ Place(p) = cache[proc[p].got.manifest]
    OBVIOUS
  <2>2. proc[p].got.manifest \in Manifests
    BY <2>1, FoundFacts DEF OfRegistry, Inv, StoresOK
  <2> QED  BY <2>2, ManifestFacts DEF Place
<1>4. tree \in Loaded /\ \A m \in Manifests : cache[m] \in Loaded
  BY DEF Inv, StoresOK, Trees, Loaded
<1> QED  BY <1>1, <1>2, <1>3, <1>4 DEF Inv, StoresOK

LEMMA RootReadStep ==
    ASSUME Inv, NEW p \in Procs, proc[p].stage = "read", Readable(p, "root"),
           proc' = [proc EXCEPT ![p].stage = "nested", ![p].root = Place(p).root],
           UNCHANGED <<tree, registry, lock, cache, last, verified, scars>>
    PROVE  Inv'
<1> DEFINE frame == [proc[p] EXCEPT !.stage = "nested", !.root = Place(p).root]
<1>1. proc[p].stage = "read" /\ UNCHANGED <<tree, registry, lock, cache, last, verified, scars>>
  OBVIOUS
<1>2. FrameOK(p) /\ FoundOK(p) /\ LoadsOK(p)
  BY DEF Inv, ProcOK
<1>3. /\ frame = [k \in DOMAIN Idle |-> frame[k]]
      /\ frame.cmd = proc[p].cmd /\ frame.scenario = proc[p].scenario
      /\ frame.lock = proc[p].lock /\ frame.locks = proc[p].locks
      /\ frame.out = proc[p].out /\ frame.disturbed = proc[p].disturbed
      /\ frame.open = FALSE /\ frame.stage = "nested" /\ frame.got = proc[p].got
      /\ frame.root = Place(p).root
  BY <1>1, <1>2 DEF FrameOK, Idle
<1>4. proc' = [proc EXCEPT ![p] = frame]
  BY DEF Inv
<1> HIDE DEF frame
<1>5. /\ FrameOK(p)' /\ proc'[p] = frame
      /\ Effective(p)' = Effective(p) /\ Locked(p)' = Locked(p)
      /\ OciFounds' = OciFounds /\ LocalFounds' = LocalFounds
      /\ (proc[p].locks => AllAsLocked(proc[p].lock, proc[p].scenario, proc[p].out,
                                       proc[p].disturbed))'
  BY <1>1, <1>3, <1>4, SameFrameOK DEF Stages
<1>6. OfRegistry(p)' = OfRegistry(p) /\ OfTree(p)' = OfTree(p)
  BY <1>3, <1>5 DEF OfRegistry, OfTree
<1>7. FoundOK(p)'
  BY <1>1, <1>2, <1>3, <1>5, <1>6 DEF FoundOK
<1>8. LoadsOK(p)'
  <2>1. frame.root \in Roots \cup {None, Torn}
    BY <1>1, <1>3, PlaceFacts DEF Loaded
  <2>2. OfRegistry(p) => frame.root \in {frame.got.manifest.bundle.root, Torn}
    BY <1>1, <1>3, PlaceFacts DEF Members, Empty
  <2>3. OfTree(p) /\ Locked(p) # None /\ "files" \notin frame.disturbed =>
            frame.root = Locked(p).found.content
    BY <1>1, <1>2, <1>3, PlaceFacts DEF LoadsOK
  <2> QED  BY <1>3, <1>5, <1>6, <2>1, <2>2, <2>3 DEF LoadsOK
<1> QED  BY <1>1, <1>4, <1>5, <1>7, <1>8, StoresKept, SameTaskStep DEF Inv

LEMMA ReadRootStep == ASSUME Inv, NEW p \in Procs, ReadRoot(p) PROVE Inv'
<1>1. CASE FailOver(p, Reasons(p))
  BY <1>1, FailOverStep DEF ReadRoot
<1>2. CASE ~FailOver(p, Reasons(p))
  BY <1>2, RootReadStep DEF ReadRoot
<1> QED  BY <1>1, <1>2

\* What is read of an import is as it was locked.
LEMMA ReadAsLocked ==
    ASSUME Inv, NEW p \in Procs, proc[p].stage = "nested", Place(p).part # None, NEW got,
           got = [root |-> proc[p].root, part |-> Place(p).part]
    PROVE  AsLocked(InUse(p), Effective(p), got, proc[p].disturbed)
<1>1. SUFFICES ASSUME Locked(p) # None
               PROVE  IF Effective(p).class = "oci"
                      THEN \A f \in DOMAIN Empty : got[f] \in {Locked(p).found.content[f], Torn}
                      ELSE "files" \notin proc[p].disturbed =>
                              got.root = Locked(p).found.content
  BY DEF AsLocked, Locked
<1>2. FrameOK(p) /\ FoundOK(p) /\ LoadsOK(p)
  BY DEF Inv, ProcOK
<1>3. CASE OfRegistry(p)
  <2> DEFINE m == proc[p].got.manifest
  <2>1. Effective(p).class = "oci" /\ Locked(p).found.manifest = m
    BY <1>1, <1>3 DEF OfRegistry
  <2>2. Locked(p).found.content = m.bundle
    <3>1. Locked(p) \in LockRecords /\ Locked(p).source = "oci"
      BY <1>1, <1>2, <2>1, EffectiveFacts DEF Source
    <3> QED  BY <2>1, <3>1, RecordFacts, FoundFacts
  <2>3. proc[p].root \in {m.bundle.root, Torn}
    BY <1>2, <1>3 DEF LoadsOK
  <2>4. Place(p).part \in {m.bundle.part, Torn}
    BY <1>3, PlaceFacts DEF Members, Empty
  <2> QED  BY <2>1, <2>2, <2>3, <2>4 DEF Empty
<1>4. CASE OfTree(p)
  BY <1>1, <1>2, <1>4 DEF OfTree, LoadsOK
<1> QED  BY <1>3, <1>4, PlaceFacts

LEMMA ReadPartStep == ASSUME Inv, NEW p \in Procs, ReadPart(p) PROVE Inv'
<1> DEFINE got == [root |-> proc[p].root, part |-> Place(p).part]
           frame == [proc[p] EXCEPT !.stage = "compare", !.root = None, !.got = None,
                                    !.out = Append(@, got)]
<1>0. FrameOK(p) /\ FoundOK(p) /\ LoadsOK(p)
  BY DEF Inv, ProcOK
<1>1. CASE FailOver(p, Reasons(p))
  BY <1>1, FailOverStep DEF ReadPart
<1>2. CASE ~FailOver(p, Reasons(p))
  <2>1. /\ proc[p].stage = "nested" /\ Place(p).part # None
        /\ UNCHANGED <<tree, registry, lock, cache, last, verified, scars>>
    BY <1>2 DEF ReadPart, Readable
  <2>2. proc' = [proc EXCEPT ![p] = frame] /\ proc'[p] = frame
    BY <1>2 DEF ReadPart, Inv
  <2>3. proc[p].locks /\ got \in Loaded
    BY <1>0, <2>1, PlaceFacts DEF FoundOK, LoadsOK, Loaded
  <2>4. AsLocked(proc[p].lock, Delegated(proc[p].lock, Import(p)), got, proc[p].disturbed)
    BY <2>1, <2>3, ReadAsLocked DEF Effective, InUse
  <2> HIDE DEF got
  <2>5. /\ proc[p].out \in Seq(Loaded) /\ Append(proc[p].out, got) \in Seq(Loaded)
        /\ Len(Append(proc[p].out, got)) = Len(proc[p].out) + 1
        /\ Len(proc[p].out) \in Nat /\ DOMAIN proc[p].out = 1 .. Len(proc[p].out)
        /\ DOMAIN Append(proc[p].out, got) = 1 .. Len(proc[p].out) + 1
        /\ \A i \in 1 .. Len(proc[p].out) : Append(proc[p].out, got)[i] = proc[p].out[i]
        /\ Append(proc[p].out, got)[Len(proc[p].out) + 1] = got
    BY <1>0, <2>3, AppendProperties, LenProperties DEF FrameOK
  <2>6. /\ frame = [k \in DOMAIN Idle |-> frame[k]]
        /\ frame.cmd = proc[p].cmd /\ frame.scenario = proc[p].scenario
        /\ frame.lock = proc[p].lock /\ frame.locks = proc[p].locks
        /\ frame.out = Append(proc[p].out, got) /\ frame.disturbed = proc[p].disturbed
        /\ frame.open = FALSE /\ frame.stage = "compare"
    BY <1>0, <2>1 DEF FrameOK, Idle
  <2> HIDE DEF frame
  <2>7. FrameOK(p)'
    <3>1. LockRecords' = LockRecords
      BY <2>1 DEF LockRecords, OciFounds, LocalFounds, Record, Found, Imports
    <3>2. Len(frame.out) <= Len(frame.scenario)
      <4>1. Len(proc[p].scenario) \in Nat
        BY <1>0, <2>1, ScenarioFacts DEF FrameOK
      <4> QED  BY <1>0, <2>1, <2>5, <2>6, <4>1 DEF FrameOK
    <3>3. frame.out \in Seq(IF frame.locks THEN Loaded ELSE LockRecords)
      BY <2>3, <2>5, <2>6
    <3> QED  BY <1>0, <2>1, <2>2, <2>6, <3>1, <3>2, <3>3 DEF FrameOK, Stages, Loaded
  <2>8. FoundOK(p)'
    BY <2>2, <2>6 DEF FoundOK
  <2>9. LoadsOK(p)'
    <3>1. AllAsLocked(frame.lock, frame.scenario, frame.out, frame.disturbed)
      <4>1. SUFFICES ASSUME proc[p].lock # None, NEW i \in 1 .. Len(proc[p].out) + 1
                     PROVE  AsLocked(proc[p].lock,
                                     Delegated(proc[p].lock, proc[p].scenario[i]),
                                     Append(proc[p].out, got)[i], proc[p].disturbed)
        BY <2>5, <2>6 DEF AllAsLocked
      <4>2. CASE i = Len(proc[p].out) + 1
        BY <2>4, <2>5, <4>2 DEF Import
      <4>3. CASE i \in 1 .. Len(proc[p].out)
        BY <1>0, <2>3, <2>5, <4>1, <4>3 DEF LoadsOK, AllAsLocked
      <4> QED  BY <2>5, <4>2, <4>3
    <3> QED  BY <2>2, <2>6, <3>1 DEF LoadsOK
  <2> QED  BY <2>1, <2>2, <2>7, <2>8, <2>9, StoresKept, SameTaskStep DEF Inv
<1> QED  BY <1>1, <1>2
-----------------------------------------------------------------------------
(***************************************************************************)
(* The next import, the end of a command, and its death.                   *)
(***************************************************************************)
LEMMA RecordsKept ==
    ASSUME UNCHANGED registry PROVE LockRecords' = LockRecords /\ Loaded' = Loaded
  BY DEF LockRecords, OciFounds, LocalFounds, Found, Record, Imports, Loaded

LEMMA NextImportStep ==
    ASSUME Inv, NEW p \in Procs, proc[p].stage = "compare", NEW stage \in {"resolve", "write"},
           stage = "resolve" => Len(proc[p].out) # Len(proc[p].scenario),
           stage = "write" => proc[p].cmd = "resolve", NEW got,
           proc' = [proc EXCEPT ![p] = [proc[p] EXCEPT !.stage = stage, !.got = got]],
           UNCHANGED <<tree, registry, lock, cache, last, verified, scars>>
    PROVE  Inv'
<1> DEFINE frame == [proc[p] EXCEPT !.stage = stage, !.got = got]
<1>1. FrameOK(p) /\ LoadsOK(p)
  BY DEF Inv, ProcOK
<1>2. /\ frame = [k \in DOMAIN Idle |-> frame[k]]
      /\ frame.cmd = proc[p].cmd /\ frame.scenario = proc[p].scenario
      /\ frame.lock = proc[p].lock /\ frame.locks = proc[p].locks
      /\ frame.out = proc[p].out /\ frame.disturbed = proc[p].disturbed
      /\ frame.open = FALSE /\ frame.stage = stage
  BY <1>1 DEF FrameOK, Idle
<1>3. proc' = [proc EXCEPT ![p] = frame] /\ proc'[p] = frame
  BY DEF Inv
<1> HIDE DEF frame
<1>4. FrameOK(p)'
  <2>1. Len(frame.out) <= Len(frame.scenario)
        /\ (stage = "resolve" => Len(frame.out) < Len(frame.scenario))
    <3>1. Len(proc[p].scenario) \in Nat /\ Len(proc[p].out) \in Nat
      BY <1>1, ScenarioFacts, LenProperties DEF FrameOK
    <3> QED  BY <1>1, <1>2, <3>1 DEF FrameOK
  <2>2. stage = "write" => ~frame.locks
    BY <1>1, <1>2 DEF FrameOK
  <2> QED  BY <1>1, <1>2, <1>3, <2>1, <2>2, RecordsKept DEF FrameOK, Stages
<1>5. FoundOK(p)'
  BY <1>2, <1>3 DEF FoundOK
<1>6. LoadsOK(p)'
  <2>1. frame.locks => AllAsLocked(frame.lock, frame.scenario, frame.out, frame.disturbed)
    BY <1>1, <1>2 DEF LoadsOK
  <2> QED  BY <1>2, <1>3, <2>1 DEF LoadsOK
<1> QED  BY <1>3, <1>4, <1>5, <1>6, StoresKept, SameTaskStep DEF Inv

\* verify-imports goes on to load what it compared.
LEMMA VerifyOnStep ==
    ASSUME Inv, NEW p \in Procs, proc[p].stage = "compare", lock # Torn,
           proc' = [proc EXCEPT ![p] = [Begin("verify", proc[p].scenario, TRUE) EXCEPT
                        !.sure = proc[p].sure, !.disturbed = proc[p].disturbed]],
           UNCHANGED <<tree, registry, lock, cache, last, verified, scars>>
    PROVE  Inv'
<1> DEFINE frame == [Begin("verify", proc[p].scenario, TRUE) EXCEPT
                        !.sure = proc[p].sure, !.disturbed = proc[p].disturbed]
<1>1. proc[p].scenario \in Scenarios
  BY DEF Inv, ProcOK, FrameOK
<1>2. /\ frame = [k \in DOMAIN Idle |-> frame[k]]
      /\ frame.cmd = "verify" /\ frame.scenario = proc[p].scenario
      /\ frame.lock = lock /\ frame.locks = TRUE /\ frame.out = <<>>
      /\ frame.open = FALSE /\ frame.stage = "resolve"
  BY ZenonT(60) DEF Begin, Idle
<1>3. proc' = [proc EXCEPT ![p] = frame] /\ proc'[p] = frame
  BY DEF Inv
<1> HIDE DEF frame
<1>4. FrameOK(p)'
  <2>1. frame.lock # None => frame.lock \in Seq(LockRecords)
    BY <1>2 DEF Inv, StoresOK
  <2>2. frame.out \in Seq(IF frame.locks THEN Loaded ELSE LockRecords) /\ Len(frame.out) = 0
    BY <1>2, EmptySeq
  <2>3. Len(frame.scenario) \in Nat /\ Len(frame.scenario) > 0
    BY <1>1, <1>2, ScenarioFacts
  <2>4. /\ proc'[p] = [k \in DOMAIN Idle |-> proc'[p][k]]
        /\ proc'[p].locks = TRUE /\ proc'[p].open = FALSE
        /\ proc'[p].stage = "resolve" /\ proc'[p].cmd = "verify"
    BY <1>2, <1>3
  <2>5. (proc[p].out \in Seq(IF proc[p].locks THEN Loaded ELSE LockRecords))'
    BY <1>2, <1>3, <2>2, RecordsKept
  <2>6. (proc[p].lock # None => proc[p].lock \in Seq(LockRecords))'
    BY <1>3, <2>1, RecordsKept
  <2>7. proc'[p].scenario \in Scenarios /\ Len(proc'[p].out) < Len(proc'[p].scenario)
        /\ Len(proc'[p].out) <= Len(proc'[p].scenario)
    <3>1. proc'[p].out = frame.out /\ proc'[p].scenario = frame.scenario
      BY <1>3
    <3>2. frame.scenario \in Scenarios
      BY <1>1, <1>2
    <3>3. Len(frame.out) = 0 /\ Len(frame.scenario) > 0 /\ Len(frame.scenario) \in Nat
      BY <2>2, <2>3
    <3>4. Len(frame.out) < Len(frame.scenario) /\ Len(frame.out) <= Len(frame.scenario)
      BY <3>3
    <3> QED  BY <3>1, <3>2, <3>4
  <2> QED  BY <2>4, <2>5, <2>6, <2>7 DEF FrameOK, Stages, Commands
<1>5. FoundOK(p)'
  BY <1>2, <1>3 DEF FoundOK
<1>6. LoadsOK(p)'
  <2>1. AllAsLocked(frame.lock, frame.scenario, frame.out, frame.disturbed)
    BY <1>2 DEF AllAsLocked
  <2> QED  BY <1>2, <1>3, <2>1 DEF LoadsOK
<1> QED  BY <1>3, <1>4, <1>5, <1>6, StoresKept, SameTaskStep DEF Inv

LEMMA ContinueStep == ASSUME Inv, NEW p \in Procs, Continue(p) PROVE Inv'
<1> DEFINE me == proc[p]
           done == Len(me.out) = Len(me.scenario)
           still == UNCHANGED <<lock, cache, last, verified, scars>>
<1>0. me.stage = "compare" /\ FrameOK(p) /\ LoadsOK(p) /\ UNCHANGED <<tree, registry>>
  BY DEF Continue, Inv, ProcOK
<1>1. CASE ~done /\ proc' = [proc EXCEPT ![p].stage = "resolve", ![p].got = None] /\ still
  <2>1. proc' = [proc EXCEPT ![p] = [proc[p] EXCEPT !.stage = "resolve", !.got = None]]
    BY <1>1 DEF Inv
  <2> QED  BY <1>0, <1>1, <2>1, NextImportStep
<1>2. CASE me.cmd = "resolve" /\ proc' = [proc EXCEPT ![p].stage = "write"] /\ still
  <2>1. proc' = [proc EXCEPT ![p] = [proc[p] EXCEPT !.stage = "write", !.got = proc[p].got]]
    <3>1. [proc[p] EXCEPT !.stage = "write"] =
             [proc[p] EXCEPT !.stage = "write", !.got = proc[p].got]
      BY <1>0 DEF FrameOK, Idle
    <3> QED  BY <1>2, <3>1 DEF Inv
  <2> QED  BY <1>0, <1>2, <2>1, NextImportStep
<1>3. CASE /\ UpToDate(p) /\ lock # Torn /\ still
           /\ proc' = [proc EXCEPT ![p] = [Begin("verify", me.scenario, TRUE) EXCEPT
                           !.sure = me.sure, !.disturbed = me.disturbed]]
  BY <1>0, <1>3, VerifyOnStep
<1>4. CASE Fail(p)
  BY <1>0, <1>4, FailStep
<1>5. CASE /\ me.locks /\ proc' = [proc EXCEPT ![p] = Idle] /\ last' = Ended(p)
           /\ UNCHANGED <<lock, cache, scars>>
           /\ verified' = verified \cup
                 (IF me.cmd = "verify" /\ me.disturbed = {} THEN {me.scenario} ELSE {})
  <2>1. StoresOK' /\ Forward
    BY <1>0, <1>5, RecordsKept DEF Inv, StoresOK, Forward, FrameOK
  <2>2. AllAsLocked(me.lock, me.scenario, me.out, me.disturbed)
    BY <1>0, <1>5 DEF LoadsOK
  <2>3. AllAsLocked(last'.lock, last'.scenario, last'.out, last'.disturbed)
    BY <1>5, <2>2, EndedFacts
  <2>4. LastOK'
    BY <2>3 DEF LastOK, AllAsLocked, AsLocked
  <2> QED  BY <1>0, <1>5, <2>1, <2>4, EndStep
<1> QED  BY <1>1, <1>2, <1>3, <1>4, <1>5 DEF Continue

\* The lockfile is written, whole or not, and who is at work learns of it.
LEMMA RewriteStep ==
    ASSUME Inv, NEW p \in Procs, proc[p].stage = "write", lock' \in {Torn, proc[p].out},
           verified' = {}, proc' = Rewritten(p),
           UNCHANGED <<tree, registry, cache, scars>>,
           last' \in {last, Ended(p)}
    PROVE  Inv'
<1>1. FrameOK(p) /\ ~proc[p].locks /\ proc[p].out \in Seq(LockRecords)
      /\ proc[p].cmd # "load"
  BY DEF Inv, ProcOK, FrameOK
<1>2. StoresOK' /\ Forward
  BY <1>1, RecordsKept DEF Inv, StoresOK, Forward
<1>3. LastOK'
  <2>1. CASE last' = last
    BY <2>1 DEF Inv, LastOK, AllAsLocked, AsLocked
  <2>2. CASE last' # last
    <3>1. last'.cmd = proc[p].cmd
      BY <2>2, EndedFacts
    <3> QED  BY <1>1, <3>1 DEF LastOK
  <2> QED  BY <2>1, <2>2
<1>4. proc' = [q \in Procs |-> proc'[q]] /\ proc'[p] = Idle
  BY DEF Rewritten
<1>5. \A q \in Procs \ {p} : Spared(q)
  <2> SUFFICES ASSUME NEW q \in Procs \ {p} PROVE Spared(q)
    OBVIOUS
  <2>1. CASE proc[q].stage = "idle"
    <3>1. proc'[q] = Idle /\ proc[q] = Idle
      BY <2>1 DEF Rewritten, Inv, ProcOK, FrameOK
    <3> QED  BY <2>1, <3>1 DEF Spared
  <2>2. CASE proc[q].stage # "idle"
    BY <2>2 DEF Rewritten, Spared
  <2> QED  BY <2>1, <2>2
<1> QED  BY <1>2, <1>3, <1>4, <1>5, IdleOK, Combine

LEMMA WriteLockStep == ASSUME Inv, NEW p \in Procs, WriteLock(p) PROVE Inv'
  BY RewriteStep DEF WriteLock

LEMMA CrashStep == ASSUME Inv, NEW p \in Procs, Crash(p) PROVE Inv'
<1>1. CASE proc[p].stage = "extract"
  <2>1. /\ proc' = [proc EXCEPT ![p] = Idle] /\ UNCHANGED <<lock, verified>>
        /\ UNCHANGED <<tree, registry, cache, last>>
        /\ scars' = scars \cup {proc[p].got.manifest}
    BY <1>1 DEF Crash
  <2>2. StoresOK' /\ Forward
    BY <1>1, <2>1, ExtractFacts, RecordsKept DEF Inv, StoresOK, Forward
  <2>3. LastOK'
    BY <2>1 DEF Inv, LastOK, AllAsLocked, AsLocked
  <2>4. proc'[p] = Idle
    BY <2>1 DEF Inv
  <2> QED  BY <2>1, <2>2, <2>3, <2>4, IdleOK, OwnStep
<1>2. CASE proc[p].stage # "extract"
  <2>1. /\ proc[p].stage = "write" /\ lock' = Torn /\ verified' = {} /\ proc' = Rewritten(p)
        /\ UNCHANGED <<tree, registry, cache, last, scars>>
    BY <1>2 DEF Crash
  <2> QED  BY <2>1, RewriteStep
<1> QED  BY <1>1, <1>2

LEMMA FailedStep == ASSUME Inv, NEW p \in Procs, Unlocked(p) PROVE Inv'
  BY FailStep DEF Unlocked

LEMMA UnreachableStep == ASSUME Inv, NEW p \in Procs, Unreachable(p) PROVE Inv'
  BY FailOverStep DEF Unreachable

LEMMA RunStep == ASSUME Inv, NEW p \in Procs, Run(p) PROVE Inv'
  BY StartStep, FailedStep, ResolveLocalStep, SelectTagStep, UnreachableStep, FetchStep,
     ExtractStep, AcceptStep, ReadRootStep, ReadPartStep, ContinueStep, WriteLockStep, CrashStep
  DEF Run

LEMMA StutterStep == ASSUME Inv, UNCHANGED vars PROVE Inv'
<1>1. StoresOK' /\ Forward
  BY StoresKept DEF Inv, vars
<1>2. LastOK'
  BY DEF Inv, LastOK, AllAsLocked, AsLocked, vars
<1>3. \A q \in Procs : Spared(q)
  BY DEF Spared, vars
<1> QED  BY <1>1, <1>2, <1>3, SparedOK DEF Inv, vars

LEMMA InvNext == Inv /\ [Next]_vars => Inv'
<1> SUFFICES ASSUME Inv, [Next]_vars PROVE Inv'
  OBVIOUS
<1>1. ASSUME NEW new \in Trees, Edit(new) PROVE Inv'
  BY <1>1, EditStep
<1>2. ASSUME NEW signer \in Signers, Publish(signer) PROVE Inv'
  BY <1>2, PublishStep
<1>3. ASSUME NEW v \in Versions, NEW m \in registry.pushed \cup {None}, Retag(v, m)
      PROVE  Inv'
  BY <1>3, RetagStep
<1>4. ASSUME NEW p \in Procs, Run(p) PROVE Inv'
  BY <1>4, RunStep
<1>5. CASE UNCHANGED vars
  BY <1>5, StutterStep
<1> QED  BY <1>1, <1>2, <1>3, <1>4, <1>5 DEF Next

LEMMA InvInit == Init => Inv
<1> SUFFICES ASSUME Init PROVE Inv
  OBVIOUS
<1>1. StoresOK
  <2>1. registry.pushed = {} /\ registry = [tags |-> registry.tags, pushed |-> {}]
        /\ registry.tags \in [Versions -> {None}]
    BY DEF Init
  <2>2. Empty \in Loaded
    BY DEF Empty, Loaded
  <2>3. cache = [m \in Manifests |-> Empty] /\ \A f \in Members : Empty[f] = None
    BY DEF Init, Members, Empty
  <2> QED  BY <2>1, <2>2, <2>3, FirstOK DEF StoresOK, Init, Trees
<1>2. LastOK
  BY DEF LastOK, AllAsLocked, Init, Nothing
<1>3. \A p \in Procs : proc[p] = Idle
  BY DEF Init
<1> QED  BY <1>1, <1>2, <1>3, IdleOK DEF Inv, Init

(***************************************************************************)
(* Everything has its type: above all, a cache entry holds nothing but     *)
(* members of the bundle it is named for, each whole, cut short or absent, *)
(* and the lockfile never records a `locked:` import.                      *)
(***************************************************************************)
THEOREM TypeCorrect == Spec => []TypeOK
<1>1. Inv => TypeOK
  <2> SUFFICES ASSUME Inv PROVE TypeOK
    OBVIOUS
  <2>1. lock \in {None, Torn} \/ \A i \in DOMAIN lock : lock[i].source \in {"local", "oci"}
    <3>1. ASSUME lock \in Seq(LockRecords), NEW i \in DOMAIN lock
          PROVE  lock[i].source \in {"local", "oci"}
      BY <3>1, LenProperties, ElementOfSeq, RecordFacts
    <3> QED  BY <3>1 DEF Inv, StoresOK
  <2>2. \A v \in Versions : registry.tags[v] \in registry.pushed \cup {None}
    BY DEF Inv, StoresOK
  <2> QED  BY <2>1, <2>2 DEF Inv, StoresOK, ProcOK, FrameOK, TypeOK, Members
<1> QED  BY <1>1, InvInit, InvNext, PTL DEF Spec

(***************************************************************************)
(* A load that succeeds under a lockfile has loaded what was recorded: the *)
(* manifest whose digest the record has, of any member that is not cut     *)
(* short its content, and of a local module the root that was recorded     *)
(* unless the files were edited under the load.  It holds however tags     *)
(* move, bundles are published and processes die in between, and whichever *)
(* import shares its record with another.                                  *)
(***************************************************************************)
THEOREM LockedLoadsCorrect == Spec => []LockedLoads
<1>1. Inv => LockedLoads
  BY DEF Inv, LastOK, AllAsLocked, AsLocked, LockedLoads
<1> QED  BY <1>1, InvInit, InvNext, PTL DEF Spec
-----------------------------------------------------------------------------
(***************************************************************************)
(* The cache.  What makes CacheSettles inductive is who is at work: of a   *)
(* manifest no extraction of which died, a member that is cut short is     *)
(* open in a process that will write it, and while one member is there and *)
(* the other is not, some process is still extracting.                     *)
(***************************************************************************)
Settling ==
    \A m \in Manifests \ scars :
        /\ \A f \in Members :
              cache[m][f] = Torn => \E p \in Extracting(m) : proc[p].open /\ Member(p) = f
        /\ Extracting(m) = {} => (cache[m].root = None <=> cache[m].part = None)

\* A process that extracts goes on with what it was at.
GoesOn(q) ==
    proc[q].stage = "extract" =>
        /\ proc'[q].stage = "extract" /\ proc'[q].got = proc[q].got
        /\ proc'[q].left = proc[q].left /\ proc'[q].open = proc[q].open

LEMMA SparedGoesOn ==
    ASSUME NEW q, FrameOK(q), Spared(q) PROVE GoesOn(q)
  BY SparedSame DEF SameFrame, GoesOn

\* As long as all of them go on, nothing is lost.
LEMMA SettlingKept ==
    ASSUME Settling, UNCHANGED cache, scars \subseteq scars',
           \A q \in Procs : GoesOn(q) \/ proc[q].got.manifest \in scars'
    PROVE  Settling'
<1> SUFFICES ASSUME NEW m \in Manifests, m \notin scars'
             PROVE  /\ \A f \in Members : cache'[m][f] = Torn =>
                          \E p \in Extracting(m)' : proc'[p].open /\ Member(p)' = f
                    /\ Extracting(m)' = {} => (cache'[m].root = None <=> cache'[m].part = None)
  BY DEF Settling
<1>1. \A q \in Extracting(m) : q \in Extracting(m)' /\ proc'[q].open = proc[q].open
                               /\ Member(q)' = Member(q)
  BY DEF Extracting, GoesOn, Member
<1> QED  BY <1>1 DEF Settling

\* The steps that extract nothing.
LEMMA NotExtracting ==
    ASSUME Inv, NEW p \in Procs, Run(p), ~Extract(p), ~Crash(p)
    PROVE  UNCHANGED <<cache, scars>> /\ \A q \in Procs : GoesOn(q)
<1>1. ASSUME NEW frame, proc[p].stage # "extract", proc' = [proc EXCEPT ![p] = frame]
      PROVE  \A q \in Procs : GoesOn(q)
  BY <1>1 DEF GoesOn, Inv
<1>2. ASSUME NEW causes, proc[p].stage # "extract", FailOver(p, causes)
      PROVE  UNCHANGED <<cache, scars>> /\ \A q \in Procs : GoesOn(q)
  BY <1>1, <1>2 DEF FailOver
<1>3. CASE \E cmd \in Jobs[p], scenario \in Scenarios : Start(p, cmd, scenario)
  BY <1>1, <1>3 DEF Start, GoesOn
<1>4. CASE Unlocked(p)
  BY <1>2, <1>4 DEF Unlocked, Fail
<1>5. CASE ResolveLocal(p)
  BY <1>1, <1>2, <1>5 DEF ResolveLocal, Fail
<1>6. CASE SelectTag(p)
  BY <1>1, <1>2, <1>6 DEF SelectTag, Fail, GoesOn, Inv
<1>7. CASE FetchManifest(p)
  BY <1>1, <1>2, <1>7 DEF FetchManifest, Fail
<1>8. CASE Accept(p)
  BY <1>1, <1>2, <1>8 DEF Accept, Fail
<1>9. CASE ReadRoot(p)
  BY <1>2, <1>9 DEF ReadRoot, GoesOn, Inv
<1>10. CASE ReadPart(p)
  BY <1>2, <1>10 DEF ReadPart, GoesOn, Inv
<1>11. CASE Continue(p)
  BY <1>1, <1>2, <1>11 DEF Continue, Fail, GoesOn, Inv
<1>12. CASE WriteLock(p)
  <2>1. UNCHANGED <<cache, scars>> /\ proc' = Rewritten(p) /\ proc[p].stage = "write"
    BY <1>12 DEF WriteLock
  <2>2. SUFFICES ASSUME NEW q \in Procs, proc[q].stage = "extract" PROVE GoesOn(q)
    BY <2>1 DEF GoesOn
  <2>3. proc'[q] = [proc[q] EXCEPT !.disturbed = @ \cup {"lock"}]
    BY <2>1, <2>2 DEF Rewritten
  <2>4. proc[q] = [k \in DOMAIN Idle |-> proc[q][k]]
    BY DEF Inv, ProcOK, FrameOK
  <2> QED  BY <2>3, <2>4 DEF GoesOn, Idle
<1>13. CASE Unreachable(p)
  BY <1>2, <1>13 DEF Unreachable
<1> QED
  BY <1>3, <1>4, <1>5, <1>6, <1>7, <1>8, <1>9, <1>10, <1>11, <1>12, <1>13 DEF Run

LEMMA SettlingExtract ==
    ASSUME Inv, Settling, NEW p \in Procs, Extract(p) PROVE Settling'
<1> DEFINE mine == Mending(p)
<1>1. /\ proc[p].stage = "extract" /\ scars' = scars
      /\ mine \in Manifests /\ Member(p) \in Members
      /\ proc[p].left = Order \/ (proc[p].left = Tail(Order) /\ cache[mine][Order[1]] # None)
  BY ExtractFacts DEF Extract, Mending, Member
<1>2. /\ \A n \in Manifests, g \in Members :
            cache'[n][g] = IF n = mine /\ g = Member(p) THEN Writes(p) ELSE cache[n][g]
      /\ Writes(p) # None
  BY ExtractWrites
<1>3. \A q \in Procs \ {p} : GoesOn(q)
  BY DEF Extract, GoesOn, Inv
<1>4. /\ ~proc[p].open => /\ proc'[p].open /\ proc'[p].stage = "extract"
                          /\ proc'[p].left = proc[p].left /\ proc'[p].got = proc[p].got
      /\ proc[p].open /\ proc[p].left = Order =>
            proc'[p].stage = "extract" /\ proc'[p].got = proc[p].got
  <2>1. proc[p] = [k \in DOMAIN Idle |-> proc[p][k]] /\ proc[p].open \in BOOLEAN
    BY DEF Inv, ProcOK, FrameOK
  <2>2. proc'[p] = IF ~proc[p].open THEN [proc[p] EXCEPT !.open = TRUE]
                   ELSE [proc[p] EXCEPT !.open = FALSE, !.left = Tail(@),
                                !.stage = IF Len(proc[p].left) = 1 THEN "ready" ELSE @]
    BY DEF Extract, Inv
  <2>3. Len(Order) # 1
    BY OrderFacts
  <2> QED  BY <1>1, <2>1, <2>2, <2>3 DEF Idle
<1>5. proc[p].open => Writes(p) # Torn
  BY <1>1, ManifestFacts DEF Writes, Mending
<1> SUFFICES ASSUME NEW m \in Manifests, m \notin scars
             PROVE  /\ \A f \in Members : cache'[m][f] = Torn =>
                          \E q \in Extracting(m)' : proc'[q].open /\ Member(q)' = f
                    /\ Extracting(m)' = {} => (cache'[m].root = None <=> cache'[m].part = None)
  BY <1>1 DEF Settling
<1>6. ASSUME NEW f \in Members, cache'[m][f] = Torn
      PROVE  \E q \in Extracting(m)' : proc'[q].open /\ Member(q)' = f
  <2>1. CASE m = mine /\ f = Member(p)
    <3>1. ~proc[p].open
      BY <1>1, <1>2, <1>5, <1>6, <2>1
    <3>2. p \in Extracting(m)' /\ proc'[p].open /\ Member(p)' = f
      BY <1>4, <2>1, <3>1 DEF Extracting, Member, Mending
    <3> QED  BY <3>2
  <2>2. CASE ~(m = mine /\ f = Member(p))
    <3>1. cache[m][f] = Torn
      BY <1>2, <1>6, <2>2
    <3>2. PICK q \in Extracting(m) : proc[q].open /\ Member(q) = f
      BY <3>1 DEF Settling
    <3>3. q # p
      BY <2>2, <3>2 DEF Extracting, Mending
    <3>4. q \in Extracting(m)' /\ proc'[q].open /\ Member(q)' = f
      BY <1>3, <3>2, <3>3 DEF Extracting, GoesOn, Member
    <3> QED  BY <3>4
  <2> QED  BY <2>1, <2>2
<1>7. ASSUME Extracting(m)' = {} PROVE cache'[m].root = None <=> cache'[m].part = None
  <2>1. CASE m # mine
    <3>1. Extracting(m) = {}
      <4>1. p \notin Extracting(m)
        BY <2>1 DEF Extracting, Mending
      <4>2. \A q \in Extracting(m) : q \in Extracting(m)'
        BY <1>3, <4>1 DEF Extracting, GoesOn
      <4> QED  BY <1>7, <4>2
    <3>2. cache'[m].root = cache[m].root /\ cache'[m].part = cache[m].part
      BY <1>2, <2>1 DEF Members, Empty
    <3> QED  BY <3>1, <3>2 DEF Settling
  <2>2. CASE m = mine
    <3>1. proc[p].open /\ proc[p].left = Tail(Order)
      <4>1. p \notin Extracting(m)'
        BY <1>7
      <4> QED  BY <1>1, <1>4, <2>2, <4>1 DEF Extracting, Mending
    <3>2. Member(p) = Order[2] /\ cache[m][Order[1]] # None
      BY <1>1, <2>2, <3>1, OrderFacts DEF Member
    <3>3. \A f \in Members : cache'[m][f] # None
      BY <1>2, <2>2, <3>2, OrderFacts
    <3> QED  BY <3>3 DEF Members, Empty
  <2> QED  BY <2>1, <2>2
<1> QED  BY <1>6, <1>7

LEMMA SettlingCrash ==
    ASSUME Inv, Settling, NEW p \in Procs, Crash(p) PROVE Settling'
<1>1. CASE proc[p].stage = "extract"
  <2>1. /\ proc' = [proc EXCEPT ![p] = Idle] /\ UNCHANGED cache
        /\ scars' = scars \cup {proc[p].got.manifest}
    BY <1>1 DEF Crash
  <2>2. \A q \in Procs : GoesOn(q) \/ proc[q].got.manifest \in scars'
    BY <2>1 DEF GoesOn, Inv
  <2> QED  BY <2>1, <2>2, SettlingKept
<1>2. CASE proc[p].stage # "extract"
  <2>1. /\ proc[p].stage = "write" /\ proc' = Rewritten(p) /\ UNCHANGED <<cache, scars>>
    BY <1>2 DEF Crash
  <2>2. ASSUME NEW q \in Procs, proc[q].stage = "extract" PROVE GoesOn(q)
    <3>1. proc'[q] = [proc[q] EXCEPT !.disturbed = @ \cup {"lock"}]
      BY <2>1, <2>2 DEF Rewritten
    <3>2. proc[q] = [k \in DOMAIN Idle |-> proc[q][k]]
      BY DEF Inv, ProcOK, FrameOK
    <3> QED  BY <3>1, <3>2 DEF GoesOn, Idle
  <2>3. \A q \in Procs : GoesOn(q)
    BY <2>2 DEF GoesOn
  <2> QED  BY <2>1, <2>3, SettlingKept
<1> QED  BY <1>1, <1>2

LEMMA SettlingNext == Inv /\ Settling /\ [Next]_vars => Settling'
<1> SUFFICES ASSUME Inv, Settling, [Next]_vars PROVE Settling'
  OBVIOUS
<1>1. ASSUME UNCHANGED <<cache, scars>>, NEW what, Disturb(what),
             tree' = tree \/ what = "files"
      PROVE  Settling'
  <2>1. \A q \in Procs : GoesOn(q)
    BY <1>1, DisturbSpares, SparedGoesOn DEF Inv, ProcOK
  <2> QED  BY <1>1, <2>1, SettlingKept
<1>2. ASSUME NEW new \in Trees, Edit(new) PROVE Settling'
  BY <1>1, <1>2 DEF Edit
<1>3. ASSUME NEW signer \in Signers, Publish(signer) PROVE Settling'
  BY <1>1, <1>3 DEF Publish
<1>4. ASSUME NEW v \in Versions, NEW m \in registry.pushed \cup {None}, Retag(v, m)
      PROVE  Settling'
  BY <1>1, <1>4 DEF Retag
<1>5. ASSUME NEW p \in Procs, Run(p) PROVE Settling'
  <2>1. CASE ~Extract(p) /\ ~Crash(p)
    BY <1>5, <2>1, NotExtracting, SettlingKept
  <2> QED  BY <2>1, SettlingExtract, SettlingCrash
<1>6. CASE UNCHANGED vars
  <2>1. UNCHANGED <<cache, scars>> /\ \A q \in Procs : GoesOn(q)
    BY <1>6 DEF vars, GoesOn
  <2> QED  BY <2>1, SettlingKept
<1> QED  BY <1>2, <1>3, <1>4, <1>5, <1>6 DEF Next

LEMMA SettlingInit == Init => Settling
  BY SentinelsOK DEF Init, Settling, Members, Empty

LEMMA SettledCache == Inv /\ Settling => CacheSettles
<1> SUFFICES ASSUME Inv, Settling, NEW m \in registry.pushed \ scars, Extracting(m) = {}
             PROVE  cache[m] \in {Empty, m.bundle}
  BY DEF CacheSettles
<1>1. m \in Manifests /\ cache[m] \in Loaded /\ m.bundle \in Trees
  BY ManifestFacts DEF Inv, StoresOK
<1>2. cache[m].root \in {None, m.bundle.root} /\ cache[m].part \in {None, m.bundle.part}
  <2>1. \A f \in Members : cache[m][f] \in {None, m.bundle[f]}
    BY <1>1 DEF Inv, StoresOK, Settling
  <2> QED  BY <2>1 DEF Members, Empty
<1>3. cache[m].root = None <=> cache[m].part = None
  BY <1>1 DEF Settling
<1>4. cache[m] = [root |-> cache[m].root, part |-> cache[m].part]
      /\ m.bundle = [root |-> m.bundle.root, part |-> m.bundle.part]
  BY <1>1 DEF Loaded, Trees
<1>5. m.bundle.root # None /\ m.bundle.part # None
  BY <1>1, ManifestFacts DEF Members, Empty
<1> QED  BY <1>2, <1>3, <1>4, <1>5 DEF Empty

(***************************************************************************)
(* Processes that extract one manifest at once, each emptying what another *)
(* has written, leave it whole when the last of them is done; only a       *)
(* process that dies extracting leaves an entry that nothing repairs.      *)
(***************************************************************************)
THEOREM CacheSettlesCorrect == Spec => []CacheSettles
<1> QED  BY SettlingInit, SettledCache, InvInit, InvNext, SettlingNext, PTL DEF Spec
-----------------------------------------------------------------------------
(***************************************************************************)
(* What was verified loads.  An import is loadable under a lockfile when   *)
(* every check of it passes; of a registry module that stays true whatever *)
(* is pushed or retagged, of a local one until the files are edited.       *)
(***************************************************************************)
Loadable(records, import, root, pushed) ==
    LET r == LockRecordFor(records, import)
        m == r.found.manifest
    IN  \/ /\ import.class = "local" /\ Policy.local
           /\ root.version \in import.versions /\ Pinned(root, import.digest)
           /\ r # None => Pinned(root, r.found.content)
           /\ import.params \subseteq root.params
        \/ /\ import.class = "oci" /\ Policy.registry
           /\ r # None /\ m \in pushed /\ r.found.id = m.bundle.root.id
           /\ m.bundle.root.version \in import.versions /\ Pinned(m.bundle, import.digest)
           /\ Policy.required => m.signer \in Policy.trusted
           /\ import.params \subseteq m.bundle.root.params
AllLoadable(records, scenario, root, pushed) ==
    \A i \in 1 .. Len(scenario) : Loadable(records, scenario[i], root, pushed)

Vouched == \A s \in verified : AllLoadable(lock, s, tree.root, registry.pushed)

\* A load that began sure of itself has only loadable imports.
SureOK(p) ==
    /\ proc[p].stage # "idle" /\ proc[p].cmd = "load"
    /\ proc[p].sure /\ "files" \notin proc[p].disturbed
    => AllLoadable(proc[p].lock, proc[p].scenario, tree.root, registry.pushed)

\* What a lock record names is what is fetched.
WantOK(p) ==
    proc[p].stage = "fetch" /\ Locked(p) # None =>
        proc[p].want = [manifest |-> Locked(p).found.manifest]

\* The checks that the import a process is at has passed.
PassedOK(p) ==
    /\ proc[p].stage \in {"fetch", "extract", "ready"} => Policy.registry
    /\ proc[p].stage \in {"extract", "ready"} => ManifestAccepted(p, proc[p].got.manifest)
    /\ proc[p].stage \in {"read", "nested"} /\ OfRegistry(p) =>
          /\ Policy.registry /\ ManifestAccepted(p, proc[p].got.manifest)
          /\ Effective(p).params \subseteq proc[p].got.manifest.bundle.root.params
    /\ proc[p].stage \in {"read", "nested"} /\ OfTree(p) => LocalAccepted(p)

\* The lockfile records an import, or need not.
Recorded(records, import) ==
    \/ import.class = "local"
    \/ import.class = "oci" /\ LockRecordFor(records, import) # None

\* verify-imports: what it resolved are the records of the imports, and what it
\* then loads, while nothing disturbs it, is loadable.
Resolves(p) ==
    /\ proc[p].lock # None
    /\ \A i \in 1 .. Len(proc[p].out) :
          \E f : /\ proc[p].out[i] = Record(proc[p].scenario[i], f)
                 /\ proc[p].scenario[i].class \in {"local", "oci"}
Verifies(p) ==
    /\ \A i \in 1 .. Len(proc[p].scenario) : Recorded(proc[p].lock, proc[p].scenario[i])
    /\ \A i \in 1 .. Len(proc[p].out) :
          Loadable(proc[p].lock, proc[p].scenario[i], tree.root, registry.pushed)
    /\ PassedOK(p)
VerifyOK(p) ==
    proc[p].stage # "idle" /\ proc[p].cmd = "verify" =>
        /\ proc[p].disturbed = {} => proc[p].lock = lock
        /\ ~proc[p].locks => Resolves(p)
        /\ proc[p].locks /\ proc[p].disturbed = {} => Verifies(p)

\* The inductive invariant, beside Inv.
Vouching == /\ Vouched /\ VerifiedLoads
            /\ \A p \in Procs : SureOK(p) /\ WantOK(p) /\ VerifyOK(p)

\* verify-imports finds a record again: its import has a namespace.
Namespaced == \A import \in Imports : import.class = "oci" => import.ns # ""

LEMMA LoadableStays ==
    ASSUME NEW records, NEW import, NEW root, NEW pushed \in SUBSET Manifests, NEW more,
           pushed \subseteq more, Loadable(records, import, root, pushed)
    PROVE  Loadable(records, import, root, more)
  BY DEF Loadable, Members, Empty

LEMMA NowLoadable ==
    ASSUME StoresOK, Forward, NEW records, NEW import, NEW root,
           Loadable(records, import, root, registry.pushed)
    PROVE  Loadable(records, import, root, registry'.pushed)
  BY LoadableStays DEF StoresOK, Forward

LEMMA AllNowLoadable ==
    ASSUME StoresOK, Forward, NEW records, NEW scenario, NEW root,
           AllLoadable(records, scenario, root, registry.pushed)
    PROVE  AllLoadable(records, scenario, root, registry'.pushed)
  BY NowLoadable DEF AllLoadable

\* The lockfile a running process takes note of.
KeepsLock(q) == lock' = lock \/ proc[q].stage = "idle" \/ proc'[q].disturbed # {}

LEMMA SparedVouching ==
    ASSUME Inv, NEW q \in Procs, SureOK(q), WantOK(q), VerifyOK(q),
           Spared(q), KeepsLock(q), Forward
    PROVE  SureOK(q)' /\ WantOK(q)' /\ VerifyOK(q)'
<1>1. StoresOK /\ FrameOK(q) /\ FoundOK(q)
  BY DEF Inv, ProcOK
<1>2. SameFrame(q) /\ Effective(q)' = Effective(q) /\ Locked(q)' = Locked(q)
      /\ OfTree(q)' = OfTree(q)
  BY <1>1, SparedSame, SparedTask
<1>3. proc[q].stage # "idle" /\ "files" \notin proc'[q].disturbed =>
          tree' = tree /\ "files" \notin proc[q].disturbed
  BY <1>1, SparedSame
<1>4. proc[q].stage # "idle" /\ proc'[q].disturbed = {} =>
          tree' = tree /\ lock' = lock /\ proc[q].disturbed = {}
  <2>1. proc[q] = [k \in DOMAIN Idle |-> proc[q][k]]
    BY <1>1 DEF FrameOK
  <2>2. proc'[q].disturbed = {} => proc[q].disturbed = {}
    BY <2>1 DEF Spared, Idle
  <2> QED  BY <1>3, <2>2 DEF KeepsLock
<1>5. SureOK(q)'
  BY <1>1, <1>2, <1>3, AllNowLoadable DEF SureOK, SameFrame
<1>6. WantOK(q)'
  BY <1>2 DEF WantOK, SameFrame
<1>7. VerifyOK(q)'
  <2>1. SUFFICES ASSUME proc[q].stage # "idle", proc[q].cmd = "verify"
                 PROVE  /\ proc'[q].disturbed = {} => proc'[q].lock = lock'
                        /\ ~proc'[q].locks => Resolves(q)'
                        /\ proc'[q].locks /\ proc'[q].disturbed = {} => Verifies(q)'
    BY <1>2 DEF VerifyOK, SameFrame
  <2>2. proc'[q].disturbed = {} => proc'[q].lock = lock'
    BY <1>2, <1>4, <2>1 DEF VerifyOK, SameFrame
  <2>3. ~proc'[q].locks => Resolves(q)'
    <3>1. Resolves(q) => Resolves(q)'
      <4>1. /\ proc'[q].lock = proc[q].lock /\ proc'[q].out = proc[q].out
            /\ proc'[q].scenario = proc[q].scenario
        BY <1>2 DEF SameFrame
      <4> QED  BY <4>1 DEF Resolves
    <3> QED  BY <1>2, <2>1, <3>1 DEF VerifyOK, SameFrame
  <2>4. ASSUME proc'[q].locks, proc'[q].disturbed = {} PROVE Verifies(q)'
    <3>1. Verifies(q) /\ tree' = tree
      BY <1>2, <1>4, <2>1, <2>4 DEF VerifyOK, SameFrame
    <3>2. \A i \in 1 .. Len(proc'[q].out) :
             Loadable(proc'[q].lock, proc'[q].scenario[i], tree'.root, registry'.pushed)
      BY <1>1, <1>2, <3>1, NowLoadable DEF Verifies, SameFrame
    <3>3. PassedOK(q)'
      <4>1. OfRegistry(q) \/ OfTree(q) => (OfRegistry(q)' => OfRegistry(q))
        BY <1>2 DEF OfRegistry, OfTree
      <4>2. proc[q].stage \in {"read", "nested"} => OfRegistry(q) \/ OfTree(q)
        BY <1>1 DEF FoundOK
      <4>3. LocalAccepted(q)' = LocalAccepted(q)
        BY <1>2, <3>1 DEF LocalAccepted
      <4>4. ManifestAccepted(q, proc[q].got.manifest)' =
               ManifestAccepted(q, proc[q].got.manifest)
        BY <1>2 DEF ManifestAccepted, SameFrame
      <4> QED  BY <1>2, <3>1, <4>1, <4>2, <4>3, <4>4 DEF PassedOK, Verifies, SameFrame
    <3> QED  BY <1>2, <3>1, <3>2, <3>3 DEF Verifies, SameFrame
  <2> QED  BY <2>2, <2>3, <2>4
<1> QED  BY <1>5, <1>6, <1>7

\* What the step of a process leaves to the others.
LEMMA RunSpares ==
    ASSUME Inv, NEW p \in Procs, Run(p)
    PROVE  /\ Forward /\ UNCHANGED <<tree, registry>>
           /\ \A q \in Procs \ {p} : Spared(q) /\ KeepsLock(q)
<1>1. UNCHANGED <<tree, registry>>
  BY DEF Run, Start, Unlocked, ResolveLocal, SelectTag, FetchManifest, Extract, Accept,
         ReadRoot, ReadPart, Continue, WriteLock, Crash, Unreachable
<1>2. Forward
  <2>1. CASE Extract(p)
    BY <1>1, <2>1, ExtractWrites DEF Forward
  <2>2. CASE Crash(p)
    BY <1>1, <2>2 DEF Crash, Forward
  <2>3. CASE ~Extract(p) /\ ~Crash(p)
    BY <1>1, <2>3, NotExtracting DEF Forward
  <2> QED  BY <2>1, <2>2, <2>3
<1>3. ASSUME proc' = Rewritten(p), NEW q \in Procs \ {p} PROVE Spared(q) /\ KeepsLock(q)
  <2>1. FrameOK(q)
    BY DEF Inv, ProcOK
  <2>2. CASE proc[q].stage = "idle"
    BY <1>1, <1>3, <2>1, <2>2 DEF Rewritten, FrameOK, Spared, KeepsLock
  <2>3. CASE proc[q].stage # "idle"
    <3>1. proc'[q] = [proc[q] EXCEPT !.disturbed = @ \cup {"lock"}]
      BY <1>3, <2>3 DEF Rewritten
    <3>2. "lock" \in proc'[q].disturbed
      BY <2>1, <3>1 DEF FrameOK, Idle
    <3> QED  BY <1>1, <2>3, <3>1, <3>2 DEF Spared, KeepsLock
  <2> QED  BY <2>2, <2>3
<1>4. ASSUME NEW frame, proc' = [proc EXCEPT ![p] = frame], UNCHANGED lock,
             NEW q \in Procs \ {p}
      PROVE  Spared(q) /\ KeepsLock(q)
  BY <1>1, <1>4 DEF Spared, KeepsLock, Inv
<1>5. CASE WriteLock(p) \/ Crash(p)
  <2>1. \/ proc' = Rewritten(p)
        \/ proc' = [proc EXCEPT ![p] = Idle] /\ UNCHANGED lock
    BY <1>5 DEF WriteLock, Crash
  <2>2. \A q \in Procs \ {p} : Spared(q) /\ KeepsLock(q)
    BY <1>3, <1>4, <2>1
  <2> QED  BY <1>1, <1>2, <2>2
<1>6. CASE ~WriteLock(p) /\ ~Crash(p)
  <2>1. UNCHANGED lock
    BY <1>6 DEF Run, Start, Unlocked, ResolveLocal, SelectTag, FetchManifest, Extract, Accept,
                ReadRoot, ReadPart, Continue, Unreachable, Fail, FailOver
  <2>2. \A q \in Procs \ {p} : proc'[q] = proc[q]
    BY <1>6 DEF Run, Start, Unlocked, ResolveLocal, SelectTag, FetchManifest, Extract, Accept,
                ReadRoot, ReadPart, Continue, Unreachable, Fail, FailOver, Inv
  <2>3. \A q \in Procs \ {p} : Spared(q) /\ KeepsLock(q)
    BY <1>1, <2>1, <2>2 DEF Spared, KeepsLock
  <2> QED  BY <1>1, <1>2, <2>3
<1> QED  BY <1>1, <1>2, <1>5, <1>6

LEMMA VouchingStep ==
    ASSUME Inv, Vouching, NEW p \in Procs, Run(p),
           SureOK(p)', WantOK(p)', VerifyOK(p)', VerifiedLoads', Vouched'
    PROVE  Vouching'
  BY RunSpares, SparedVouching DEF Vouching

LEMMA VouchedKept ==
    ASSUME StoresOK, Forward, Vouched, UNCHANGED <<tree, lock, verified>> PROVE Vouched'
  BY AllNowLoadable DEF Vouched

\* A process stands idle, or at another stage of the same import.
LEMMA IdleVouches ==
    ASSUME NEW p, proc'[p].stage = "idle" PROVE SureOK(p)' /\ WantOK(p)' /\ VerifyOK(p)'
  BY DEF SureOK, WantOK, VerifyOK

LEMMA OwnVouching ==
    ASSUME Inv, NEW p \in Procs, SureOK(p), VerifyOK(p), UNCHANGED <<tree, lock>>, Forward,
           proc[p].stage # "idle",
           proc'[p].cmd = proc[p].cmd, proc'[p].scenario = proc[p].scenario,
           proc'[p].lock = proc[p].lock, proc'[p].locks = proc[p].locks,
           proc'[p].out = proc[p].out, proc'[p].disturbed = proc[p].disturbed,
           proc'[p].sure = proc[p].sure,
           proc[p].cmd = "verify" /\ proc[p].locks /\ proc[p].disturbed = {} => PassedOK(p)'
    PROVE  SureOK(p)' /\ VerifyOK(p)'
<1>1. StoresOK
  BY DEF Inv
<1>2. SureOK(p)'
  BY <1>1, AllNowLoadable DEF SureOK
<1>3. VerifyOK(p)'
  <2>1. ASSUME proc[p].cmd = "verify" PROVE ~proc[p].locks => Resolves(p)'
    BY <2>1 DEF VerifyOK, Resolves
  <2>2. ASSUME proc[p].cmd = "verify", proc[p].locks, proc[p].disturbed = {}
        PROVE  Verifies(p)'
    BY <1>1, <2>2, NowLoadable DEF VerifyOK, Verifies
  <2> QED  BY <2>1, <2>2 DEF VerifyOK
<1> QED  BY <1>2, <1>3

\* The import a process is at, while nothing can go wrong with it.
Sure(p) == proc[p].cmd = "load" /\ proc[p].sure /\ "files" \notin proc[p].disturbed

LEMMA PlainImport ==
    ASSUME NEW p, FrameOK(p), proc[p].stage \notin {"idle", "compare", "write"},
           Import(p).class # "locked"
    PROVE  /\ Effective(p) = Import(p) /\ Effective(p) # None
           /\ proc[p].locks => Locked(p) = LockRecordFor(proc[p].lock, Import(p))
  BY EffectiveFacts, ImportFacts DEF Effective, Locked, InUse, Delegated

LEMMA AtImport ==
    ASSUME NEW p, FrameOK(p), proc[p].stage \notin {"idle", "compare", "write"}
    PROVE  /\ Len(proc[p].out) \in Nat /\ Len(proc[p].scenario) \in Nat
           /\ Len(proc[p].out) + 1 \in 1 .. Len(proc[p].scenario)
<1>1. Len(proc[p].out) \in Nat
  BY LenProperties DEF FrameOK
<1>2. Len(proc[p].scenario) \in Nat
  BY ScenarioFacts DEF FrameOK
<1> QED  BY <1>1, <1>2 DEF FrameOK

LEMMA SureImport ==
    ASSUME Inv, NEW p \in Procs, SureOK(p), Sure(p),
           proc[p].stage \notin {"idle", "compare", "write"}
    PROVE  /\ Loadable(proc[p].lock, Import(p), tree.root, registry.pushed)
           /\ Effective(p) = Import(p) /\ Effective(p) # None
           /\ Locked(p) = LockRecordFor(proc[p].lock, Import(p))
<1>1. FrameOK(p) /\ proc[p].locks
  BY DEF Inv, ProcOK, FrameOK, Sure
<1>2. Loadable(proc[p].lock, Import(p), tree.root, registry.pushed)
  BY <1>1, AtImport DEF SureOK, Sure, AllLoadable, Import
<1>3. Import(p).class # "locked"
  BY <1>2 DEF Loadable
<1> QED  BY <1>1, <1>2, <1>3, PlainImport

\* Of a load that is not sure of itself, or fails of a cause, nothing is promised.
LEMMA FailOverVouching ==
    ASSUME Inv, Vouching, NEW p \in Procs, Run(p), NEW causes, FailOver(p, causes),
           ~Sure(p) \/ causes # {}
    PROVE  Vouching'
<1>1. UNCHANGED <<tree, lock, verified>> /\ Forward
  BY RunSpares DEF FailOver
<1>2. Vouched'
  BY <1>1, VouchedKept DEF Inv, Vouching
<1>3. proc'[p].stage = "idle"
  BY DEF FailOver, Inv, Idle
<1>4. VerifiedLoads'
  BY FailedFacts DEF VerifiedLoads, Sure
<1> QED  BY <1>2, <1>3, <1>4, IdleVouches, VouchingStep

LEMMA FailVouching ==
    ASSUME Inv, Vouching, NEW p \in Procs, Run(p), Fail(p), ~Sure(p)
    PROVE  Vouching'
  BY FailOverVouching DEF Fail

\* Of a step that ends no command, what the process itself is left with says all.
LEMMA GoOnVouching ==
    ASSUME Inv, Vouching, NEW p \in Procs, Run(p), UNCHANGED <<lock, last, verified>>,
           SureOK(p)', WantOK(p)', VerifyOK(p)'
    PROVE  Vouching'
<1>1. UNCHANGED tree /\ Forward
  BY RunSpares
<1>2. Vouched'
  BY <1>1, VouchedKept DEF Inv, Vouching
<1>3. VerifiedLoads'
  BY DEF Vouching, VerifiedLoads
<1> QED  BY <1>2, <1>3, VouchingStep

LEMMA StartVouching ==
    ASSUME Inv, Vouching, NEW p \in Procs, NEW cmd \in Jobs[p], NEW scenario \in Scenarios,
           Start(p, cmd, scenario)
    PROVE  Vouching'
<1>0. Run(p) /\ UNCHANGED <<tree, registry, lock, cache, verified>> /\ Forward
  BY RunSpares DEF Run, Start
<1>1. Vouched'
  BY <1>0, VouchedKept DEF Inv, Vouching
<1>2. VerifiedLoads'
  <2>1. ~last'.sure \/ last'.ok
    <3>1. CASE last' = Nothing
      BY <3>1 DEF Nothing
    <3>2. CASE last' = [Nothing EXCEPT !.cmd = cmd, !.scenario = scenario, !.ok = FALSE]
      BY <3>2 DEF Nothing
    <3> QED  BY <3>1, <3>2 DEF Start
  <2> QED  BY <2>1 DEF VerifiedLoads
<1>3. CASE UNCHANGED proc
  <2>1. proc'[p].stage = "idle"
    BY <1>3 DEF Start
  <2> QED  BY <1>0, <1>1, <1>2, <2>1, IdleVouches, VouchingStep
<1>4. CASE proc' = [proc EXCEPT ![p] = Begin(cmd, scenario, cmd = "load")]
  <2>1. /\ proc'[p].cmd = cmd /\ proc'[p].scenario = scenario
        /\ proc'[p].stage = "resolve" /\ proc'[p].out = <<>>
        /\ cmd # "resolve" => proc'[p].lock = lock
        /\ cmd = "verify" => proc'[p].locks = FALSE /\ lock # None
        /\ proc'[p].sure <=> scenario \in verified
    BY <1>4 DEF Begin, Idle, Inv, Start
  <2>2. SureOK(p)'
    BY <1>0, <2>1 DEF SureOK, Vouching, Vouched
  <2>3. WantOK(p)'
    BY <2>1 DEF WantOK
  <2>4. VerifyOK(p)'
    <3>1. cmd = "verify" => Resolves(p)'
      BY <2>1 DEF Resolves
    <3> QED  BY <1>0, <2>1, <3>1 DEF VerifyOK
  <2> QED  BY <1>0, <1>1, <1>2, <2>2, <2>3, <2>4, VouchingStep
<1> QED  BY <1>3, <1>4 DEF Start

LEMMA ResolvedFrame ==
    ASSUME Inv, NEW p \in Procs, NEW found, proc' = [proc EXCEPT ![p] = Resolved(p, found)]
    PROVE  /\ proc'[p].cmd = proc[p].cmd /\ proc'[p].scenario = proc[p].scenario
           /\ proc'[p].lock = proc[p].lock /\ proc'[p].locks = proc[p].locks
           /\ proc'[p].disturbed = proc[p].disturbed /\ proc'[p].sure = proc[p].sure
           /\ proc[p].locks => /\ proc'[p].out = proc[p].out
                               /\ proc'[p].stage = "read" /\ proc'[p].got = found
           /\ ~proc[p].locks => /\ proc'[p].stage = "compare"
                                /\ proc'[p].out = Append(proc[p].out, Record(Import(p), found))
<1> DEFINE r == Record(Import(p), found)
           reading == [proc[p] EXCEPT !.stage = "read", !.got = found]
           noted == [proc[p] EXCEPT !.stage = "compare", !.out = Append(@, r)]
<1>1. FrameOK(p)
  BY DEF Inv, ProcOK
<1>2. /\ reading.cmd = proc[p].cmd /\ reading.scenario = proc[p].scenario
      /\ reading.lock = proc[p].lock /\ reading.locks = proc[p].locks
      /\ reading.disturbed = proc[p].disturbed /\ reading.sure = proc[p].sure
      /\ reading.out = proc[p].out /\ reading.stage = "read" /\ reading.got = found
  BY <1>1 DEF FrameOK, Idle
<1>3. proc'[p] = IF proc[p].locks THEN reading ELSE noted
  BY DEF Resolved, Inv
<1> HIDE DEF r
<1>4. /\ noted.cmd = proc[p].cmd /\ noted.scenario = proc[p].scenario
      /\ noted.lock = proc[p].lock /\ noted.locks = proc[p].locks
      /\ noted.disturbed = proc[p].disturbed /\ noted.sure = proc[p].sure
      /\ noted.out = Append(proc[p].out, r) /\ noted.stage = "compare"
  BY <1>1 DEF FrameOK, Idle
<1> HIDE DEF reading, noted
<1>5. CASE proc[p].locks
  <2>1. proc'[p] = reading
    BY <1>3, <1>5
  <2> QED  BY <1>2, <1>5, <2>1
<1>6. CASE ~proc[p].locks
  <2>1. proc'[p] = noted
    BY <1>3, <1>6
  <2> QED  BY <1>4, <1>6, <2>1 DEF r
<1> QED  BY <1>5, <1>6

\* An import resolved, and for a lockfile in use, found to pass its checks.
LEMMA ResolvedVouching ==
    ASSUME Inv, Vouching, NEW p \in Procs, NEW found, Run(p),
           proc' = [proc EXCEPT ![p] = Resolved(p, found)],
           proc[p].stage \in {"resolve", "ready"}, Effective(p) # None,
           UNCHANGED <<lock, last, verified>>,
           proc[p].cmd = "verify" /\ proc[p].locks /\ proc[p].disturbed = {} =>
              /\ Effective(p).class = "oci" =>
                    /\ Policy.registry /\ ManifestAccepted(p, found.manifest)
                    /\ Effective(p).params \subseteq found.manifest.bundle.root.params
              /\ Effective(p).class = "local" => LocalAccepted(p)
    PROVE  Vouching'
<1>0. /\ FrameOK(p) /\ UNCHANGED <<tree, registry>> /\ Forward
      /\ proc[p].cmd = "load" => proc[p].locks
  BY RunSpares DEF Inv, ProcOK, FrameOK
<1>1. CASE proc[p].locks
  <2>2. /\ proc'[p].cmd = proc[p].cmd /\ proc'[p].scenario = proc[p].scenario
        /\ proc'[p].lock = proc[p].lock /\ proc'[p].locks = proc[p].locks
        /\ proc'[p].out = proc[p].out /\ proc'[p].disturbed = proc[p].disturbed
        /\ proc'[p].sure = proc[p].sure /\ proc'[p].stage = "read" /\ proc'[p].got = found
    BY <1>1, ResolvedFrame, ZenonT(60)
  <2>3. Effective(p)' = Effective(p) /\ Locked(p)' = Locked(p)
    BY <2>2, SameTask
  <2>4. proc[p].cmd = "verify" /\ proc[p].disturbed = {} => PassedOK(p)'
    <3>1. ManifestAccepted(p, found.manifest)' = ManifestAccepted(p, found.manifest)
      BY <2>3 DEF ManifestAccepted
    <3>2. LocalAccepted(p)' = LocalAccepted(p)
      BY <1>0, <2>3 DEF LocalAccepted
    <3> QED  BY <1>1, <2>2, <2>3, <3>1, <3>2 DEF PassedOK, OfRegistry, OfTree, ManifestAccepted
  <2>5. SureOK(p)' /\ VerifyOK(p)'
    BY <1>0, <2>2, <2>4, OwnVouching DEF Vouching
  <2>6. WantOK(p)'
    BY <2>2 DEF WantOK
  <2> QED  BY <2>5, <2>6, GoOnVouching
<1>2. CASE ~proc[p].locks
  <2> DEFINE r == Record(Import(p), found)
  <2>2. /\ proc'[p].cmd = proc[p].cmd /\ proc'[p].scenario = proc[p].scenario
        /\ proc'[p].lock = proc[p].lock /\ proc'[p].locks = proc[p].locks
        /\ proc'[p].out = Append(proc[p].out, r) /\ proc'[p].disturbed = proc[p].disturbed
        /\ proc'[p].stage = "compare" /\ proc[p].cmd # "load"
    <3>1. /\ proc'[p].cmd = proc[p].cmd /\ proc'[p].scenario = proc[p].scenario
          /\ proc'[p].lock = proc[p].lock /\ proc'[p].locks = proc[p].locks
          /\ proc'[p].disturbed = proc[p].disturbed
      BY ResolvedFrame
    <3>2. proc'[p].stage = "compare" /\ proc'[p].out = Append(proc[p].out, r)
      BY <1>2, ResolvedFrame
    <3> QED  BY <1>0, <1>2, <3>1, <3>2
  <2>3. Import(p).class \in {"local", "oci"}
    BY <1>0, <1>2, EffectiveFacts
  <2>4. Resolves(p) => Resolves(p)'
    <3>1. /\ Len(proc[p].out) \in Nat
          /\ Len(Append(proc[p].out, r)) = Len(proc[p].out) + 1
          /\ \A i \in 1 .. Len(proc[p].out) : Append(proc[p].out, r)[i] = proc[p].out[i]
          /\ Append(proc[p].out, r)[Len(proc[p].out) + 1] = r
      <4>1. proc[p].out \in Seq(LockRecords \cup {r})
        BY <1>0, <1>2, SeqMonotonic DEF FrameOK
      <4> HIDE DEF r
      <4> QED  BY <4>1, AppendProperties, LenProperties
    <3>2. ASSUME Resolves(p), NEW i \in 1 .. Len(proc[p].out) + 1
          PROVE  \E f : /\ Append(proc[p].out, r)[i] = Record(proc[p].scenario[i], f)
                        /\ proc[p].scenario[i].class \in {"local", "oci"}
      <4>1. CASE i = Len(proc[p].out) + 1
        BY <2>3, <3>1, <4>1 DEF Import
      <4>2. CASE i \in 1 .. Len(proc[p].out)
        BY <3>1, <3>2, <4>2 DEF Resolves
      <4> QED  BY <3>1, <4>1, <4>2
    <3>3. Resolves(p) => proc'[p].lock # None /\ \A i \in 1 .. Len(proc'[p].out) :
             \E f : /\ proc'[p].out[i] = Record(proc'[p].scenario[i], f)
                    /\ proc'[p].scenario[i].class \in {"local", "oci"}
      <4>1. /\ Len(proc'[p].out) = Len(proc[p].out) + 1
            /\ proc'[p].out = Append(proc[p].out, r) /\ proc'[p].scenario = proc[p].scenario
        BY <2>2, <3>1
      <4>2. proc'[p].lock = proc[p].lock
        BY <2>2
      <4> HIDE DEF r
      <4>3. ASSUME Resolves(p), NEW i \in 1 .. Len(proc'[p].out)
            PROVE  \E f : /\ proc'[p].out[i] = Record(proc'[p].scenario[i], f)
                          /\ proc'[p].scenario[i].class \in {"local", "oci"}
        BY <3>2, <4>1, <4>3
      <4> QED  BY <4>2, <4>3 DEF Resolves
    <3> QED  BY <3>3 DEF Resolves
  <2>5. SureOK(p)' /\ WantOK(p)'
    BY <2>2 DEF SureOK, WantOK
  <2>6. VerifyOK(p)'
    BY <1>2, <2>2, <2>4 DEF VerifyOK, Vouching
  <2> QED  BY <2>5, <2>6, GoOnVouching
<1> QED  BY <1>1, <1>2

LEMMA UnlockedVouching ==
    ASSUME Inv, Vouching, NEW p \in Procs, Unlocked(p) PROVE Vouching'
<1>1. Run(p) /\ Fail(p) /\ Effective(p) = None /\ proc[p].stage = "resolve"
  BY DEF Run, Unlocked
<1>2. ~Sure(p)
  BY <1>1, SureImport DEF Vouching
<1> QED  BY <1>1, <1>2, FailVouching

LEMMA UnreachableVouching ==
    ASSUME Inv, Vouching, NEW p \in Procs, Unreachable(p) PROVE Vouching'
<1>1. Run(p) /\ FailOver(p, {"outage"}) /\ {"outage"} # {}
  BY DEF Run, Unreachable
<1> QED  BY <1>1, FailOverVouching

LEMMA LocalVouching ==
    ASSUME Inv, Vouching, NEW p \in Procs, ResolveLocal(p) PROVE Vouching'
<1>1. Run(p) /\ proc[p].stage = "resolve" /\ Effective(p) # None
      /\ Effective(p).class = "local"
  BY DEF Run, ResolveLocal
<1>2. CASE LocalAccepted(p)
  BY <1>1, <1>2, ResolvedVouching DEF ResolveLocal
<1>3. CASE ~LocalAccepted(p)
  <2>1. ~Sure(p)
    BY <1>1, <1>3, SureImport DEF Vouching, Loadable, LocalAccepted
  <2> QED  BY <1>1, <1>3, <2>1, FailVouching DEF ResolveLocal
<1> QED  BY <1>2, <1>3

LEMMA SelectTagVouching ==
    ASSUME Inv, Vouching, NEW p \in Procs, SelectTag(p) PROVE Vouching'
<1>1. Run(p) /\ proc[p].stage = "resolve" /\ Effective(p) # None
      /\ Effective(p).class = "oci" /\ FrameOK(p)
  BY DEF Run, SelectTag, Inv, ProcOK
<1>2. CASE ~Policy.registry \/ (Locked(p) = None /\ Tagged \cap Effective(p).versions = {})
  <2>1. ~Sure(p)
    BY <1>1, <1>2, SureImport DEF Vouching, Loadable
  <2> QED  BY <1>1, <1>2, <2>1, FailVouching DEF SelectTag
<1>3. CASE Policy.registry /\ (Locked(p) # None \/ Tagged \cap Effective(p).versions # {})
  <2> DEFINE frame == [proc[p] EXCEPT !.stage = "fetch", !.want = Reference(p)]
  <2>1. /\ proc' = [proc EXCEPT ![p].stage = "fetch", ![p].want = Reference(p)]
        /\ UNCHANGED <<tree, registry, lock, cache, last, verified, scars>>
    BY <1>3 DEF SelectTag
  <2>2. /\ frame.cmd = proc[p].cmd /\ frame.scenario = proc[p].scenario
        /\ frame.lock = proc[p].lock /\ frame.locks = proc[p].locks
        /\ frame.out = proc[p].out /\ frame.disturbed = proc[p].disturbed
        /\ frame.sure = proc[p].sure /\ frame.stage = "fetch" /\ frame.want = Reference(p)
    BY <1>1 DEF FrameOK, Idle
  <2>3. proc'[p] = frame
    BY <2>1 DEF Inv
  <2> HIDE DEF frame
  <2>4. Effective(p)' = Effective(p) /\ Locked(p)' = Locked(p)
    BY <2>2, <2>3, SameTask
  <2>5. PassedOK(p)'
    BY <1>3, <2>2, <2>3 DEF PassedOK
  <2>6. SureOK(p)' /\ VerifyOK(p)'
    BY <1>1, <2>1, <2>2, <2>3, <2>5, RunSpares, OwnVouching DEF Vouching
  <2>7. WantOK(p)'
    BY <2>2, <2>3, <2>4 DEF WantOK, Reference
  <2> QED  BY <1>1, <2>1, <2>6, <2>7, GoOnVouching
<1> QED  BY <1>2, <1>3

LEMMA FetchVouching ==
    ASSUME Inv, Vouching, NEW p \in Procs, FetchManifest(p) PROVE Vouching'
<1> DEFINE m == Fetched(proc[p].want)
           found == Found(m, m.bundle, m.bundle.root, m.signer)
           hit == [proc[p] EXCEPT !.want = None, !.got = found, !.stage = "ready"]
           miss == [proc[p] EXCEPT !.want = None, !.got = found, !.stage = "extract",
                                   !.left = ToExtract]
           frame == IF CacheHit(m) THEN hit ELSE miss
<1>1. Run(p) /\ proc[p].stage = "fetch" /\ FrameOK(p) /\ FoundOK(p)
      /\ Effective(p) # None /\ Effective(p).class = "oci"
  BY DEF Run, FetchManifest, Inv, ProcOK, FoundOK
<1>2. CASE m = None \/ ~ManifestAccepted(p, m)
  <2>1. ASSUME Sure(p) PROVE FALSE
    <3>1. /\ Loadable(proc[p].lock, Effective(p), tree.root, registry.pushed)
          /\ Locked(p) = LockRecordFor(proc[p].lock, Effective(p))
      BY <1>1, <2>1, SureImport DEF Vouching
    <3>2. /\ Locked(p) # None /\ Locked(p).found.manifest \in registry.pushed
          /\ ManifestAccepted(p, Locked(p).found.manifest)
      BY <1>1, <3>1 DEF Loadable, ManifestAccepted
    <3>3. m = Locked(p).found.manifest
      <4>1. proc[p].want = [manifest |-> Locked(p).found.manifest]
        BY <1>1, <3>2 DEF Vouching, WantOK
      <4> QED  BY <4>1 DEF Fetched
    <3>4. m # None
      BY <3>2, <3>3, ManifestFacts DEF Inv, StoresOK
    <3> QED  BY <1>2, <3>2, <3>3, <3>4
  <2> QED  BY <1>1, <1>2, <2>1, FailVouching DEF FetchManifest
<1>3. CASE m # None /\ ManifestAccepted(p, m)
  <2>1. /\ proc' = [proc EXCEPT ![p] = frame]
        /\ UNCHANGED <<tree, registry, lock, cache, last, verified, scars>>
    BY <1>3 DEF FetchManifest
  <2>2. found.manifest = m
    BY DEF Found
  <2>3. /\ frame.cmd = proc[p].cmd /\ frame.scenario = proc[p].scenario
        /\ frame.lock = proc[p].lock /\ frame.locks = proc[p].locks
        /\ frame.out = proc[p].out /\ frame.disturbed = proc[p].disturbed
        /\ frame.sure = proc[p].sure /\ frame.stage \in {"ready", "extract"}
        /\ frame.got = found
    <3> HIDE DEF found, m
    <3> QED  BY <1>1 DEF FrameOK, Idle
  <2>4. proc'[p] = frame
    BY <2>1 DEF Inv
  <2> HIDE DEF frame, hit, miss, found, m
  <2>5. Effective(p)' = Effective(p) /\ Locked(p)' = Locked(p)
    BY <2>3, <2>4, SameTask
  <2>6. proc[p].cmd = "verify" /\ proc[p].locks /\ proc[p].disturbed = {} => PassedOK(p)'
    <3>1. proc[p].cmd = "verify" /\ proc[p].locks /\ proc[p].disturbed = {} => Policy.registry
      BY <1>1 DEF Vouching, VerifyOK, Verifies, PassedOK
    <3>2. (ManifestAccepted(p, proc[p].got.manifest))'
      BY <1>3, <2>2, <2>3, <2>4, <2>5 DEF ManifestAccepted
    <3> QED  BY <2>3, <2>4, <3>1, <3>2 DEF PassedOK
  <2>7. SureOK(p)' /\ VerifyOK(p)'
    BY <1>1, <2>1, <2>3, <2>4, <2>6, RunSpares, OwnVouching DEF Vouching
  <2>8. WantOK(p)'
    BY <2>3, <2>4 DEF WantOK
  <2> QED  BY <1>1, <2>1, <2>7, <2>8, GoOnVouching
<1> QED  BY <1>2, <1>3

LEMMA ExtractVouching ==
    ASSUME Inv, Vouching, NEW p \in Procs, Extract(p) PROVE Vouching'
<1> DEFINE opened == [proc[p] EXCEPT !.open = TRUE]
           written == [proc[p] EXCEPT !.open = FALSE, !.left = Tail(@),
                                      !.stage = IF Len(proc[p].left) = 1 THEN "ready" ELSE @]
           frame == IF ~proc[p].open THEN opened ELSE written
<1>1. /\ Run(p) /\ proc[p].stage = "extract" /\ FrameOK(p)
      /\ UNCHANGED <<tree, registry, lock, last, verified, scars>>
  BY DEF Run, Extract, Inv, ProcOK
<1>2. proc'[p] = frame
  BY DEF Extract, Inv
<1>3. /\ frame.cmd = proc[p].cmd /\ frame.scenario = proc[p].scenario
      /\ frame.lock = proc[p].lock /\ frame.locks = proc[p].locks
      /\ frame.out = proc[p].out /\ frame.disturbed = proc[p].disturbed
      /\ frame.sure = proc[p].sure /\ frame.stage \in {"ready", "extract"}
      /\ frame.got = proc[p].got
  BY <1>1 DEF FrameOK, Idle
<1> HIDE DEF frame, opened, written
<1>4. Effective(p)' = Effective(p) /\ Locked(p)' = Locked(p)
  BY <1>2, <1>3, SameTask
<1>5. PassedOK(p) => PassedOK(p)'
  BY <1>1, <1>2, <1>3, <1>4 DEF PassedOK, ManifestAccepted
<1>6. SureOK(p)' /\ VerifyOK(p)'
  <2>1. proc[p].cmd = "verify" /\ proc[p].locks /\ proc[p].disturbed = {} => PassedOK(p)'
    BY <1>1, <1>5 DEF Vouching, VerifyOK, Verifies
  <2> QED  BY <1>1, <1>2, <1>3, <2>1, RunSpares, OwnVouching DEF Vouching
<1>7. WantOK(p)'
  BY <1>2, <1>3 DEF WantOK
<1> QED  BY <1>1, <1>6, <1>7, GoOnVouching

LEMMA AcceptVouching ==
    ASSUME Inv, Vouching, NEW p \in Procs, Accept(p) PROVE Vouching'
<1>1. /\ Run(p) /\ proc[p].stage = "ready" /\ Effective(p) # None
      /\ Effective(p).class = "oci"
      /\ Locked(p) # None => Locked(p).found.manifest = proc[p].got.manifest
  BY DEF Run, Accept, Inv, ProcOK, FoundOK, OfRegistry
<1>2. CASE Effective(p).params \subseteq proc[p].got.manifest.bundle.root.params
  <2>1. /\ proc' = [proc EXCEPT ![p] = Resolved(p, proc[p].got)]
        /\ UNCHANGED <<lock, last, verified>>
    BY <1>2 DEF Accept
  <2>2. proc[p].cmd = "verify" /\ proc[p].locks /\ proc[p].disturbed = {} =>
           Policy.registry /\ ManifestAccepted(p, proc[p].got.manifest)
    BY <1>1 DEF Vouching, VerifyOK, Verifies, PassedOK
  <2> QED  BY <1>1, <1>2, <2>1, <2>2, ResolvedVouching
<1>3. CASE ~(Effective(p).params \subseteq proc[p].got.manifest.bundle.root.params)
  <2>1. ~Sure(p)
    BY <1>1, <1>3, SureImport DEF Vouching, Loadable
  <2> QED  BY <1>1, <1>3, <2>1, FailVouching DEF Accept
<1> QED  BY <1>2, <1>3

\* A file is unreadable for a reason: the lockfile was cut short, or the cache
\* entry has not settled.
LEMMA UnreadableForReason ==
    ASSUME Inv, Settling, NEW p \in Procs, proc[p].stage \in {"read", "nested"},
           NEW f \in Members, Unreadable(p, f)
    PROVE  Reasons(p) # {}
<1>1. CASE LockCut(p)
  BY <1>1 DEF Reasons
<1>2. CASE ~LockCut(p)
  <2>1. Place(p)[f] \in {None, Torn}
    BY <1>2 DEF Unreadable
  <2>2. CASE OfTree(p)
    <3>1. Place(p) = tree
      BY <2>2, PlaceFacts
    <3> QED  BY <2>1, <3>1, SentinelsOK DEF Inv, StoresOK, Trees, Members, Empty
  <2>3. CASE OfRegistry(p)
    <3> DEFINE m == proc[p].got.manifest
    <3>1. m \in registry.pushed /\ m \in Manifests
      BY <2>3, FoundFacts DEF OfRegistry, Inv, StoresOK
    <3>2. Place(p) = cache[m] /\ cache[m].root # None
      BY <2>3, PlaceFacts
    <3>3. m.bundle[f] \notin {None, Torn} /\ Empty.root = None
      BY <3>1, ManifestFacts DEF Empty
    <3>4. m \in scars \/ Extracting(m) # {}
      <4> HIDE DEF m
      <4> QED  BY <2>1, <3>1, <3>2, <3>3, SettledCache DEF CacheSettles
    <3> QED  BY <3>4 DEF Reasons
  <2> QED  BY <2>2, <2>3, PlaceFacts
<1> QED  BY <1>1, <1>2

LEMMA RootReadVouching ==
    ASSUME Inv, Vouching, NEW p \in Procs, ReadRoot(p), proc[p].stage = "read",
           proc' = [proc EXCEPT ![p].stage = "nested", ![p].root = Place(p).root],
           UNCHANGED <<tree, registry, lock, cache, last, verified, scars>>
    PROVE  Vouching'
<1> DEFINE frame == [proc[p] EXCEPT !.stage = "nested", !.root = Place(p).root]
<1>1. /\ Run(p) /\ proc[p].stage = "read" /\ FrameOK(p)
      /\ UNCHANGED <<tree, registry, lock, cache, last, verified, scars>>
  BY DEF Run, Inv, ProcOK
<1>2. /\ frame.cmd = proc[p].cmd /\ frame.scenario = proc[p].scenario
      /\ frame.lock = proc[p].lock /\ frame.locks = proc[p].locks
      /\ frame.out = proc[p].out /\ frame.disturbed = proc[p].disturbed
      /\ frame.sure = proc[p].sure /\ frame.stage = "nested" /\ frame.got = proc[p].got
  BY <1>1 DEF FrameOK, Idle
<1>3. proc'[p] = frame
  BY DEF Inv
<1> HIDE DEF frame
<1>4. Effective(p)' = Effective(p) /\ Locked(p)' = Locked(p)
  BY <1>2, <1>3, SameTask
<1>5. PassedOK(p) => PassedOK(p)'
  <2>1. OfRegistry(p)' = OfRegistry(p) /\ OfTree(p)' = OfTree(p)
    BY <1>1, <1>2, <1>3, <1>4 DEF OfRegistry, OfTree, OciFounds, LocalFounds, Found
  <2>2. /\ LocalAccepted(p)' = LocalAccepted(p)
        /\ ManifestAccepted(p, proc[p].got.manifest)' =
              ManifestAccepted(p, proc[p].got.manifest)
    BY <1>1, <1>2, <1>3, <1>4 DEF LocalAccepted, ManifestAccepted
  <2> QED  BY <1>1, <1>2, <1>3, <1>4, <2>1, <2>2 DEF PassedOK
<1>6. SureOK(p)' /\ VerifyOK(p)'
  <2>1. proc[p].cmd = "verify" /\ proc[p].locks /\ proc[p].disturbed = {} => PassedOK(p)'
    BY <1>1, <1>5 DEF Vouching, VerifyOK, Verifies
  <2> QED  BY <1>1, <1>2, <1>3, <2>1, RunSpares, OwnVouching DEF Vouching
<1>7. WantOK(p)'
  BY <1>2, <1>3 DEF WantOK
<1> QED  BY <1>1, <1>6, <1>7, GoOnVouching

LEMMA ReadRootVouching ==
    ASSUME Inv, Settling, Vouching, NEW p \in Procs, ReadRoot(p) PROVE Vouching'
<1>1. Run(p) /\ proc[p].stage = "read" /\ "root" \in Members
  BY DEF Run, ReadRoot, Members, Empty
<1>2. CASE Unreadable(p, "root") /\ FailOver(p, Reasons(p))
  BY <1>1, <1>2, UnreadableForReason, FailOverVouching
<1>3. CASE ~(Unreadable(p, "root") /\ FailOver(p, Reasons(p)))
  BY <1>3, RootReadVouching DEF ReadRoot
<1> QED  BY <1>2, <1>3

\* What verify-imports has read of an import shows that it is loadable.
LEMMA ReadIsLoadable ==
    ASSUME Inv, NEW p \in Procs, proc[p].stage = "nested", PassedOK(p),
           Recorded(proc[p].lock, Import(p))
    PROVE  Loadable(proc[p].lock, Import(p), tree.root, registry.pushed)
<1>1. FrameOK(p) /\ FoundOK(p) /\ proc[p].locks /\ (OfTree(p) \/ OfRegistry(p))
  BY DEF Inv, ProcOK, FoundOK
<1>2. /\ Effective(p) = Import(p) /\ Effective(p) # None
      /\ Locked(p) = LockRecordFor(proc[p].lock, Import(p))
  BY <1>1, PlainImport DEF Recorded
<1>3. CASE OfTree(p)
  BY <1>2, <1>3 DEF PassedOK, OfTree, LocalAccepted, Loadable
<1>4. CASE OfRegistry(p)
  <2> DEFINE m == proc[p].got.manifest
  <2>1. /\ Effective(p).class = "oci" /\ Locked(p) # None
        /\ Locked(p).found.manifest = m /\ m \in registry.pushed
    BY <1>2, <1>4, FoundFacts DEF Recorded, OfRegistry
  <2>2. Policy.registry /\ ManifestAccepted(p, m)
        /\ Effective(p).params \subseteq m.bundle.root.params
    BY <1>4 DEF PassedOK
  <2> QED  BY <1>2, <2>1, <2>2 DEF ManifestAccepted, Loadable
<1> QED  BY <1>1, <1>3, <1>4

LEMMA ReadPartVouching ==
    ASSUME Inv, Settling, Vouching, NEW p \in Procs, ReadPart(p) PROVE Vouching'
<1> DEFINE got == [root |-> proc[p].root, part |-> Place(p).part]
           frame == [proc[p] EXCEPT !.stage = "compare", !.root = None, !.got = None,
                                    !.out = Append(@, got)]
<1>1. /\ Run(p) /\ proc[p].stage = "nested" /\ FrameOK(p) /\ FoundOK(p) /\ proc[p].locks
      /\ UNCHANGED <<tree, registry>>
  BY DEF Run, ReadPart, Inv, ProcOK, FoundOK
<1>2. CASE Unreadable(p, "part") /\ FailOver(p, Reasons(p))
  <2>1. "part" \in Members
    BY DEF Members, Empty
  <2> QED  BY <1>1, <1>2, <2>1, UnreadableForReason, FailOverVouching
<1>3. CASE ~(Unreadable(p, "part") /\ FailOver(p, Reasons(p)))
  <2>1. /\ proc'[p] = frame
        /\ UNCHANGED <<tree, registry, lock, cache, last, verified, scars>>
    BY <1>3 DEF ReadPart, Inv
  <2> HIDE DEF got
  <2>2. /\ frame.cmd = proc[p].cmd /\ frame.scenario = proc[p].scenario
        /\ frame.lock = proc[p].lock /\ frame.locks = proc[p].locks
        /\ frame.out = Append(proc[p].out, got) /\ frame.disturbed = proc[p].disturbed
        /\ frame.sure = proc[p].sure /\ frame.stage = "compare"
    BY <1>1 DEF FrameOK, Idle
  <2> HIDE DEF frame
  <2>3. SureOK(p)'
    BY <1>1, <2>1, <2>2 DEF SureOK, Vouching
  <2>4. WantOK(p)' /\ PassedOK(p)'
    BY <2>1, <2>2 DEF WantOK, PassedOK
  <2>5. ASSUME proc[p].cmd = "verify", proc[p].disturbed = {} PROVE Verifies(p)'
    <3>1. Verifies(p)
      BY <1>1, <2>5 DEF Vouching, VerifyOK
    <3>2. Loadable(proc[p].lock, Import(p), tree.root, registry.pushed)
      <4>1. Recorded(proc[p].lock, Import(p))
        BY <1>1, <3>1, AtImport DEF Verifies, Import
      <4> QED  BY <1>1, <1>3, <3>1, <4>1, ReadIsLoadable DEF Verifies
    <3>3. Len(proc[p].out) \in Nat /\ Len(Append(proc[p].out, got)) = Len(proc[p].out) + 1
      <4>1. proc[p].out \in Seq(Loaded \cup {got})
        BY <1>1, SeqMonotonic DEF FrameOK
      <4> QED  BY <4>1, AppendProperties, LenProperties
    <3>4. \A i \in 1 .. Len(proc[p].out) + 1 :
             Loadable(proc[p].lock, proc[p].scenario[i], tree.root, registry.pushed)
      <4>1. SUFFICES ASSUME NEW i \in 1 .. Len(proc[p].out) + 1
                     PROVE  Loadable(proc[p].lock, proc[p].scenario[i], tree.root, registry.pushed)
        OBVIOUS
      <4>2. CASE i = Len(proc[p].out) + 1
        BY <3>2, <4>2 DEF Import
      <4>3. CASE i \in 1 .. Len(proc[p].out)
        BY <3>1, <4>3 DEF Verifies
      <4> QED  BY <3>3, <4>2, <4>3
    <3> QED  BY <2>1, <2>2, <2>4, <3>1, <3>3, <3>4 DEF Verifies
  <2>6. VerifyOK(p)'
    <3>1. proc'[p].locks = proc[p].locks
      BY <2>1, <2>2
    <3>2. proc'[p].locks
      BY <1>1, <3>1
    <3>3. proc[p].cmd = "verify" /\ proc[p].disturbed = {} => proc[p].lock = lock
      BY <1>1 DEF Vouching, VerifyOK
    <3> QED  BY <2>1, <2>2, <2>5, <3>2, <3>3 DEF VerifyOK
  <2> QED  BY <1>1, <2>1, <2>3, <2>4, <2>6, GoOnVouching
<1> QED  BY <1>2, <1>3

LEMMA RegistryRecord ==
    ASSUME Inv, NEW r \in LockRecords, r.source = "oci" PROVE r # None
<1>1. PICK import \in Imports, f \in LocalFounds \cup OciFounds :
         /\ r = Record(import, f)
         /\ \/ import.class = "local"
            \/ f \in OciFounds
  BY DEF LockRecords
<1>2. PICK s \in Scenarios : \E i \in DOMAIN s : import = s[i]
  BY DEF Imports, ToSet
<1>3. r.source = Source(import)
  BY <1>1 DEF Record
<1>4. import.class # "local"
  BY <1>3 DEF Source
<1>5. PICK m \in Manifests : f = Found(m, m.bundle, m.bundle.root, m.signer)
  BY <1>1, <1>4 DEF OciFounds, Inv, StoresOK
<1> QED  BY <1>1, <1>2, <1>5, NoneIsNoRecord

\* verify-imports finds the record of every import again.
LEMMA UpToDateRecords ==
    ASSUME Inv, Namespaced, NEW p \in Procs, proc[p].stage = "compare", Resolves(p),
           ~proc[p].locks, UpToDate(p), Len(proc[p].out) = Len(proc[p].scenario),
           NEW i \in 1 .. Len(proc[p].scenario)
    PROVE  Recorded(proc[p].lock, proc[p].scenario[i])
<1> DEFINE import == proc[p].scenario[i]
           records == proc[p].lock
           hits == {k \in DOMAIN records : /\ records[k].source = Source(import)
                                           /\ records[k].ns = import.ns
                                           /\ records[k].requested = import.versions}
<1>1. PICK f : /\ records[i] = Record(import, f) /\ import.class \in {"local", "oci"}
               /\ records # None
  BY DEF Resolves, UpToDate
<1>2. SUFFICES ASSUME import.class = "oci" PROVE LockRecordFor(records, import) # None
  BY <1>1 DEF Recorded
<1>3. import \in Imports
  BY ScenarioFacts DEF Inv, ProcOK, FrameOK
<1>4. /\ records[i].source = Source(import) /\ records[i].ns = import.ns
      /\ records[i].requested = import.versions
  <2>1. import.ns # ""
    BY <1>2, <1>3 DEF Namespaced
  <2>2. /\ Record(import, f).source = Source(import) /\ Record(import, f).ns = import.ns
        /\ Record(import, f).requested = import.versions
    BY <2>1 DEF Record
  <2> QED  BY <1>1, <2>2
<1>5. FrameOK(p) /\ records \in Seq(LockRecords)
  BY <1>1 DEF Inv, ProcOK, FrameOK
<1>6. DOMAIN records = 1 .. Len(records) /\ Len(records) = Len(proc[p].scenario)
      /\ Len(records) \in Nat
  BY <1>5, LenProperties DEF UpToDate
<1>7. i \in hits
  BY <1>4, <1>6
<1>8. Min(hits) \in hits
  <2>1. hits \in SUBSET Nat
    BY <1>6
  <2> HIDE DEF hits
  <2> QED  BY <1>7, <2>1, MinIsLeast
<1>9. LockRecordFor(records, import) = records[Min(hits)]
  BY <1>1, <1>7 DEF LockRecordFor
<1>10. records[Min(hits)] \in LockRecords /\ records[Min(hits)].source = "oci"
  BY <1>2, <1>5, <1>6, <1>8, ElementOfSeq DEF Source
<1> QED  BY <1>9, <1>10, RegistryRecord

\* The next import, or the lockfile of resolve.
LEMMA NextImportVouching ==
    ASSUME Inv, Vouching, NEW p \in Procs, Continue(p), NEW stage \in {"resolve", "write"},
           NEW got,
           proc' = [proc EXCEPT ![p] = [proc[p] EXCEPT !.stage = stage, !.got = got]],
           UNCHANGED <<lock, cache, last, verified, scars>>
    PROVE  Vouching'
<1> DEFINE frame == [proc[p] EXCEPT !.stage = stage, !.got = got]
<1>1. Run(p) /\ FrameOK(p) /\ proc[p].stage = "compare" /\ UNCHANGED <<tree, registry>>
  BY DEF Run, Continue, Inv, ProcOK
<1>2. /\ frame.cmd = proc[p].cmd /\ frame.scenario = proc[p].scenario
      /\ frame.lock = proc[p].lock /\ frame.locks = proc[p].locks
      /\ frame.out = proc[p].out /\ frame.disturbed = proc[p].disturbed
      /\ frame.sure = proc[p].sure /\ frame.stage = stage
  BY <1>1 DEF FrameOK, Idle
<1>3. proc'[p] = frame
  BY DEF Inv
<1> HIDE DEF frame
<1>4. WantOK(p)' /\ PassedOK(p)'
  BY <1>2, <1>3 DEF WantOK, PassedOK
<1>5. SureOK(p)' /\ VerifyOK(p)'
  BY <1>1, <1>2, <1>3, <1>4, RunSpares, OwnVouching DEF Vouching
<1> QED  BY <1>1, <1>4, <1>5, GoOnVouching

\* verify-imports has compared, and goes on to load.
LEMMA VerifyOnVouching ==
    ASSUME Inv, Vouching, Namespaced, NEW p \in Procs, Continue(p), proc[p].cmd = "verify",
           ~proc[p].locks, UpToDate(p), Len(proc[p].out) = Len(proc[p].scenario),
           proc' = [proc EXCEPT ![p] = [Begin("verify", proc[p].scenario, TRUE) EXCEPT
                        !.sure = proc[p].sure, !.disturbed = proc[p].disturbed]],
           UNCHANGED <<lock, cache, last, verified, scars>>
    PROVE  Vouching'
<1> DEFINE frame == [Begin("verify", proc[p].scenario, TRUE) EXCEPT
                        !.sure = proc[p].sure, !.disturbed = proc[p].disturbed]
<1>1. Run(p) /\ proc[p].stage = "compare" /\ UNCHANGED <<tree, registry>>
  BY DEF Run, Continue
<1>2. /\ frame.cmd = "verify" /\ frame.scenario = proc[p].scenario
      /\ frame.lock = lock /\ frame.locks = TRUE /\ frame.out = <<>>
      /\ frame.disturbed = proc[p].disturbed /\ frame.stage = "resolve"
  BY DEF Begin, Idle
<1>3. proc'[p] = frame
  BY DEF Inv
<1> HIDE DEF frame
<1>4. SureOK(p)' /\ WantOK(p)' /\ PassedOK(p)'
  BY <1>2, <1>3 DEF SureOK, WantOK, PassedOK
<1>5. ASSUME proc[p].disturbed = {} PROVE Verifies(p)'
  <2>1. proc[p].lock = lock /\ Resolves(p)
    BY <1>1, <1>5 DEF Vouching, VerifyOK
  <2>2. \A i \in 1 .. Len(proc[p].scenario) : Recorded(lock, proc[p].scenario[i])
    BY <1>1, <2>1, UpToDateRecords
  <2>3. Len(frame.out) = 0
    BY <1>2, EmptySeq
  <2>4. proc'[p].lock = lock /\ proc'[p].scenario = proc[p].scenario /\ Len(proc'[p].out) = 0
    BY <1>2, <1>3, <2>3
  <2>5. (\A i \in 1 .. Len(proc[p].scenario) : Recorded(proc[p].lock, proc[p].scenario[i]))'
    BY <2>2, <2>4
  <2>6. (\A i \in 1 .. Len(proc[p].out) :
            Loadable(proc[p].lock, proc[p].scenario[i], tree.root, registry.pushed))'
    <3>1. \A i \in 1 .. 0 : FALSE
      OBVIOUS
    <3> QED  BY <2>4, <3>1
  <2> QED  BY <1>4, <2>5, <2>6 DEF Verifies
<1>6. VerifyOK(p)'
  BY <1>2, <1>3, <1>5 DEF VerifyOK
<1> QED  BY <1>1, <1>4, <1>6, GoOnVouching

\* A command ends well, and verify-imports vouches for what it loaded.
LEMMA DoneVouching ==
    ASSUME Inv, Vouching, NEW p \in Procs, Continue(p), proc[p].locks,
           proc' = [proc EXCEPT ![p] = Idle], last' = Ended(p),
           Len(proc[p].out) = Len(proc[p].scenario),
           verified' = verified \cup (IF proc[p].cmd = "verify" /\ proc[p].disturbed = {}
                                      THEN {proc[p].scenario} ELSE {}),
           UNCHANGED <<lock, cache, scars>>
    PROVE  Vouching'
<1>1. Run(p) /\ proc[p].stage = "compare" /\ UNCHANGED <<tree, registry>>
  BY DEF Run, Continue
<1>2. proc'[p].stage = "idle" /\ last'.ok
  BY EndedFacts DEF Idle, Inv
<1>3. VerifiedLoads'
  BY <1>2 DEF VerifiedLoads
<1>4. Vouched'
  <2>1. SUFFICES ASSUME NEW s \in verified'
                 PROVE  AllLoadable(lock, s, tree.root, registry.pushed)
    BY <1>1 DEF Vouched
  <2>2. CASE s \in verified
    BY <2>2 DEF Vouching, Vouched
  <2>3. CASE s \notin verified
    <3>1. proc[p].cmd = "verify" /\ proc[p].disturbed = {} /\ s = proc[p].scenario
      BY <2>1, <2>3
    <3>2. Verifies(p) /\ proc[p].lock = lock
      BY <1>1, <3>1 DEF Vouching, VerifyOK
    <3> QED  BY <3>1, <3>2 DEF Verifies, AllLoadable
  <2> QED  BY <2>2, <2>3
<1> QED  BY <1>1, <1>2, <1>3, <1>4, IdleVouches, VouchingStep

LEMMA ContinueVouching ==
    ASSUME Inv, Vouching, Namespaced, NEW p \in Procs, Continue(p) PROVE Vouching'
<1> DEFINE me == proc[p]
           done == Len(me.out) = Len(me.scenario)
           still == UNCHANGED <<lock, cache, last, verified, scars>>
<1>0. me.stage = "compare" /\ FrameOK(p) /\ Run(p)
  BY DEF Continue, Inv, ProcOK, Run
<1>1. CASE ~done /\ proc' = [proc EXCEPT ![p].stage = "resolve", ![p].got = None] /\ still
  <2>1. proc' = [proc EXCEPT ![p] = [proc[p] EXCEPT !.stage = "resolve", !.got = None]]
    BY <1>1 DEF Inv
  <2> QED  BY <1>1, <2>1, NextImportVouching
<1>2. CASE me.cmd = "resolve" /\ proc' = [proc EXCEPT ![p].stage = "write"] /\ still
  <2>1. proc' = [proc EXCEPT ![p] = [proc[p] EXCEPT !.stage = "write", !.got = proc[p].got]]
    <3>1. [proc[p] EXCEPT !.stage = "write"] =
             [proc[p] EXCEPT !.stage = "write", !.got = proc[p].got]
      BY <1>0 DEF FrameOK, Idle
    <3> QED  BY <1>2, <3>1 DEF Inv
  <2> QED  BY <1>2, <2>1, NextImportVouching
<1>3. CASE /\ done /\ me.cmd = "verify" /\ ~me.locks /\ UpToDate(p) /\ still
           /\ proc' = [proc EXCEPT ![p] = [Begin("verify", me.scenario, TRUE) EXCEPT
                           !.sure = me.sure, !.disturbed = me.disturbed]]
  BY <1>3, VerifyOnVouching
<1>4. CASE me.cmd = "verify" /\ Fail(p)
  BY <1>0, <1>4, FailVouching DEF Sure
<1>5. CASE /\ done /\ me.locks /\ proc' = [proc EXCEPT ![p] = Idle] /\ last' = Ended(p)
           /\ UNCHANGED <<lock, cache, scars>>
           /\ verified' = verified \cup
                 (IF me.cmd = "verify" /\ me.disturbed = {} THEN {me.scenario} ELSE {})
  BY <1>5, DoneVouching
<1> QED  BY <1>1, <1>2, <1>3, <1>4, <1>5 DEF Continue

\* A lockfile that is written vouches for nothing yet.
LEMMA WriteLockVouching ==
    ASSUME Inv, Vouching, NEW p \in Procs, WriteLock(p) PROVE Vouching'
<1>1. Run(p) /\ verified' = {} /\ proc'[p].stage = "idle" /\ last'.ok
  BY EndedFacts DEF Run, WriteLock, Rewritten, Idle
<1>2. Vouched' /\ VerifiedLoads'
  BY <1>1 DEF Vouched, VerifiedLoads
<1> QED  BY <1>1, <1>2, IdleVouches, VouchingStep

LEMMA CrashVouching == ASSUME Inv, Vouching, NEW p \in Procs, Crash(p) PROVE Vouching'
<1>1. Run(p) /\ UNCHANGED <<tree, last>> /\ proc'[p].stage = "idle"
      /\ (UNCHANGED <<lock, verified>> \/ verified' = {})
  BY DEF Run, Crash, Rewritten, Idle, Inv
<1>2. Vouched'
  BY <1>1, RunSpares, VouchedKept DEF Inv, Vouching, Vouched
<1>3. VerifiedLoads'
  BY <1>1 DEF Vouching, VerifiedLoads
<1> QED  BY <1>1, <1>2, <1>3, IdleVouches, VouchingStep

LEMMA RunVouching ==
    ASSUME Inv, Settling, Vouching, Namespaced, NEW p \in Procs, Run(p) PROVE Vouching'
  BY StartVouching, UnlockedVouching, LocalVouching, SelectTagVouching, UnreachableVouching,
     FetchVouching, ExtractVouching, AcceptVouching, ReadRootVouching, ReadPartVouching, ContinueVouching,
     WriteLockVouching, CrashVouching
  DEF Run

\* The author and the registry disturb no process that is sure, but by editing.
LEMMA AuthorVouching ==
    ASSUME Inv, Vouching, Forward, UNCHANGED <<lock, last>>, \A q \in Procs : Spared(q),
           UNCHANGED <<tree, verified>> \/ verified' = {}
    PROVE  Vouching'
<1>1. Vouched'
  BY VouchedKept DEF Inv, Vouching, Vouched
<1>2. VerifiedLoads'
  BY DEF Vouching, VerifiedLoads
<1>3. \A q \in Procs : SureOK(q)' /\ WantOK(q)' /\ VerifyOK(q)'
  BY SparedVouching DEF Vouching, KeepsLock
<1> QED  BY <1>1, <1>2, <1>3 DEF Vouching

LEMMA VouchingNext == Inv /\ Settling /\ Vouching /\ Namespaced /\ [Next]_vars => Vouching'
<1> SUFFICES ASSUME Inv, Settling, Vouching, Namespaced, [Next]_vars PROVE Vouching'
  OBVIOUS
<1>1. ASSUME NEW new \in Trees, Edit(new) PROVE Vouching'
  <2>1. Forward /\ \A q \in Procs : Spared(q)
    BY <1>1, DisturbSpares DEF Edit, Forward
  <2> QED  BY <1>1, <2>1, AuthorVouching DEF Edit
<1>2. ASSUME NEW signer \in Signers, Publish(signer) PROVE Vouching'
  <2>1. Forward /\ \A q \in Procs : Spared(q)
    BY <1>2, DisturbSpares DEF Publish, Pushed, Forward
  <2> QED  BY <1>2, <2>1, AuthorVouching DEF Publish
<1>3. ASSUME NEW v \in Versions, NEW m \in registry.pushed \cup {None}, Retag(v, m)
      PROVE  Vouching'
  <2>1. registry'.pushed = registry.pushed
    BY <1>3 DEF Retag, Inv, StoresOK
  <2>2. Forward /\ \A q \in Procs : Spared(q)
    BY <1>3, <2>1, DisturbSpares DEF Retag, Forward
  <2> QED  BY <1>3, <2>2, AuthorVouching DEF Retag
<1>4. ASSUME NEW p \in Procs, Run(p) PROVE Vouching'
  BY <1>4, RunVouching
<1>5. CASE UNCHANGED vars
  <2>1. Forward /\ \A q \in Procs : Spared(q)
    BY <1>5 DEF vars, Forward, Spared
  <2> QED  BY <1>5, <2>1, AuthorVouching DEF vars
<1> QED  BY <1>1, <1>2, <1>3, <1>4, <1>5 DEF Next

LEMMA VouchingInit == Init => Vouching
<1> SUFFICES ASSUME Init PROVE Vouching
  OBVIOUS
<1>1. \A p \in Procs : proc[p].stage = "idle"
  BY DEF Init, Idle
<1>2. Vouched /\ VerifiedLoads
  BY DEF Init, Vouched, VerifiedLoads, Nothing
<1> QED  BY <1>1, <1>2 DEF Vouching, SureOK, WantOK, VerifyOK

(***************************************************************************)
(* What verify-imports has passed keeps loading under that lockfile,       *)
(* however the registry moves on and whichever process writes, extracts or *)
(* dies meanwhile.  A load of it fails only of an edited file, a registry  *)
(* that does not answer, a lockfile cut short under the load, or a cache   *)
(* entry that an extraction left unfinished or is at: an unreadable file   *)
(* of a settled entry there is not.  Provided the registry imports have a  *)
(* namespace, for otherwise the record of one is never found again and a   *)
(* load looks its tag up anew.                                             *)
(***************************************************************************)
THEOREM VerifiedLoadsCorrect == ASSUME Namespaced PROVE Spec => []VerifiedLoads
<1>1. Inv /\ Settling /\ Vouching /\ [Next]_vars => Inv' /\ Settling' /\ Vouching'
  BY InvNext, SettlingNext, VouchingNext
<1>2. Init => Inv /\ Settling /\ Vouching
  BY InvInit, SettlingInit, VouchingInit
<1>3. Inv /\ Settling /\ Vouching => VerifiedLoads
  BY DEF Vouching
<1> QED  BY <1>1, <1>2, <1>3, PTL DEF Spec
=============================================================================
