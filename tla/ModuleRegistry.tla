--------------------------- MODULE ModuleRegistry ---------------------------
(***************************************************************************)
(* ModuleRegistry (aces_sdl/module_registry.py, aces_cli/sdl.py and the    *)
(* loop of aces_sdl/composition.py that loads what is resolved): imports   *)
(* resolved against local files, an OCI registry and a lockfile, bundles   *)
(* extracted into a cache, and the commands resolve, verify-imports and    *)
(* load run by processes that share the files and the cache.               *)
(*                                                                         *)
(* A module is a root file and one part that the root imports locally. A   *)
(* digest is the value it is the digest of. A manifest is a bundle with    *)
(* the signer of its config. Publishing, moving a tag and editing a file   *)
(* happen at any time; a process may die at any step. Abstracted: URLs,    *)
(* the text of the files, signatures (the signer they prove), and modules  *)
(* with more than one part.                                                *)
(***************************************************************************)
EXTENDS Integers, FiniteSets, Sequences, SequencesExt

CONSTANTS
    Procs,      \* processes that run commands
    Jobs,       \* the commands each of them runs, again and again
    Scenarios,  \* root files of the directory: the imports each has, in order
    Roots,      \* root files the author may write
    Parts,      \* part files the author may write
    First,      \* the files to begin with
    Versions,   \* tags of the registry, in their order
    Signers,    \* who signs a bundle; None: it is not signed
    Policy,     \* the trust policy beside the scenario
    Order,      \* the members of a bundle, in the order of their names
    MaxEdits, MaxPushes, MaxCrashes,    \* bounds
    None, Torn  \* no value; a file cut short

ASSUME OrderOK == Order \in {<<"root", "part">>, <<"part", "root">>}
ASSUME JobsOK == \A p \in Procs : Jobs[p] \subseteq {"resolve", "verify", "load"}
ASSUME FirstOK == First \in [root : Roots, part : Parts]
ASSUME RootsOK == \A r \in Roots : r.version \in Versions
ASSUME VersionsOK == IsFiniteSet(Versions) /\ Versions \subseteq Int
\* A root file that comes here has an import; an import is an ImportDecl.
ASSUME ScenariosOK ==
    \A s \in Scenarios :
        /\ s \in Seq(ToSet(s)) /\ s # <<>>
        /\ \A i \in DOMAIN s :
              /\ s[i].class \in {"local", "oci", "locked"} /\ s[i] # None
              /\ DOMAIN s[i] = {"class", "of", "ns", "versions", "params", "digest"}

VARIABLES
    tree,       \* the files of the module in the author's directory
    registry,   \* tags, and every manifest pushed
    lock,       \* aces.lock.json: None, Torn or its records
    cache,      \* .aces/module-cache: what is extracted of a manifest
    proc,       \* what each process is doing
    last,       \* how a command ended, until the next begins
    verified,   \* history: scenarios verify-imports has passed under this lockfile
    scars,      \* history: manifests whose extraction was cut short
    edits, crashes

vars == <<tree, registry, lock, cache, proc, last, verified, scars, edits, crashes>>

Trees == [root : Roots, part : Parts]
Manifests == [bundle : Trees, signer : Signers]
Empty == [root |-> None, part |-> None]
ASSUME SentinelsOK == /\ None # Torn /\ None \notin Manifests
                      /\ \A x \in {None, Torn} : x \notin Roots /\ x \notin Parts
Commands == {"resolve", "verify", "load"}
Stages == {"idle", "resolve", "fetch", "extract", "ready", "read", "nested", "compare", "write"}

Source(import) == IF import.class = "locked" THEN None ELSE import.class
Found(manifest, content, root, signer) ==
    [manifest |-> manifest, content |-> content, id |-> root.id,
     version |-> root.version, exports |-> root.exports, signer |-> signer]

\* _lock_record_for: the first record that matches.
LockRecordFor(records, import) ==
    LET hits == {i \in DOMAIN records : /\ records[i].source = Source(import)
                                        /\ records[i].ns = import.ns
                                        /\ records[i].requested = import.versions}
    IN  IF records = None \/ hits = {} THEN None ELSE records[Min(hits)]

\* What a `locked:` import stands for; any other import stands for itself.
Delegated(records, import) ==
    LET hits == {i \in DOMAIN records : records[i].source = import.of}
        r == records[Min(hits)]
    IN  IF import.class # "locked" THEN import
        ELSE IF records = None \/ hits = {} THEN None
        ELSE [import EXCEPT
                !.class = r.source, !.versions = r.requested,
                !.ns = IF @ = "" THEN r.ns ELSE @,
                !.digest = IF @ = None THEN r.found.content ELSE @]

\* The record resolve_lock_records writes of an import.
Record(import, found) ==
    [source |-> Source(import), ns |-> IF import.ns = "" THEN found.id ELSE import.ns,
     requested |-> import.versions, found |-> found]

ASSUME NoneIsNoRecord ==
    \A s \in Scenarios, m \in Manifests : \A i \in DOMAIN s :
        Record(s[i], Found(m, m.bundle, m.bundle.root, m.signer)) # None

\* lock: the lockfile that was read; locks: it is in use; sure: verify-imports
\* had passed when the command began; disturbed: what changed since; causes: what
\* a command failed of, if not of what it resolved.
Idle == [cmd |-> "load", scenario |-> <<>>, stage |-> "idle", lock |-> None,
         locks |-> FALSE, out |-> <<>>, want |-> None, got |-> None, left |-> <<>>,
         open |-> FALSE, root |-> None, sure |-> FALSE, disturbed |-> {}]
Nothing == [cmd |-> None, scenario |-> <<>>, ok |-> TRUE, out |-> <<>>, lock |-> None,
            sure |-> FALSE, disturbed |-> {}, causes |-> {}]

(***************************************************************************)
(* Everything has its type.                                                *)
(***************************************************************************)
TypeOK ==
    /\ tree \in Trees
    /\ registry.pushed \subseteq Manifests
    /\ \A v \in Versions : registry.tags[v] \in registry.pushed \cup {None}
    /\ \/ lock \in {None, Torn}
       \/ \A i \in DOMAIN lock : lock[i].source \in {"local", "oci"}
    /\ \A m \in registry.pushed : \A f \in DOMAIN Empty :
          cache[m][f] \in {None, Torn, m.bundle[f]}
    /\ \A p \in Procs : proc[p].cmd \in Commands /\ proc[p].stage \in Stages
    /\ verified \subseteq Scenarios /\ scars \subseteq registry.pushed

Init ==
    /\ tree = First
    /\ registry = [tags |-> [v \in Versions |-> None], pushed |-> {}]
    /\ lock = None /\ cache = [m \in Manifests |-> Empty]
    /\ proc = [p \in Procs |-> Idle] /\ last = Nothing
    /\ verified = {} /\ scars = {}
    /\ edits = 0 /\ crashes = 0

-----------------------------------------------------------------------------
(* The author and the registry. *)

\* A command that is running is told apart from one that nothing disturbed.
Disturb(what) == proc' = [p \in Procs |->
    IF proc[p].stage = "idle" THEN proc[p] ELSE [proc[p] EXCEPT !.disturbed = @ \cup {what}]]
Rewritten(p) == [q \in Procs |-> IF q = p \/ proc[q].stage = "idle" THEN Idle
                                 ELSE [proc[q] EXCEPT !.disturbed = @ \cup {"lock"}]]

\* The author writes one of the files of the module.
Edit(new) ==
    /\ edits < MaxEdits /\ new # tree
    /\ tree' = new /\ edits' = edits + 1 /\ verified' = {}
    /\ Disturb("files")
    /\ UNCHANGED <<registry, lock, cache, last, scars, crashes>>

\* Mutated form: the tag is written before the manifest it names.
TaggedOnly(m) == [registry EXCEPT !.tags[m.bundle.root.version] = m]
\* The registry after a layout was pushed to it.
Pushed(m) == [tags |-> [registry.tags EXCEPT ![m.bundle.root.version] = m],
              pushed |-> registry.pushed \cup {m}]

\* publish_module_to_oci_layout, and the push of the layout to the registry:
\* the files as they are, tagged with the version the root declares.
Publish(signer) ==
    LET m == [bundle |-> tree, signer |-> signer]
    IN  /\ m \notin registry.pushed /\ Cardinality(registry.pushed) < MaxPushes
        /\ registry' = Pushed(m)
        /\ Disturb("registry")
        /\ UNCHANGED <<tree, lock, cache, last, verified, scars, edits, crashes>>

\* A tag is moved to another manifest, or taken away.
Retag(v, m) ==
    /\ edits < MaxEdits /\ m # registry.tags[v]
    /\ registry' = [registry EXCEPT !.tags[v] = m]
    /\ edits' = edits + 1 /\ Disturb("registry")
    /\ UNCHANGED <<tree, lock, cache, last, verified, scars, crashes>>

-----------------------------------------------------------------------------
(* Commands. *)

Begin(cmd, scenario, locks) ==
    [Idle EXCEPT !.cmd = cmd, !.scenario = scenario, !.stage = "resolve", !.locks = locks,
                 !.lock = IF cmd = "resolve" THEN None ELSE lock, !.sure = scenario \in verified]
\* How a command that succeeds ended.
Ended(p) == [k \in DOMAIN Nothing |-> IF k \in DOMAIN Idle THEN proc[p][k] ELSE Nothing[k]]
FailOver(p, causes) ==
    /\ proc' = [proc EXCEPT ![p] = Idle]
    /\ last' = [Nothing EXCEPT !.cmd = proc[p].cmd, !.ok = FALSE, !.sure = proc[p].sure,
                               !.disturbed = proc[p].disturbed, !.causes = causes]
    /\ UNCHANGED <<lock, cache, verified, scars>>
Fail(p) == FailOver(p, {})

\* resolve, verify_imports and parse_sdl_file: the first two resolve without
\* the lockfile, a load resolves the imports with the one it reads.
Start(p, cmd, scenario) ==
    /\ proc[p].stage = "idle"
    /\ IF cmd # "resolve" /\ (lock = Torn \/ (cmd = "verify" /\ lock = None))
       THEN /\ last' = [Nothing EXCEPT !.cmd = cmd, !.scenario = scenario, !.ok = FALSE]
            /\ UNCHANGED proc
       ELSE /\ last' = Nothing
            /\ proc' = [proc EXCEPT ![p] = Begin(cmd, scenario, cmd = "load")]
    /\ UNCHANGED <<tree, registry, lock, cache, verified, scars, edits, crashes>>

Import(p) == proc[p].scenario[Len(proc[p].out) + 1]
InUse(p) == IF proc[p].locks THEN proc[p].lock ELSE None
Effective(p) == Delegated(InUse(p), Import(p))
Locked(p) == LockRecordFor(InUse(p), Effective(p))
Pinned(actual, expected) == expected \in {None, actual}

\* Mutated form: a lock record does not pin the file of a local import.
LocalUnlocked(p) ==
    /\ tree.root.version \in Effective(p).versions /\ Policy.local
    /\ Pinned(tree.root, Effective(p).digest)
    /\ Effective(p).params \subseteq tree.root.params
\* The checks of a local import, against the file as it is.
LocalAccepted(p) ==
    LET import == Effective(p)
    IN  /\ tree.root.version \in import.versions
        /\ Policy.local
        /\ Pinned(tree.root, import.digest)
        /\ Locked(p) # None => Pinned(tree.root, Locked(p).found.content)
        /\ import.params \subseteq tree.root.params

\* An import resolved: its record is kept, or its root is read next.
Resolved(p, found) ==
    IF proc[p].locks
    THEN [proc[p] EXCEPT !.stage = "read", !.got = found]
    ELSE [proc[p] EXCEPT !.stage = "compare", !.out = Append(@, Record(Import(p), found))]

\* resolve_import of a `locked:` import without its record.
Unlocked(p) ==
    /\ proc[p].stage = "resolve" /\ Effective(p) = None /\ Fail(p)
    /\ UNCHANGED <<tree, registry, edits, crashes>>

\* resolve_import of a local import.
ResolveLocal(p) ==
    /\ proc[p].stage = "resolve" /\ Effective(p) # None /\ Effective(p).class = "local"
    /\ IF LocalAccepted(p)
       THEN /\ proc' = [proc EXCEPT ![p] = Resolved(p, Found(None, tree.root, tree.root, None))]
            /\ UNCHANGED <<lock, cache, last, verified, scars>>
       ELSE Fail(p)
    /\ UNCHANGED <<tree, registry, edits, crashes>>

Latest(vs) == CHOOSE v \in vs : \A w \in vs : w <= v
Tagged == {v \in Versions : registry.tags[v] # None}

\* Mutated form: the tag is looked up even when the lock names a manifest.
AlwaysByTag(p) ==
    LET vs == Effective(p).versions
    IN  [tag |-> IF Tagged \cap vs = {} THEN Latest(vs) ELSE Latest(Tagged \cap vs)]
\* resolve_import of an OCI import, as far as the choice of a manifest.
Reference(p) == IF Locked(p) # None THEN [manifest |-> Locked(p).found.manifest]
                ELSE [tag |-> Latest(Tagged \cap Effective(p).versions)]

SelectTag(p) ==
    /\ proc[p].stage = "resolve" /\ Effective(p) # None /\ Effective(p).class = "oci"
    /\ IF ~Policy.registry \/ (Locked(p) = None /\ Tagged \cap Effective(p).versions = {})
       THEN Fail(p)
       ELSE /\ proc' = [proc EXCEPT ![p].stage = "fetch", ![p].want = Reference(p)]
            /\ UNCHANGED <<lock, cache, last, verified, scars>>
    /\ UNCHANGED <<tree, registry, edits, crashes>>

\* The manifest a reference names now.
Fetched(want) == IF "tag" \in DOMAIN want THEN registry.tags[want.tag] ELSE want.manifest

\* _json_request and _bytes_request: the registry does not answer when it is
\* asked for the tags, the manifest or a blob. A manifest that is locked and
\* a bundle that is cached are asked for all the same.
Unreachable(p) ==
    /\ proc[p].stage \in {"resolve", "fetch"} /\ Effective(p) # None
    /\ Effective(p).class = "oci" /\ Policy.registry
    /\ proc[p].stage = "resolve" => Locked(p) = None
    /\ FailOver(p, {"outage"})
    /\ UNCHANGED <<tree, registry, edits, crashes>>

ManifestAccepted(p, m) ==
    LET import == Effective(p)
    IN  /\ Locked(p) # None => /\ Locked(p).found.manifest = m
                               /\ Locked(p).found.id = m.bundle.root.id
        /\ m.bundle.root.version \in import.versions
        /\ Pinned(m.bundle, import.digest)
        /\ Policy.required => m.signer \in Policy.trusted

\* _extract_bundle_to_cache: the root file is there.
CacheHit(m) == cache[m].root # None

\* Mutated form: only the file that is looked for is extracted.
RootAlone == <<"root">>
\* extractall writes every member of the bundle.
ToExtract == Order

FetchManifest(p) ==
    LET m == Fetched(proc[p].want)
        root == m.bundle.root
        next == [proc[p] EXCEPT !.want = None, !.got = Found(m, m.bundle, root, m.signer)]
    IN  /\ proc[p].stage = "fetch"
        /\ IF m = None \/ ~ManifestAccepted(p, m) THEN Fail(p)
           ELSE /\ proc' = [proc EXCEPT ![p] =
                      IF CacheHit(m) THEN [next EXCEPT !.stage = "ready"]
                      ELSE [next EXCEPT !.stage = "extract", !.left = ToExtract]]
                /\ UNCHANGED <<lock, cache, last, verified, scars>>
        /\ UNCHANGED <<tree, registry, edits, crashes>>

Extracting(m) == {p \in Procs : proc[p].stage = "extract" /\ proc[p].got.manifest = m}

\* tarfile.extractall: a member is opened, which empties it, and then written.
Extract(p) ==
    LET m == proc[p].got.manifest
        f == Head(proc[p].left)
    IN  /\ proc[p].stage = "extract"
        /\ cache' = [cache EXCEPT ![m][f] = IF proc[p].open THEN m.bundle[f] ELSE Torn]
        /\ proc' = [proc EXCEPT ![p] =
              IF ~proc[p].open THEN [proc[p] EXCEPT !.open = TRUE]
              ELSE [proc[p] EXCEPT !.open = FALSE, !.left = Tail(@),
                                   !.stage = IF Len(proc[p].left) = 1 THEN "ready" ELSE @]]
        /\ UNCHANGED <<tree, registry, lock, last, verified, scars, edits, crashes>>

\* The end of resolve_import for an OCI import: its parameters.
Accept(p) ==
    /\ proc[p].stage = "ready"
    /\ IF Effective(p).params \subseteq proc[p].got.manifest.bundle.root.params
       THEN /\ proc' = [proc EXCEPT ![p] = Resolved(p, proc[p].got)]
            /\ UNCHANGED <<lock, cache, last, verified, scars>>
       ELSE Fail(p)
    /\ UNCHANGED <<tree, registry, edits, crashes>>

\* The files an import is read from.
Place(p) == IF proc[p].got.manifest = None THEN tree ELSE cache[proc[p].got.manifest]

\* expand_sdl_modules loads the lockfile beside every file that it expands; a
\* bundle has none.
LockCut(p) == proc[p].got.manifest = None /\ lock = Torn

\* What can be wrong with the files of a module.
Reasons(p) ==
    LET m == proc[p].got.manifest IN
    {c \in {"lockfile", "crash", "extraction"} :
        \/ c = "lockfile" /\ LockCut(p)
        \/ c = "crash" /\ m \in scars
        \/ c = "extraction" /\ Extracting(m) # {}}

\* A file that was cut short may be no scenario any more, or still be one.
Unreadable(p, file) == Place(p)[file] \in {None, Torn} \/ LockCut(p)
Readable(p, file) == Place(p)[file] # None /\ ~LockCut(p)

\* expand_sdl_modules reads the root file of what was resolved ...
ReadRoot(p) ==
    /\ proc[p].stage = "read"
    /\ \/ /\ Readable(p, "root")
          /\ proc' = [proc EXCEPT ![p].stage = "nested", ![p].root = Place(p).root]
          /\ UNCHANGED <<lock, cache, last, verified, scars>>
       \/ Unreadable(p, "root") /\ FailOver(p, Reasons(p))
    /\ UNCHANGED <<tree, registry, edits, crashes>>

\* ... and the part it imports.
ReadPart(p) ==
    /\ proc[p].stage = "nested"
    /\ \/ /\ Readable(p, "part")
          /\ proc' = [proc EXCEPT ![p].stage = "compare", ![p].root = None,
                         ![p].got = None,
                         ![p].out = Append(@, [root |-> proc[p].root,
                                               part |-> Place(p).part])]
          /\ UNCHANGED <<lock, cache, last, verified, scars>>
       \/ Unreadable(p, "part") /\ FailOver(p, Reasons(p))
    /\ UNCHANGED <<tree, registry, edits, crashes>>

\* verify_imports compares what it resolved with the lockfile it read.
UpToDate(p) == proc[p].out = proc[p].lock

\* The next import; after the last, the lockfile is written or compared, or
\* the load is done.
Continue(p) ==
    LET me == proc[p]
        done == Len(me.out) = Len(me.scenario)
    IN  /\ me.stage = "compare"
        /\ \/ /\ ~done
              /\ proc' = [proc EXCEPT ![p].stage = "resolve", ![p].got = None]
              /\ UNCHANGED <<lock, cache, last, verified, scars>>
           \/ /\ done /\ me.cmd = "resolve"
              /\ proc' = [proc EXCEPT ![p].stage = "write"]
              /\ UNCHANGED <<lock, cache, last, verified, scars>>
           \/ /\ done /\ me.cmd = "verify" /\ ~me.locks
              /\ IF UpToDate(p) /\ lock # Torn
                 THEN /\ proc' = [proc EXCEPT ![p] =
                            [Begin("verify", me.scenario, TRUE) EXCEPT
                                !.sure = me.sure, !.disturbed = me.disturbed]]
                      /\ UNCHANGED <<lock, cache, last, verified, scars>>
                 ELSE Fail(p)
           \/ /\ done /\ me.locks
              /\ proc' = [proc EXCEPT ![p] = Idle] /\ last' = Ended(p)
              /\ verified' = verified \cup
                    (IF me.cmd = "verify" /\ me.disturbed = {} THEN {me.scenario} ELSE {})
              /\ UNCHANGED <<lock, cache, scars>>
        /\ UNCHANGED <<tree, registry, edits, crashes>>

\* resolve writes the lockfile.
WriteLock(p) ==
    /\ proc[p].stage = "write"
    /\ lock' = proc[p].out /\ verified' = {}
    /\ last' = Ended(p)
    /\ proc' = Rewritten(p)
    /\ UNCHANGED <<tree, registry, cache, scars, edits, crashes>>

\* A process dies where it leaves something behind: files half extracted, or a
\* lockfile half written.
Crash(p) ==
    /\ proc[p].stage \in {"extract", "write"} /\ crashes < MaxCrashes
    /\ crashes' = crashes + 1
    /\ \/ /\ proc[p].stage = "extract"
          /\ proc' = [proc EXCEPT ![p] = Idle] /\ UNCHANGED <<lock, verified>>
       \/ /\ proc[p].stage = "write"
          /\ lock' = Torn /\ verified' = {}
          /\ proc' = Rewritten(p)
    /\ scars' = IF proc[p].stage = "extract" THEN scars \cup {proc[p].got.manifest} ELSE scars
    /\ UNCHANGED <<tree, registry, cache, last, edits>>

Run(p) == \/ \E cmd \in Jobs[p], scenario \in Scenarios : Start(p, cmd, scenario)
          \/ Unlocked(p) \/ ResolveLocal(p) \/ SelectTag(p) \/ Unreachable(p)
          \/ FetchManifest(p) \/ Extract(p) \/ Accept(p) \/ ReadRoot(p) \/ ReadPart(p)
          \/ Continue(p) \/ WriteLock(p) \/ Crash(p)
Next == \/ \E new \in Trees : Edit(new)
        \/ \E signer \in Signers : Publish(signer)
        \/ \E v \in Versions, m \in registry.pushed \cup {None} : Retag(v, m)
        \/ \E p \in Procs : Run(p)

Spec == Init /\ [][Next]_vars

-----------------------------------------------------------------------------
(***************************************************************************)
(* A load that succeeds under a lockfile has loaded what the lockfile      *)
(* recorded, wherever the tags point by then: of a registry module every   *)
(* file, except one an extraction was still writing or never finished; of  *)
(* a local module the root file, unless it was edited between the check of *)
(* its digest and its reading. It is about imports that have a record,     *)
(* which one without a namespace never has: resolve records it under the   *)
(* name of its module (module_registry.py 349-512, composition.py 363-383).*)
(***************************************************************************)
LockedLoads ==
    last.cmd = "load" /\ last.ok /\ last.lock # None =>
        \A i \in DOMAIN last.out :
            LET import == Delegated(last.lock, last.scenario[i])
                record == LockRecordFor(last.lock, import)
                got == last.out[i]
            IN  record # None =>
                  IF import.class = "oci"
                  THEN \A f \in DOMAIN Empty : got[f] \in {record.found.content[f], Torn}
                  ELSE "files" \notin last.disturbed => got.root = record.found.content

(***************************************************************************)
(* What verify-imports has passed keeps loading under that lockfile        *)
(* however the registry moves on (cli/sdl.py 39-51). A load of it fails    *)
(* only if a local file was edited, the registry did not answer, a writer  *)
(* of the lockfile died during the load, or the bundle in the cache is     *)
(* damaged: one an extraction left unfinished, which nothing repairs, as   *)
(* the next one finds the root file there, or one that is being extracted  *)
(* again.                                                                  *)
(***************************************************************************)
VerifiedLoads ==
    last.cmd = "load" /\ ~last.ok /\ last.sure =>
        "files" \in last.disturbed \/ last.causes # {}

(***************************************************************************)
(* A cache entry that no process is extracting is whole or empty, unless   *)
(* an extraction of it was cut short, and it is of the manifest it is      *)
(* named for; processes that extract it at once do no harm                 *)
(* (_extract_bundle_to_cache, 292-311).                                    *)
(***************************************************************************)
CacheSettles ==
    \A m \in registry.pushed \ scars :
        Extracting(m) = {} => cache[m] \in {Empty, m.bundle}
=============================================================================
