-------------------------- MODULE MCModuleRegistry --------------------------
(* Small instances of ModuleRegistry for TLC. *)
EXTENDS ModuleRegistry

\* One process runs every command, another only loads.
CONSTANTS p, q
WorkerAndLoader == (p :> {"resolve", "verify", "load"}) @@ (q :> {"load"})

Root(version, rev) == [id |-> "m", version |-> version, rev |-> rev,
                       params |-> {}, exports |-> {}]
Decl(class, of, ns, versions) ==
    [class |-> class, of |-> of, ns |-> ns, versions |-> versions,
     params |-> {}, digest |-> None]

TwoVersions == {1, 2}
\* A root that is published again under its version, and a newer one.
TwoRoots == {Root(1, "a"), Root(2, "b")}
FirstTree == [root |-> Root(1, "a"), part |-> "x"]
RootFirst == <<"root", "part">>

Oci == Decl("oci", None, "a", TwoVersions)
Local == Decl("local", None, "b", TwoVersions)
LockedOci == Decl("locked", "oci", "a", {})

\* A root file with both kinds of import, and one that takes what is locked.
Mixed == {<<Oci, Local>>, <<LockedOci>>}

Trusting == [local |-> TRUE, registry |-> TRUE, required |-> TRUE, trusted |-> {"s"}]
=============================================================================
