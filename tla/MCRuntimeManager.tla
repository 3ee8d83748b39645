-------------------------- MODULE MCRuntimeManager --------------------------
(* Small instances of RuntimeManager for TLC. *)
EXTENDS RuntimeManager

\* Two provisioned resources, an evaluated condition, an orchestrated event.
FourAddresses == 1 .. 4
FourDomains == <<"provisioning", "provisioning", "evaluation", "orchestration">>
BothServices == {"orchestration", "evaluation"}

Made(payload, ordering, refresh) ==
    [payload |-> payload, ordering |-> ordering, refresh |-> refresh]

\* 2 is bound to 1, and 3 is checked on 1.
Base == (1 :> Made("old", {}, {})) @@ (2 :> Made("old", {1}, {1}))
        @@ (3 :> Made("old", {}, {1})) @@ (4 :> Made("old", {}, {}))
\* 1 is bound to 2 instead, and nothing is evaluated.
Turned == (1 :> Made("old", {2}, {2})) @@ (2 :> Made("old", {}, {}))
          @@ (4 :> Made("old", {}, {}))
\* What was provisioned before is deleted by a plan.
Cleared == (4 :> Made("old", {}, {}))
Cycle == (1 :> Made("old", {2}, {2})) @@ (2 :> Made("old", {1}, {1}))

FourScenarios == {Base, Turned, Cleared, Cycle}

\* A node and an event that has to be refreshed with it.
TwoScenarios == {(1 :> Made(p, {}, {})) @@ (2 :> Made("old", {}, {1})) : p \in {"old", "new"}}
TwoAddresses == 1 .. 2
TwoDomains == <<"provisioning", "orchestration">>
=============================================================================
