--------------------------- MODULE MCControlPlane ---------------------------
(* Small instances of ControlPlane for TLC. *)
EXTENDS ControlPlane, TLC

AllServices == BackendKinds
NoEvaluator == BackendKinds \ {"evaluation"}

\* Operation ids, keys and fingerprints are only compared for equality.
Interchangeable == Permutations(Ops) \cup Permutations(Keys)
                       \cup Permutations(Prints)
=============================================================================
