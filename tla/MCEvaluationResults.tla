------------------------ MODULE MCEvaluationResults ------------------------
(* A small instance of EvaluationResults for TLC. *)
EXTENDS EvaluationResults

\* A metric with a maximum of 0 or 1, and a condition binding.
OneOfEach == {"score", "probe"}
BothKinds == [score |-> "metric", probe |-> "condition-binding"]
TwoMaxima == {0, 1}
=============================================================================
