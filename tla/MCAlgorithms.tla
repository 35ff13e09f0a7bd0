----------------------------- MODULE MCAlgorithms -----------------------------
(* The jobs of Algorithms over small inputs.                               *)
EXTENDS Algorithms

CONSTANTS a1, a2, t1, t2

TwoComponents == {"x", "y"}
TwoAgents == {a1, a2, NoAgent}
TwoTasks == {t1, t2}
=============================================================================
