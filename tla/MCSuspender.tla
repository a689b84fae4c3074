---------------------------- MODULE MCSuspender ----------------------------
(* Instances of Suspender for TLC: calls and requests are interchangeable. *)
EXTENDS Suspender, TLC

Symmetry == Permutations(ToolCalls) \cup Permutations(ModelCalls) \cup Permutations(Reqs)
=============================================================================
