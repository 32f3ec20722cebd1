---------------------------- MODULE MCHttpRuntime ----------------------------
(* Model values for checking HttpRuntime with TLC. *)
EXTENDS HttpRuntime, TLC

Symmetry == Permutations(Requests) \cup Permutations(Keys)
=============================================================================
