---------------------------- MODULE MCSchemaInit ----------------------------
(* Model values for checking SchemaInit with TLC. *)
EXTENDS SchemaInit, TLC

Symmetry == Permutations(Procs)
=============================================================================
