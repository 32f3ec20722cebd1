----------------------------- MODULE MCGcPolicy -----------------------------
(***************************************************************************)
(* Bounds for checking GcPolicy with TLC: thresholds of 3 responses, 2 units *)
(* of heap and 3 of time, in a heap and on a clock a little larger.         *)
(***************************************************************************)
EXTENDS GcPolicy
=============================================================================
