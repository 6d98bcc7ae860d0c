----------------------------- MODULE MCDocumentOwner ------------------------------
(* Two connections, two or three operations on one tile.  Conflicting      *)
(* content under one operation ID, stale before-values, resubmission after *)
(* a failure and a restart between any two steps all occur.                *)
EXTENDS DocumentOwner, TLC

CONSTANTS p, q, o1, o2, o3

McSymmetry == Permutations({p, q}) \cup Permutations({o1, o2, o3})
===================================================================================
