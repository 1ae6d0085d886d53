---------------------------- MODULE MCProperties ----------------------------
(* Instances of Properties for TLC. *)
EXTENDS Properties, TLC

CONSTANTS o1, o2, o3

\* o1 owns things; the other object numbers are alike.
ObjSymmetry == Permutations(Objs \ Owners)
=============================================================================
