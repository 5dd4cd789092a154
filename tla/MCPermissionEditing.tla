------------------------- MODULE MCPermissionEditing -------------------------
(* PermissionEditing for TLC: the fields of a profile are interchangeable. *)
EXTENDS PermissionEditing, TLC

Symmetry == Permutations(Fields)
=============================================================================
