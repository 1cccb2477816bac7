-------------------------- MODULE MCAvatarRegistry --------------------------
(* Small instances of the Avatar Registry for TLC. *)
EXTENDS AvatarRegistryProperties, TLC

Symmetry == Permutations(Requests) \union Permutations(Ids)
=============================================================================
