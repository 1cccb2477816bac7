----------------------------- MODULE MCDriveFiles -----------------------------
(* Small instances of DriveFiles for TLC. *)
EXTENDS DriveFilesProperties, DriveFilesRefinement, TLC

CONSTANTS tmp, avatars, a, b

\* Everything in the scratch folder.
MCScratch == {p \in Places : p.folder = tmp}

FileSymmetry == Permutations(Files) \union Permutations(Contents) \union Permutations(Tasks)
=============================================================================
