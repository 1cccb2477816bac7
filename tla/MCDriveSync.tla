------------------------------ MODULE MCDriveSync ------------------------------
(* A small instance of DriveSync for TLC: one sync() of a folder, and a task  *)
(* that uploads to it.                                                        *)
EXTENDS DriveSyncProperties, TLC

CONSTANTS avatars

MCScratch == {}

MCSymmetry ==
  Permutations(Files) \union Permutations(Names) \union Permutations(Contents)
=============================================================================
