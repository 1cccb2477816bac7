---------------------------- MODULE MCDriveFolders ----------------------------
(* Small instances of DriveFolders for TLC. *)
EXTENDS DriveFoldersProperties, TLC

CONSTANTS tmp, avatars, lia, v1, p1, p2, s1, s2

TwoTasks == {p1} \X {s1, s2}
ThreeTasks == TwoTasks \union {<<p2, s1>>}

\* Two paths that share a prefix, one whose last name is also a middle name,
\* an official folder that is missing, a name that is not official, and the
\* root itself.
MCPaths == {<<>>, <<tmp, lia>>, <<tmp, lia, v1>>, <<tmp, v1>>, <<avatars>>, <<lia>>}
OnePath == {<<tmp, lia>>}
ShortPaths == {<<tmp, lia>>, <<tmp, lia, v1>>}

MCSymmetry == Permutations(FolderIds) \union Permutations(Slots)
=============================================================================
