-------------------------- MODULE DriveFilesRefinement --------------------------
(***************************************************************************)
(* The file operations of DriveFiles as calls of FileStore.                *)
(***************************************************************************)
EXTENDS DriveFiles

\* The files that show a content at a path, and how many they are.
Copies(p, c) == {f \in At(p) : file[f].content = c}
Shelf(p) == [c \in Contents |-> Cardinality(Copies(p, c))]

Store == INSTANCE FileStore WITH
  shelf   <- [p \in Places |-> Shelf(p)],
  outcome <- [t \in Tasks |-> IF pc[t] \in Resting THEN pc[t] ELSE "busy"]

\* For a caller whom nobody disturbs, and while no answer is lost, the two to
\* three requests of an operation, their retries, and a death between them
\* are one instant or none (google_drive.py:309-492).
ImplementsFileStore == Store!Spec
=============================================================================
