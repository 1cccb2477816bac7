------------------------------- MODULE FileStore -------------------------------
(***************************************************************************)
(* What a caller of the storage provider relies on: each operation takes   *)
(* effect at one instant between its call and its return, on one of the    *)
(* files that are at its path then, or raises without any effect.          *)
(*                                                                         *)
(* A path holds each content some number of times: copies and moves do not *)
(* look at their destination.  An upload replaces one of them.             *)
(***************************************************************************)
EXTENDS Naturals

CONSTANTS Tasks, Places, Contents, Calls, Scratch, None

VARIABLES
  shelf,    \* how often each content is at each path
  disk,     \* the local file that downloads replace
  call,     \* the operation each caller awaits
  outcome   \* "idle", "busy", "done" or "failed"

storeVars == <<shelf, disk, call, outcome>>

Init ==
  /\ shelf = [p \in Places |-> [content \in Contents |-> 0]]
  /\ disk = None
  /\ call = [t \in Tasks |-> None]
  /\ outcome = [t \in Tasks |-> "idle"]

Ask(t) == \E c \in Calls :
  /\ outcome[t] # "busy"
  /\ call' = [call EXCEPT ![t] = c]
  /\ outcome' = [outcome EXCEPT ![t] = "busy"]
  /\ UNCHANGED <<shelf, disk>>

Stock(p) == {content \in Contents : shelf[p][content] > 0}
With(s, p, content) == [s EXCEPT ![p][content] = @ + 1]
Without(s, p, content) == [s EXCEPT ![p][content] = @ - 1]

Upload(c) ==
  /\ c.op = "upload"
  /\ UNCHANGED disk
  /\ \/ Stock(c.place) = {} /\ shelf' = With(shelf, c.place, c.content)
     \/ \E old \in Stock(c.place) :
          shelf' = With(Without(shelf, c.place, old), c.place, c.content)

Download(c) ==
  /\ c.op = "download"
  /\ disk' \in Stock(c.place)
  /\ UNCHANGED shelf

Lookup(c) == c.op = "lookup" /\ UNCHANGED <<shelf, disk>>

\* A file that is not deleted for good has to be in the scratch folder.
Delete(c) == \E content \in Stock(c.place) :
  /\ c.op = "purge" \/ (c.op = "trash" /\ c.place \in Scratch)
  /\ shelf' = Without(shelf, c.place, content)
  /\ UNCHANGED disk

Copy(c) == \E content \in Stock(c.place) :
  /\ c.op = "copy"
  /\ shelf' = With(shelf, c.dst, content)
  /\ UNCHANGED disk

\* A file may be moved to where it is.
Move(c) == \E content \in Stock(c.place) :
  /\ c.op = "move"
  /\ shelf' = With(Without(shelf, c.place, content), c.dst, content)
  /\ UNCHANGED disk

Return(t) ==
  /\ outcome[t] = "busy"
  /\ \/ Upload(call[t]) \/ Download(call[t]) \/ Lookup(call[t])
     \/ Delete(call[t]) \/ Copy(call[t]) \/ Move(call[t])
  /\ outcome' = [outcome EXCEPT ![t] = "done"]
  /\ call' = [call EXCEPT ![t] = None]

Raise(t) ==
  /\ outcome[t] = "busy"
  /\ outcome' = [outcome EXCEPT ![t] = "failed"]
  /\ call' = [call EXCEPT ![t] = None]
  /\ UNCHANGED <<shelf, disk>>

Die ==
  /\ outcome' = [t \in Tasks |-> "idle"]
  /\ call' = [t \in Tasks |-> None]
  /\ UNCHANGED <<shelf, disk>>

Next ==
  \/ \E t \in Tasks : Ask(t) \/ Return(t) \/ Raise(t)
  \/ Die

Spec == Init /\ [][Next]_storeVars
=============================================================================
