---------------------------- MODULE AvatarSchemas ----------------------------
(***************************************************************************)
(* The data of the Avatar Registry: rows of table "avatars" (models.py),   *)
(* the stage order (schemas.py) and the calls the HTTP router accepts.     *)
(*                                                                         *)
(* A stage is its index in _ORDER, 0 being draft.  name and metadata, which*)
(* the code treats alike, are one field "data".  Slugs and data are members*)
(* of small sets; their syntax is checked by Pydantic before any of this.  *)
(***************************************************************************)
EXTENDS Integers

CONSTANTS
  Ids,               \* values gen_random_uuid() can return
  Slugs,             \* legal slugs
  Data,              \* contents of (name, metadata)
  LastStage,         \* index of the last stage (production_ready)
  ExpectedVersions,  \* expected_version values clients send
  Absent,            \* no row, no value
  Keep               \* field left out of a PATCH

Stages == 0 .. LastStage
Draft == 0

Row == [slug : Slugs, data : Data, stage : Stages, version : Nat \ {0}]
MaybeRow == Row \union {Absent}

\* Versions start at 1 and AvatarUpdate.expected_version is >= 1; the two
\* markers are not values of the sets they complete.
ASSUME SchemaAssumption ==
  /\ LastStage \in Nat
  /\ ExpectedVersions \subseteq Nat \ {0}
  /\ Absent \notin Row \union Ids
  /\ Keep \notin Data \union Stages

CreateCalls == [op : {"create"}, slug : Slugs, data : Data]
UpdateCalls == [op : {"update"}, id : Ids, expected : ExpectedVersions,
                data : Data \union {Keep}, stage : Stages \union {Keep}]
DeleteCalls == [op : {"delete"}, id : Ids, expected : ExpectedVersions]
GetCalls    == [op : {"get"}, id : Ids]
ListCalls   == [op : {"list"}]
Calls == UNION {CreateCalls, UpdateCalls, DeleteCalls, GetCalls, ListCalls}

ASSUME CallAssumption == Absent \notin Calls

\* Mutant: a stage may also go back.
AnyOtherStage == [s \in Stages |-> Stages \ {s}]

\* Each stage may only advance to the one after it.
AllowedTransitions ==
  [s \in Stages |-> IF s < LastStage THEN {s + 1} ELSE {}]

\* The row POST /avatars creates.
NewRow(c) == [slug |-> c.slug, data |-> c.data, stage |-> Draft, version |-> 1]

\* The value a field has after a PATCH that names it, or leaves it out.
Patched(new, old) == IF new = Keep THEN old ELSE new

\* Mutant: the UPDATE forgets version = version + 1.
UpdatedInPlace(row, c) ==
  [row EXCEPT !.data = Patched(c.data, @), !.stage = Patched(c.stage, @)]

\* The row an UPDATE writes over "row".
UpdatedRow(row, c) ==
  [row EXCEPT !.data = Patched(c.data, @), !.stage = Patched(c.stage, @),
              !.version = @ + 1]

Codes == {"created", "ok", "no_content", "not_found", "slug_conflict",
          "version_conflict", "invalid_transition", "delete_blocked", "error"}

Success(code, row) == [code |-> code, row |-> row]
Failure(code) == [code |-> code, row |-> Absent]
Listing(rows) == [code |-> "ok", rows |-> rows]
Answers == [code : Codes, row : MaybeRow]
             \union [code : {"ok"}, rows : [Ids -> MaybeRow]]
=============================================================================
