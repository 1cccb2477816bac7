------------------------ MODULE AvatarRegistryProofs ------------------------
(* Proofs about the Avatar Registry, for every value of its constants.       *)
EXTENDS AvatarRegistryProperties, TLAPS

-----------------------------------------------------------------------------
(* Data *)

LEMMA CallOfOp ==
  ASSUME NEW c \in Calls
  PROVE  /\ c.op \in {"create", "update", "delete", "get", "list"}
         /\ c.op = "create" => c \in CreateCalls
         /\ c.op = "update" => c \in UpdateCalls
         /\ c.op = "delete" => c \in DeleteCalls
         /\ c.op = "get" => c \in GetCalls
  BY DEF Calls, CreateCalls, UpdateCalls, DeleteCalls, GetCalls, ListCalls

LEMMA NewRowType ==
  ASSUME NEW c \in CreateCalls
  PROVE  /\ NewRow(c) \in Row
         /\ NewRow(c).version = 1
         /\ NewRow(c).stage = Draft
         /\ NewRow(c).slug = c.slug
         /\ c.slug \in Slugs
  BY SchemaAssumption DEF CreateCalls, NewRow, Row, Draft, Stages

LEMMA UpdatedRowType ==
  ASSUME NEW row \in Row, NEW c \in UpdateCalls, TransitionAllowed(row, c)
  PROVE  /\ UpdatedRow(row, c) \in Row
         /\ UpdatedRow(row, c).slug = row.slug
         /\ UpdatedRow(row, c).version = row.version + 1
         /\ UpdatedRow(row, c).stage \in {row.stage, row.stage + 1}
<1>1. row.stage \in Stages /\ row.version \in Nat \ {0} /\ row.data \in Data
  BY DEF Row
<1>2. c.data \in Data \union {Keep} /\ c.stage \in Stages \union {Keep}
  BY DEF UpdateCalls
<1>3. Patched(c.data, row.data) \in Data
  BY <1>1, <1>2 DEF Patched
<1>4. Patched(c.stage, row.stage) \in Stages
  BY <1>1, <1>2 DEF Patched
<1>5. Patched(c.stage, row.stage) \in {row.stage, row.stage + 1}
  BY <1>1, <1>2 DEF Patched, TransitionAllowed, AllowedTransitions
<1>6. UpdatedRow(row, c) = [row EXCEPT !.data = Patched(c.data, row.data),
                                       !.stage = Patched(c.stage, row.stage),
                                       !.version = row.version + 1]
  BY DEF UpdatedRow, Row
<1>7. row.version + 1 \in Nat \ {0}
  BY <1>1
<1> HIDE DEF Patched
<1> QED
  BY <1>3, <1>4, <1>5, <1>6, <1>7 DEF Row

LEMMA AbsentNotRow == Absent \notin Row
  BY SchemaAssumption

LEMMA AnswerType ==
  /\ \A code \in Codes : Failure(code) \in Answers
  /\ \A code \in Codes, row \in MaybeRow : Success(code, row) \in Answers
  /\ \A rows \in [Ids -> MaybeRow] : Listing(rows) \in Answers
  BY DEF Failure, Success, Listing, Answers, MaybeRow, Codes

-----------------------------------------------------------------------------
(* Steps that leave the table alone *)

\* A handler that answers without having written anything.
LEMMA ReplyInv ==
  ASSUME IInv, NEW r \in Requests, NEW a \in Answers,
         pc[r] # "idle", Reply(r, a), TableUnchanged
  PROVE  IInv'
<1> USE DEF IInv
<1>1. TypeOK'
  BY DEF TypeOK, Reply, TableUnchanged, MaybeRow, Records, Steps
<1>2. ControlOK'
  BY DEF TypeOK, Reply, ControlOK
<1>3. IssuedOK'
  BY AbsentNotRow DEF TypeOK, Reply, TableUnchanged, IssuedOK
<1>4. ReadOK'
  BY DEF TypeOK, Reply, TableUnchanged, ReadOK, TransitionAllowed, Changes
<1>5. PendingOK'
  BY DEF TypeOK, Reply, TableUnchanged, PendingOK
<1>6. LocksOK'
  BY DEF TypeOK, Reply, LocksOK
<1>7. (SlugUnique /\ StageBehindVersion)'
  BY DEF TableUnchanged, SlugUnique, StageBehindVersion
<1>8. PendingSlugsOK'
  BY DEF TypeOK, Reply, TableUnchanged, PendingSlugsOK
<1> QED
  BY <1>1, <1>2, <1>3, <1>4, <1>5, <1>6, <1>7, <1>8

LEMMA SubmitInv ==
  ASSUME IInv, NEW r \in Requests, Submit(r)
  PROVE  IInv'
<1> USE DEF IInv
<1>0. PICK c \in Calls : call' = [call EXCEPT ![r] = c]
  BY DEF Submit
<1>1. TypeOK'
  BY <1>0 DEF TypeOK, Submit, TableUnchanged, Steps
<1>2. ControlOK'
  BY <1>0, CallAssumption DEF TypeOK, Submit, ControlOK
<1>3. IssuedOK'
  BY <1>0 DEF TypeOK, Submit, TableUnchanged, IssuedOK, ControlOK
<1>4. ReadOK'
  BY DEF TypeOK, Submit, TableUnchanged, ReadOK, TransitionAllowed, Changes
<1>5. PendingOK'
  BY DEF TypeOK, Submit, TableUnchanged, PendingOK
<1>6. LocksOK'
  BY DEF TypeOK, Submit, LocksOK
<1>7. (SlugUnique /\ StageBehindVersion)'
  BY DEF Submit, TableUnchanged, SlugUnique, StageBehindVersion
<1>8. PendingSlugsOK'
  BY DEF TypeOK, Submit, TableUnchanged, PendingSlugsOK
<1> QED
  BY <1>1, <1>2, <1>3, <1>4, <1>5, <1>6, <1>7, <1>8

\* A handler that moves on to step "to" and keeps its variables.
LEMMA GotoInv ==
  ASSUME IInv, NEW r \in Requests, NEW to \in {"insert", "exists"},
         Goto(r, to), UNCHANGED Locals, TableUnchanged,
         to = "insert" => At(r, "create", "start"),
         to = "exists" => pc[r] = "write" /\ avatars[call[r].id] # current[r]
  PROVE  IInv'
<1> USE DEF IInv, At
<1>1. TypeOK'
  BY DEF TypeOK, Goto, Locals, TableUnchanged, Steps
<1>2. ControlOK'
  BY DEF TypeOK, Goto, ControlOK
<1>3. IssuedOK'
  BY DEF TypeOK, Goto, Locals, TableUnchanged, IssuedOK
<1>4. ReadOK'
  BY DEF TypeOK, Goto, Locals, TableUnchanged, ReadOK, TransitionAllowed, Changes,
         EditOps
<1>5. PendingOK'
  BY DEF TypeOK, Goto, Locals, TableUnchanged, PendingOK
<1>6. LocksOK'
  BY DEF TypeOK, Goto, Locals, LocksOK
<1>7. (SlugUnique /\ StageBehindVersion)'
  BY DEF TableUnchanged, SlugUnique, StageBehindVersion
<1>8. PendingSlugsOK'
  BY DEF TypeOK, Goto, Locals, TableUnchanged, PendingSlugsOK
<1> QED
  BY <1>1, <1>2, <1>3, <1>4, <1>5, <1>6, <1>7, <1>8

\* service.py read a row that passes its checks.
LEMMA ReadInv ==
  ASSUME IInv, NEW r \in Requests,
         pc[r] = "start", call[r].op \in EditOps,
         avatars[call[r].id] \in Row,
         avatars[call[r].id].version = call[r].expected,
         call[r].op = "delete" => avatars[call[r].id].stage = Draft,
         call[r].op = "update" => /\ TransitionAllowed(avatars[call[r].id], call[r])
                                  /\ Changes(avatars[call[r].id], call[r]),
         current' = [current EXCEPT ![r] = avatars[call[r].id]],
         Goto(r, "write"), UNCHANGED record, TableUnchanged
  PROVE  IInv'
<1> USE DEF IInv
<1>0. call[r] \in Calls /\ call[r].id \in Ids
  BY CallOfOp DEF TypeOK, ControlOK, EditOps, UpdateCalls, DeleteCalls
<1>1. TypeOK'
  BY DEF TypeOK, Goto, TableUnchanged, Steps, MaybeRow
<1>2. ControlOK'
  BY DEF TypeOK, Goto, ControlOK
<1>3. IssuedOK'
  BY DEF TypeOK, Goto, TableUnchanged, IssuedOK
<1>4. ReadOK'
  BY <1>0, AbsentNotRow
  DEF TypeOK, Goto, TableUnchanged, ReadOK, IssuedOK, TransitionAllowed, Changes
<1>5. PendingOK'
  BY DEF TypeOK, Goto, TableUnchanged, PendingOK
<1>6. LocksOK'
  BY DEF TypeOK, Goto, LocksOK
<1>7. (SlugUnique /\ StageBehindVersion)'
  BY DEF TableUnchanged, SlugUnique, StageBehindVersion
<1>8. PendingSlugsOK'
  BY DEF TypeOK, Goto, TableUnchanged, PendingSlugsOK
<1> QED
  BY <1>1, <1>2, <1>3, <1>4, <1>5, <1>6, <1>7, <1>8

LEMMA DeliverInv ==
  ASSUME IInv, NEW r \in Requests, Deliver(r)
  PROVE  IInv'
<1> USE DEF IInv, Deliver
<1>1. TypeOK'
  BY DEF TypeOK, Locals, TableUnchanged, Steps
<1>2. ControlOK'
  BY DEF TypeOK, ControlOK
<1>3. IssuedOK'
  BY DEF TypeOK, Locals, TableUnchanged, IssuedOK
<1>4. ReadOK'
  BY DEF TypeOK, Locals, TableUnchanged, ReadOK, TransitionAllowed, Changes
<1>5. PendingOK'
  BY DEF TypeOK, Locals, TableUnchanged, PendingOK
<1>6. LocksOK'
  BY DEF TypeOK, Locals, LocksOK
<1>7. (SlugUnique /\ StageBehindVersion)'
  BY DEF TableUnchanged, SlugUnique, StageBehindVersion
<1>8. PendingSlugsOK'
  BY DEF TypeOK, Locals, TableUnchanged, PendingSlugsOK
<1> QED
  BY <1>1, <1>2, <1>3, <1>4, <1>5, <1>6, <1>7, <1>8

LEMMA CrashInv ==
  ASSUME IInv, Crash
  PROVE  IInv'
<1> USE DEF IInv, Crash
<1>0. \A r \in Requests : pc'[r] \in {"idle", "answered"}
  BY DEF TypeOK, InFlight, Steps
<1>1. TypeOK'
  BY AnswerType DEF TypeOK, TableUnchanged, Steps, MaybeRow, Records, InFlight, Codes
<1>2. ControlOK'
  BY DEF TypeOK, ControlOK, InFlight
<1>3. IssuedOK'
  BY <1>0 DEF TypeOK, TableUnchanged, IssuedOK
<1>4. ReadOK'
  BY <1>0 DEF ReadOK
<1>5. PendingOK'
  BY <1>0 DEF PendingOK
<1>6. LocksOK'
  BY <1>0 DEF LocksOK
<1>7. (SlugUnique /\ StageBehindVersion)'
  BY DEF TableUnchanged, SlugUnique, StageBehindVersion
<1>8. PendingSlugsOK'
  BY <1>0 DEF PendingSlugsOK
<1> QED
  BY <1>1, <1>2, <1>3, <1>4, <1>5, <1>6, <1>7, <1>8

-----------------------------------------------------------------------------
(* Steps that take a row or a slug *)

LEMMA InsertInv ==
  ASSUME IInv, NEW r \in Requests, NEW id \in Ids \ issued,
         At(r, "create", "insert"),
         ~SlugLocked(r, call[r].slug), ~SlugTaken(call[r].slug), ~RowLocked(r, id),
         record' = [record EXCEPT ![r] = [id |-> id, row |-> NewRow(call[r])]],
         Goto(r, "commit"), UNCHANGED current, TableUnchanged
  PROVE  IInv'
<1> USE DEF IInv, At
<1>0. /\ call[r] \in CreateCalls
      /\ NewRow(call[r]) \in Row
      /\ NewRow(call[r]).slug = call[r].slug
  BY CallOfOp, NewRowType DEF TypeOK, ControlOK
<1>1. TypeOK'
  BY <1>0 DEF TypeOK, Goto, TableUnchanged, Steps, MaybeRow, Records
<1>2. ControlOK'
  BY DEF TypeOK, Goto, ControlOK
<1>3. IssuedOK'
  BY DEF TypeOK, Goto, TableUnchanged, IssuedOK
<1>4. ReadOK'
  BY DEF TypeOK, Goto, TableUnchanged, ReadOK, TransitionAllowed, Changes, EditOps
<1>5. PendingOK'
  BY DEF TypeOK, Goto, TableUnchanged, PendingOK, EditOps
<1>6. LocksOK'
  BY DEF TypeOK, Goto, LocksOK, RowLocked, Holds
<1>7. (SlugUnique /\ StageBehindVersion)'
  BY DEF TableUnchanged, SlugUnique, StageBehindVersion
<1>8. PendingSlugsOK'
  <2>1. \A a \in Ids : avatars[a] # Absent => avatars[a].slug # call[r].slug
    BY DEF SlugTaken
  <2>2. ASSUME NEW q \in Requests \ {r}, pc[q] = "commit", record[q].row # Absent
        PROVE  record[q].row.slug # call[r].slug
    <3>1. record[q].id \in Ids
      BY <2>2 DEF PendingOK
    <3> QED
      BY <2>2, <3>1 DEF SlugLocked, Holds
  <2>3. /\ pc' = [pc EXCEPT ![r] = "commit"]
        /\ record'[r].row = NewRow(call[r])
        /\ \A q \in Requests \ {r} : record'[q] = record[q] /\ pc'[q] = pc[q]
    BY DEF TypeOK, Goto
  <2> QED
    BY <1>0, <2>1, <2>2, <2>3 DEF TableUnchanged, PendingSlugsOK
<1> QED
  BY <1>1, <1>2, <1>3, <1>4, <1>5, <1>6, <1>7, <1>8

\* UPDATE and DELETE: the row that matches is the one service.py read.
LEMMA MatchIsCurrent ==
  ASSUME IInv, NEW r \in Requests, pc[r] = "write",
         call[r].op \in EditOps,
         avatars[call[r].id] # Absent, avatars[call[r].id].version = call[r].expected
  PROVE  avatars[call[r].id] = current[r] /\ current[r] \in Row
<1>1. current[r].version = call[r].expected /\ current[r] \in Row
  BY DEF IInv, ReadOK
<1>2. ~(avatars[call[r].id].version > call[r].expected)
  BY <1>1 DEF Row
<1> QED
  BY <1>1, <1>2 DEF IInv, ReadOK

LEMMA LockRowInv ==
  ASSUME IInv, NEW r \in Requests, NEW row \in MaybeRow,
         pc[r] = "write", call[r].op \in EditOps,
         avatars[call[r].id] # Absent,
         avatars[call[r].id].version = call[r].expected,
         ~RowLocked(r, call[r].id),
         call[r].op = "update" => row = UpdatedRow(current[r], call[r]),
         call[r].op = "delete" => row = Absent,
         row # Absent => row.slug = current[r].slug,
         record' = [record EXCEPT ![r] = [id |-> call[r].id, row |-> row]],
         Goto(r, "commit"), UNCHANGED current, TableUnchanged
  PROVE  IInv'
<1> USE DEF IInv
<1>0. /\ call[r].id \in Ids
      /\ avatars[call[r].id] = current[r]
      /\ current[r] \in Row
      /\ call[r].op # "create"
  BY CallOfOp, MatchIsCurrent
  DEF TypeOK, ControlOK, EditOps, UpdateCalls, DeleteCalls
<1>1. TypeOK'
  BY <1>0 DEF TypeOK, Goto, TableUnchanged, Steps, Records
<1>2. ControlOK'
  BY DEF TypeOK, Goto, ControlOK
<1>3. IssuedOK'
  BY DEF TypeOK, Goto, TableUnchanged, IssuedOK
<1>4. ReadOK'
  BY DEF TypeOK, Goto, TableUnchanged, ReadOK, TransitionAllowed, Changes
<1>5. PendingOK'
  BY <1>0 DEF TypeOK, Goto, TableUnchanged, PendingOK
<1>6. LocksOK'
  BY <1>0 DEF TypeOK, Goto, LocksOK, RowLocked, Holds
<1>7. (SlugUnique /\ StageBehindVersion)'
  BY DEF TableUnchanged, SlugUnique, StageBehindVersion
<1>8. PendingSlugsOK'
  <2>1. ASSUME row # Absent, NEW a \in Ids, avatars[a] # Absent,
               avatars[a].slug = row.slug
        PROVE  a = call[r].id
    BY <1>0, <2>1 DEF SlugUnique
  <2>2. ASSUME row # Absent, NEW q \in Requests \ {r}, pc[q] = "commit",
               record[q].row # Absent, record[q].row.slug = row.slug
        PROVE  FALSE
    <3>1. record[q].id = call[r].id
      BY <1>0, <2>2 DEF PendingSlugsOK
    <3> QED
      BY <2>2, <3>1 DEF RowLocked, Holds
  <2>3. /\ record'[r] = [id |-> call[r].id, row |-> row]
        /\ \A q \in Requests \ {r} : record'[q] = record[q] /\ pc'[q] = pc[q]
    BY DEF TypeOK, Goto
  <2> QED
    BY <1>0, <2>1, <2>2, <2>3 DEF TableUnchanged, PendingSlugsOK
<1> QED
  BY <1>1, <1>2, <1>3, <1>4, <1>5, <1>6, <1>7, <1>8

-----------------------------------------------------------------------------
(* Commits *)

\* What an open transaction puts in place of the row it holds.
LEMMA PendingRow ==
  ASSUME IInv, NEW r \in Requests, pc[r] = "commit"
  PROVE  LET id == record[r].id
             old == avatars[id]
             new == record[r].row
         IN /\ id \in Ids
            /\ new \in MaybeRow
            /\ \/ call[r].op = "create" /\ old = Absent /\ id \notin issued
                  /\ new \in Row /\ new.version = 1 /\ new.stage = Draft
               \/ call[r].op = "update" /\ id \in issued
                  /\ old \in Row /\ new \in Row /\ new.slug = old.slug
                  /\ new.version = old.version + 1
                  /\ new.stage \in {old.stage, old.stage + 1}
               \/ call[r].op = "delete" /\ id \in issued
                  /\ old \in Row /\ old.stage = Draft /\ new = Absent
<1> USE DEF IInv
<1>1. record[r].id \in Ids /\ call[r] \in Calls
  BY DEF PendingOK, TypeOK, ControlOK
<1>2. CASE call[r].op = "create"
  BY <1>1, <1>2, CallOfOp, NewRowType DEF PendingOK, IssuedOK, MaybeRow
<1>3. CASE call[r].op = "update"
  <2>1. call[r] \in UpdateCalls
    BY <1>1, <1>3, CallOfOp
  <2>2. /\ current[r] \in Row /\ call[r].id \in issued
        /\ TransitionAllowed(current[r], call[r])
    BY <1>3 DEF ReadOK, EditOps
  <2>3. /\ record[r].id = call[r].id
        /\ avatars[call[r].id] = current[r]
        /\ record[r].row = UpdatedRow(current[r], call[r])
    BY <1>3 DEF PendingOK, EditOps
  <2> QED
    BY <1>1, <1>3, <2>1, <2>2, <2>3, UpdatedRowType DEF MaybeRow
<1>4. CASE call[r].op = "delete"
  <2>1. current[r] \in Row /\ call[r].id \in issued /\ current[r].stage = Draft
    BY <1>4 DEF ReadOK, EditOps
  <2>2. /\ record[r].id = call[r].id
        /\ avatars[call[r].id] = current[r]
        /\ record[r].row = Absent
    BY <1>4 DEF PendingOK, EditOps
  <2> QED
    BY <1>1, <1>4, <2>1, <2>2 DEF MaybeRow
<1> QED
  BY <1>2, <1>3, <1>4 DEF ControlOK, EditOps

LEMMA PublishTable ==
  ASSUME IInv, NEW r \in Requests, pc[r] = "commit", Publish(r)
  PROVE  /\ avatars' \in [Ids -> MaybeRow]
         /\ issued' \subseteq Ids
         /\ issued \subseteq issued'
         /\ record[r].id \in issued'
         /\ \A id \in Ids : avatars'[id] # Absent => id \in issued'
         /\ \A id \in Ids : id # record[r].id => avatars'[id] = avatars[id]
         /\ avatars'[record[r].id] = record[r].row
         /\ SlugUnique'
         /\ StageBehindVersion'
         /\ \A id \in Ids : LegalRowStep(id)
<1> USE DEF IInv
<1> DEFINE own == record[r].id
           new == record[r].row
<1>1. own \in Ids /\ new \in MaybeRow
  BY PendingRow
<1>2. /\ avatars' \in [Ids -> MaybeRow]
      /\ avatars'[own] = new
      /\ \A id \in Ids : id # own => avatars'[id] = avatars[id]
  BY <1>1 DEF Publish, TypeOK
<1>3. /\ issued' \subseteq Ids /\ issued \subseteq issued' /\ own \in issued'
      /\ \A id \in Ids : avatars'[id] # Absent => id \in issued'
  BY <1>1, <1>2 DEF Publish, TypeOK, IssuedOK
<1>4. SlugUnique'
  BY <1>1, <1>2 DEF SlugUnique, PendingSlugsOK
<1>5. StageBehindVersion'
  <2>1. ASSUME new # Absent
        PROVE  new.stage < new.version
    <3>1. CASE avatars[own] = Absent
      BY <2>1, <3>1, PendingRow, AbsentNotRow DEF Draft
    <3>2. CASE avatars[own] # Absent
      <4>1. /\ avatars[own] \in Row
            /\ new.version = avatars[own].version + 1
            /\ new.stage \in {avatars[own].stage, avatars[own].stage + 1}
        BY <2>1, <3>2, PendingRow
      <4>2. avatars[own].stage < avatars[own].version
        BY <1>1, <3>2 DEF StageBehindVersion
      <4>3. avatars[own].stage \in Int /\ avatars[own].version \in Int
        BY <4>1, SchemaAssumption DEF Row, Stages
      <4> QED
        BY <4>1, <4>2, <4>3
    <3> QED
      BY <3>1, <3>2
  <2> QED
    BY <1>2, <2>1 DEF StageBehindVersion
<1>6. ASSUME NEW id \in Ids PROVE LegalRowStep(id)
  <2>1. CASE id # own
    BY <1>2, <2>1 DEF LegalRowStep
  <2>2. CASE id = own
    BY <1>2, <2>2, PendingRow, AbsentNotRow DEF LegalRowStep
  <2> QED
    BY <2>1, <2>2
<1> QED
  BY <1>1, <1>2, <1>3, <1>4, <1>5, <1>6

\* A commit leaves every other open transaction its lock, and whatever another
\* request read of the committed row is now recognisably stale.
LEMMA PublishInv ==
  ASSUME IInv, NEW r \in Requests, pc[r] = "commit", Publish(r),
         \/ \E a \in Answers : Reply(r, a)
         \/ call[r].op = "create" /\ Goto(r, "refresh") /\ UNCHANGED Locals
  PROVE  IInv'
<1> USE DEF IInv
<1> DEFINE own == record[r].id
<1>1. /\ avatars' \in [Ids -> MaybeRow]
      /\ issued' \subseteq Ids
      /\ issued \subseteq issued'
      /\ own \in issued'
      /\ \A id \in Ids : avatars'[id] # Absent => id \in issued'
      /\ \A id \in Ids : id # own => avatars'[id] = avatars[id]
      /\ avatars'[own] = record[r].row
      /\ SlugUnique' /\ StageBehindVersion'
  BY PublishTable
<1>2. own \in Ids /\ record[r].row \in MaybeRow
  BY PendingRow
<1>3. /\ call' = call
      /\ pc'[r] \in {"answered", "refresh"}
      /\ pc'[r] = "refresh" => call[r].op = "create" /\ record'[r] = record[r]
      /\ \A q \in Requests \ {r} :
           pc'[q] = pc[q] /\ current'[q] = current[q] /\ record'[q] = record[q]
  BY DEF TypeOK, Reply, Goto, Locals
<1>4. TypeOK'
  BY <1>1 DEF TypeOK, Reply, Goto, Locals, Steps, MaybeRow, Records
<1>5. ControlOK'
  BY <1>3 DEF ControlOK
<1>6. IssuedOK'
  BY <1>1, <1>3 DEF IssuedOK
<1>7. ReadOK'
  <2> SUFFICES ASSUME NEW q \in Requests \ {r},
                      pc[q] \in {"write", "commit", "exists"},
                      call[q].op \in EditOps
               PROVE  LET row == avatars'[call[q].id] IN
                      /\ call[q].id \in issued'
                      /\ current[q] \in Row
                      /\ current[q].version = call[q].expected
                      /\ \/ row = Absent
                         \/ row = current[q] /\ pc[q] # "exists"
                         \/ row.version > call[q].expected
                      /\ call[q].op = "delete" => current[q].stage = Draft
                      /\ call[q].op = "update" =>
                           /\ TransitionAllowed(current[q], call[q])
                           /\ Changes(current[q], call[q])
    BY <1>3 DEF ReadOK, TransitionAllowed, Changes
  <2> DEFINE id == call[q].id
  <2>1. /\ id \in issued /\ id \in Ids
        /\ current[q] \in Row
        /\ current[q].version = call[q].expected
        /\ avatars[id] = Absent \/ avatars[id] = current[q]
             \/ avatars[id].version > call[q].expected
    BY DEF ReadOK, TypeOK
  <2>2. CASE id # own
    BY <1>1, <2>1, <2>2 DEF ReadOK
  <2>3. CASE id = own
    <3>1. \/ record[r].row = Absent
          \/ /\ avatars[id] \in Row /\ record[r].row \in Row
             /\ record[r].row.version = avatars[id].version + 1
      BY <2>1, <2>3, PendingRow
    <3>2. \/ avatars'[id] = Absent
          \/ avatars'[id].version > call[q].expected
      BY <1>1, <2>1, <2>3, <3>1, AbsentNotRow DEF Row
    <3> QED
      BY <1>1, <2>1, <3>2 DEF ReadOK
  <2> QED
    BY <2>2, <2>3
<1>8. PendingOK'
  <2>1. ASSUME NEW q \in Requests \ {r}, pc[q] = "commit"
        PROVE  record[q].id # own
    BY <2>1 DEF LocksOK
  <2>2. ASSUME NEW q \in Requests \ {r}, pc[q] = "commit", call[q].op = "create"
        PROVE  record[q].id \notin issued'
    BY <2>1, <2>2 DEF PendingOK, Publish
  <2>3. ASSUME NEW q \in Requests \ {r}, pc[q] = "commit", call[q].op \in EditOps
        PROVE  avatars'[call[q].id] = avatars[call[q].id]
    BY <1>1, <2>1, <2>3 DEF PendingOK
  <2> QED
    BY <1>3, <2>1, <2>2, <2>3 DEF PendingOK
<1>9. LocksOK'
  BY <1>3 DEF LocksOK
<1>10. PendingSlugsOK'
  <2>1. ASSUME NEW q \in Requests \ {r}, pc[q] = "commit", record[q].row # Absent,
               NEW id \in Ids, avatars'[id] # Absent,
               avatars'[id].slug = record[q].row.slug
        PROVE  id = record[q].id
    <3>1. CASE id # own
      BY <1>1, <2>1, <3>1 DEF PendingSlugsOK
    <3>2. CASE id = own
      BY <1>1, <2>1, <3>2 DEF PendingSlugsOK
    <3> QED
      BY <3>1, <3>2
  <2> QED
    BY <1>3, <2>1 DEF PendingSlugsOK
<1> QED
  BY <1>1, <1>4, <1>5, <1>6, <1>7, <1>8, <1>9, <1>10

-----------------------------------------------------------------------------
(* The invariant *)

LEMMA InitInv == Init => IInv
  BY DEF Init, IInv, TypeOK, ControlOK, IssuedOK, ReadOK, PendingOK, LocksOK,
         SlugUnique, PendingSlugsOK, StageBehindVersion, MaybeRow, Records,
         NoRecord, Steps

\* The answers of a handler's own steps are answers, and its rows are rows.
LEMMA OwnStepInv ==
  ASSUME IInv, NEW r \in Requests, OwnStep(r)
  PROVE  IInv'
<1>1. /\ avatars \in [Ids -> MaybeRow]
      /\ pc[r] # "idle" => call[r] \in Calls
  BY DEF IInv, TypeOK, ControlOK
<1>2. CASE CreatePrecheck(r)
  BY <1>2, ReplyInv, GotoInv, AnswerType DEF CreatePrecheck, At, Codes
<1>3. CASE CreateCommit(r)
  BY <1>3, PublishInv DEF CreateCommit, At
<1>4. CASE CreateRefresh(r)
  <2>1. record[r].id \in Ids
    BY <1>4 DEF IInv, IssuedOK, TypeOK, CreateRefresh, At
  <2>2. avatars[record[r].id] \in MaybeRow
    BY <1>1, <2>1
  <2> QED
    BY <1>4, <2>2, ReplyInv, AnswerType DEF CreateRefresh, At, Codes
<1>5. CASE UpdateCheck(r)
  <2>1. call[r].id \in Ids
    BY <1>1, <1>5, CallOfOp DEF UpdateCheck, At, UpdateCalls
  <2>2. avatars[call[r].id] \in MaybeRow
    BY <1>1, <2>1
  <2>3. pc[r] = "start" /\ call[r].op = "update" /\ TableUnchanged
    BY <1>5 DEF UpdateCheck, At
  <2>4. CASE \E a \in Answers : Reply(r, a)
    BY <2>3, <2>4, ReplyInv
  <2>5. CASE ~ \E a \in Answers : Reply(r, a)
    BY <1>5, <2>2, <2>3, <2>5, ReadInv, AnswerType
    DEF UpdateCheck, EditOps, MaybeRow, Codes
  <2> QED
    BY <2>4, <2>5
<1>6. CASE UpdateMiss(r)
  <2>1. avatars[call[r].id] # current[r]
    BY <1>6, AbsentNotRow
    DEF UpdateMiss, UpdateMatches, At, IInv, ReadOK, EditOps
  <2> QED
    BY <1>6, <2>1, GotoInv DEF UpdateMiss, At
<1>7. CASE UpdateCommit(r)
  BY <1>7, PublishInv, PendingRow, AnswerType DEF UpdateCommit, At, Codes
<1>8. CASE DeleteCheck(r)
  <2>1. call[r].id \in Ids
    BY <1>1, <1>8, CallOfOp DEF DeleteCheck, At, DeleteCalls
  <2>2. avatars[call[r].id] \in MaybeRow
    BY <1>1, <2>1
  <2>3. pc[r] = "start" /\ call[r].op = "delete" /\ TableUnchanged
    BY <1>8 DEF DeleteCheck, At
  <2>4. CASE \E a \in Answers : Reply(r, a)
    BY <2>3, <2>4, ReplyInv
  <2>5. CASE ~ \E a \in Answers : Reply(r, a)
    BY <1>8, <2>2, <2>3, <2>5, ReadInv, AnswerType
    DEF DeleteCheck, EditOps, MaybeRow, Codes
  <2> QED
    BY <2>4, <2>5
<1>9. CASE DeleteMiss(r)
  <2>1. avatars[call[r].id] # current[r]
    BY <1>9, AbsentNotRow
    DEF DeleteMiss, DeleteMatches, At, IInv, ReadOK, EditOps
  <2> QED
    BY <1>9, <2>1, GotoInv DEF DeleteMiss, At
<1>10. CASE DeleteCommit(r)
  BY <1>10, PublishInv, AnswerType DEF DeleteCommit, At, Codes, MaybeRow
<1>11. CASE ExplainMiss(r)
  BY <1>11, ReplyInv, AnswerType DEF ExplainMiss, Codes
<1>12. CASE Get(r)
  <2>1. call[r].id \in Ids
    BY <1>1, <1>12, CallOfOp DEF Get, At, GetCalls
  <2>2. avatars[call[r].id] \in MaybeRow
    BY <1>1, <2>1
  <2> QED
    BY <1>12, <2>2, ReplyInv, AnswerType DEF Get, At, Codes
<1>13. CASE List(r)
  BY <1>1, <1>13, ReplyInv, AnswerType DEF List, At
<1> QED
  BY <1>2, <1>3, <1>4, <1>5, <1>6, <1>7, <1>8, <1>9, <1>10, <1>11, <1>12, <1>13
  DEF OwnStep

LEMMA LockStepInv ==
  ASSUME IInv, NEW r \in Requests, LockStep(r)
  PROVE  IInv'
<1>1. CASE CreateInsert(r)
  <2>1. CASE SlugTaken(call[r].slug)
    BY <1>1, <2>1, ReplyInv, AnswerType DEF CreateInsert, At, Codes
  <2>2. CASE ~SlugTaken(call[r].slug)
    BY <1>1, <2>2, InsertInv DEF CreateInsert
  <2> QED
    BY <2>1, <2>2
<1>2. CASE UpdateWrite(r)
  <2> DEFINE c == call[r]
             row == UpdatedRow(avatars[c.id], c)
  <2>1. /\ pc[r] = "write" /\ c.op = "update" /\ c.op \in EditOps
        /\ avatars[c.id] # Absent /\ avatars[c.id].version = c.expected
    BY <1>2 DEF UpdateWrite, UpdateMatches, At, EditOps
  <2>2. avatars[c.id] = current[r] /\ current[r] \in Row
    BY <2>1, MatchIsCurrent
  <2>3. c \in UpdateCalls /\ TransitionAllowed(current[r], c)
    BY <2>1, CallOfOp DEF IInv, TypeOK, ControlOK, ReadOK
  <2>4. row \in Row /\ row.slug = current[r].slug /\ row = UpdatedRow(current[r], c)
    BY <2>2, <2>3, UpdatedRowType
  <2>5. row \in MaybeRow
    BY <2>4 DEF MaybeRow
  <2> HIDE DEF row
  <2>6. /\ record' = [record EXCEPT ![r] = [id |-> c.id, row |-> row]]
        /\ Goto(r, "commit") /\ UNCHANGED current /\ TableUnchanged
        /\ ~RowLocked(r, c.id)
    BY <1>2 DEF UpdateWrite, row
  <2> QED
    BY <2>1, <2>4, <2>5, <2>6, LockRowInv
<1>3. CASE DeleteWrite(r)
  <2>1. /\ pc[r] = "write" /\ call[r].op = "delete" /\ call[r].op \in EditOps
        /\ avatars[call[r].id] # Absent
        /\ avatars[call[r].id].version = call[r].expected
        /\ ~RowLocked(r, call[r].id)
        /\ record' = [record EXCEPT ![r] = [id |-> call[r].id, row |-> Absent]]
        /\ Goto(r, "commit") /\ UNCHANGED current /\ TableUnchanged
    BY <1>3 DEF DeleteWrite, DeleteMatches, At, EditOps
  <2>2. Absent \in MaybeRow
    BY DEF MaybeRow
  <2> QED
    BY <2>1, <2>2, LockRowInv
<1> QED
  BY <1>1, <1>2, <1>3 DEF LockStep

LEMMA NextInv == IInv /\ [Next]_vars => IInv'
<1> SUFFICES ASSUME IInv, [Next]_vars PROVE IInv'
  OBVIOUS
<1>1. ASSUME NEW r \in Requests, DatabaseError(r) PROVE IInv'
  BY <1>1, ReplyInv, AnswerType DEF DatabaseError, InFlight, Codes
<1>2. ASSUME NEW r \in Requests, CommitUnacknowledged(r) PROVE IInv'
  BY <1>2, PublishInv, AnswerType DEF CommitUnacknowledged, Codes
<1>3. CASE UNCHANGED vars
  BY <1>3 DEF vars, IInv, TypeOK, ControlOK, IssuedOK, ReadOK, PendingOK, LocksOK,
              SlugUnique, PendingSlugsOK, StageBehindVersion, TransitionAllowed, Changes
<1> QED
  BY <1>1, <1>2, <1>3, SubmitInv, LockStepInv, OwnStepInv, DeliverInv, CrashInv DEF Next

\* The rows, locks and reads of all requests fit together in every state.
THEOREM InvariantHolds == Spec => []IInv
  BY InitInv, NextInv, PTL DEF Spec

\* Every variable stays in its set.
THEOREM TypeCorrect == Spec => []TypeOK
  BY InvariantHolds, PTL DEF IInv

\* No two avatars share a slug, however creations race.
THEOREM SlugsAreUnique == Spec => []SlugUnique
  BY InvariantHolds, PTL DEF IInv

\* Each stage an avatar reached consumed a version of its own.
THEOREM StagesAreVersioned == Spec => []StageBehindVersion
  BY InvariantHolds, PTL DEF IInv

\* No update or delete is committed over a row other than the one its checks
\* were made on: no lost update.
THEOREM NoLostUpdate == Spec => []ChecksHoldAtCommit
<1>1. IInv => ChecksHoldAtCommit
  BY DEF IInv, PendingOK, ControlOK, ChecksHoldAtCommit
<1> QED
  BY <1>1, InvariantHolds, PTL

\* Rows are only created as drafts at version 1, replaced by their next version
\* at the same or the next stage, or removed while drafts.
THEOREM LifecycleRespected == Spec => RowLifecycle
<1>1. ASSUME IInv, [Next]_vars
      PROVE  [\A id \in Ids : LegalRowStep(id)]_vars
  <2>1. CASE TableUnchanged
    BY <2>1 DEF TableUnchanged, LegalRowStep
  <2>2. ASSUME NEW r \in Requests, pc[r] = "commit", Publish(r)
        PROVE  \A id \in Ids : LegalRowStep(id)
    BY <1>1, <2>2, PublishTable
  <2>3. CASE UNCHANGED vars
    BY <2>3
  <2>4. ASSUME NEW r \in Requests, OwnStep(r)
        PROVE  TableUnchanged \/ (pc[r] = "commit" /\ Publish(r))
    BY <2>4 DEF OwnStep, CreatePrecheck, CreateCommit, CreateRefresh, UpdateCheck,
                UpdateMiss, UpdateCommit, DeleteCheck, DeleteMiss, DeleteCommit,
                ExplainMiss, Get, List, At
  <2>5. ASSUME NEW r \in Requests, LockStep(r)
        PROVE  TableUnchanged
    BY <2>5 DEF LockStep, CreateInsert, UpdateWrite, DeleteWrite
  <2>6. ASSUME NEW r \in Requests,
               Submit(r) \/ Deliver(r) \/ DatabaseError(r) \/ Crash
        PROVE  TableUnchanged
    BY <2>6 DEF Submit, Deliver, DatabaseError, Crash
  <2>7. CASE Crash
    BY <2>1, <2>7 DEF Crash
  <2> QED
    BY <1>1, <2>1, <2>2, <2>3, <2>4, <2>5, <2>6, <2>7
    DEF Next, CommitUnacknowledged
<1> QED
  BY <1>1, InvariantHolds, PTL DEF Spec, RowLifecycle
=============================================================================
