--------------------------- MODULE DriveFilesProofs ---------------------------
(***************************************************************************)
(* Proofs about DriveFiles: every request, on time or late, names what     *)
(* Drive knows, and a local destination never holds part of a file, for    *)
(* any tasks, operations, files and contents, and any number of retries,   *)
(* lost answers and deaths.                                                *)
(***************************************************************************)
EXTENDS DriveFilesProperties, DriveFilesRefinement, SequenceTheorems, FiniteSetTheorems,
        TLAPS

FileType == [place : Places, content : Contents, state : {"live", "trashed", "purged"}]

LEMMA InitFits == Init => CallsFit
<1> SUFFICES ASSUME Init PROVE CallsFit
  OBVIOUS
<1>1. ServerOK
  <2>1. sessions \in Seq([target : Known \union {None}, place : Places,
                          made : Known \union {None}])
    BY DEF Init
  <2> QED  BY <2>1, FileAssumption DEF Init, ServerOK
<1>2. \A t \in Tasks : TaskOK(t)
  BY DEF Init, TaskOK, Resting, Changing
<1>3. TypeOK
  BY <1>1, <1>2, FileAssumption DEF Init, TypeOK, Resting
<1>4. LocalCopyIntact
  BY FileAssumption DEF Init, LocalCopyIntact
<1> QED  BY <1>3, <1>4 DEF CallsFit

\* What a call to the provider says.
LEMMA CallFields ==
  ASSUME NEW c \in Calls
  PROVE  /\ c.op \in Operations
         /\ c.op = "upload" => c.content \in Contents
         /\ c.op \in {"copy", "move"} => c.dst \in Places
         /\ c.place \in Places
<1>1. PICK op \in Operations :
        c \in IF op = "upload"
                THEN [op : {op}, place : Places, dst : {None}, content : Contents]
              ELSE IF op \in {"copy", "move"}
                THEN [op : {op}, place : Places, dst : Places, content : {None}]
              ELSE [op : {op}, place : Places, dst : {None}, content : {None}]
  BY DEF Calls
<1>2. CASE op = "upload"
  BY <1>1, <1>2
<1>3. CASE op \in {"copy", "move"}
  BY <1>1, <1>3
<1>4. CASE op \notin {"upload", "copy", "move"}
  BY <1>1, <1>4
<1> QED  BY <1>2, <1>3, <1>4

\* Drive forgets nothing, and what it knew of serves as before.
Grows == /\ Known \subseteq Known'
         /\ 1..Len(sessions) \subseteq 1..Len(sessions')

LEMMA Lasting ==
  ASSUME Grows
  PROVE  /\ \A q : RequestOK(q) => RequestOK(q)'
         /\ \A t : /\ TaskOK(t) /\ pc'[t] = pc[t] /\ call'[t] = call[t]
                   /\ found'[t] = found[t]
                   /\ part'[t] = part[t]
                   => TaskOK(t)'
<1>1. \A q : RequestOK(q) => RequestOK(q)'
  BY DEF Grows, RequestOK
<1>2. ASSUME NEW t, TaskOK(t), pc'[t] = pc[t], call'[t] = call[t],
             found'[t] = found[t], part'[t] = part[t]
      PROVE  TaskOK(t)'
  <2>1. RequestOK(Request(t)) => RequestOK(Request(t))'
    BY <1>2 DEF Grows, RequestOK, Request
  <2> QED  BY <1>2, <2>1 DEF Grows, TaskOK
<1> QED  BY <1>1, <1>2

\* What Drive does with a request keeps what it holds in order.
LEMMA ApplyOK ==
  ASSUME ServerOK, NEW q, RequestOK(q), Apply(q)
  PROVE  /\ Grows
         /\ file' \in [Files -> FileType \union {None}]
         /\ sessions' \in Seq([target : Known' \union {None}, place : Places,
                               made : Known' \union {None}])
<1> DEFINE Session(S) == [target : S \union {None}, place : Places, made : S \union {None}]
<1>0. /\ file \in [Files -> FileType \union {None}]
      /\ sessions \in Seq(Session(Known))
      /\ None \notin FileType
  BY FileAssumption DEF ServerOK, FileType
<1>1. CASE q.op = "upload"
  <2>1. q.file \in 1..Len(sessions) /\ q.content \in Contents
    BY <1>1 DEF RequestOK
  <2>2. sessions[q.file] \in Session(Known)
    BY <1>0, <2>1, ElementOfSeq
  <2>3. ApplyPut(q)
    BY <1>1 DEF Apply
  <2>4. CASE UNCHANGED <<file, sessions>>
    BY <1>0, <2>4 DEF Grows, Known
  <2>5. CASE \E f \in Files \ Known :
               /\ file' = [file EXCEPT ![f] = NewFile(sessions[q.file].place, q.content)]
               /\ sessions' = [sessions EXCEPT ![q.file].made = f]
    <3>1. PICK f \in Files \ Known :
               /\ file' = [file EXCEPT ![f] = NewFile(sessions[q.file].place, q.content)]
               /\ sessions' = [sessions EXCEPT ![q.file].made = f]
      BY <2>5
    <3>2. NewFile(sessions[q.file].place, q.content) \in FileType
      BY <2>1, <2>2 DEF NewFile, FileType
    <3>3. file' \in [Files -> FileType \union {None}]
      BY <1>0, <3>1, <3>2
    <3>4. Known' = Known \union {f}
      BY <1>0, <3>1, <3>2 DEF Known
    <3>5. [sessions[q.file] EXCEPT !.made = f] \in Session(Known')
      BY <2>2, <3>4
    <3>6. sessions \in Seq(Session(Known'))
      <4>1. Session(Known) \subseteq Session(Known')
        BY <3>4
      <4> HIDE DEF Session
      <4> QED  BY <1>0, <4>1, SeqMonotonic
    <3>7. sessions' \in Seq(Session(Known')) /\ Len(sessions') = Len(sessions)
      BY <2>1, <3>1, <3>5, <3>6, ExceptSeq
    <3> QED  BY <3>3, <3>4, <3>7 DEF Grows
  <2>6. CASE /\ sessions[q.file].target # None
             /\ file' = [file EXCEPT ![sessions[q.file].target].content = q.content,
                                     ![sessions[q.file].target].place.name =
                                         sessions[q.file].place.name]
             /\ sessions' = [sessions EXCEPT ![q.file].made = sessions[q.file].target]
    <3> DEFINE g == sessions[q.file].target
    <3>1. g \in Known /\ file[g] \in FileType
      BY <1>0, <2>2, <2>6 DEF Known
    <3>2. sessions[q.file].place.name \in Names
      BY <2>2 DEF Places
    <3>3. [[file[g] EXCEPT !.content = q.content] EXCEPT
              !.place.name = sessions[q.file].place.name] \in FileType
      BY <2>1, <3>1, <3>2 DEF FileType, Places
    <3>4. file' = [file EXCEPT ![g] =
                     [[file[g] EXCEPT !.content = q.content] EXCEPT
                         !.place.name = sessions[q.file].place.name]]
      BY <1>0, <2>6, <3>1
    <3>5. file' \in [Files -> FileType \union {None}]
      BY <1>0, <3>3, <3>4
    <3>6. Known' = Known
      BY <1>0, <3>1, <3>3, <3>4 DEF Known
    <3>7. [sessions[q.file] EXCEPT !.made = g] \in Session(Known')
      BY <2>2, <3>1, <3>6
    <3>8. sessions \in Seq(Session(Known'))
      BY <1>0, <3>6
    <3>9. sessions' = [sessions EXCEPT ![q.file] = [sessions[q.file] EXCEPT !.made = g]]
      BY <2>6
    <3>10. sessions' \in Seq(Session(Known')) /\ Len(sessions') = Len(sessions)
      BY <2>1, <3>7, <3>8, <3>9, ExceptSeq
    <3> QED  BY <3>5, <3>6, <3>10 DEF Grows
  <2> QED  BY <2>3, <2>4, <2>5, <2>6 DEF ApplyPut
<1>2. CASE q.op # "upload"
  <2>1. q.file \in Known /\ file[q.file] \in FileType
    BY <1>0, <1>2 DEF RequestOK, Known
  <2>2. ApplyChange(q) /\ sessions' = sessions
    BY <1>2 DEF Apply, ApplyChange
  <2>3. file' \in [Files -> FileType \union {None}] /\ Known \subseteq Known'
    <3>1. CASE q.op \in {"trash", "purge"}
      <4>1. PICK s \in {"trashed", "purged"} : file' = [file EXCEPT ![q.file].state = s]
        BY <2>2, <3>1 DEF ApplyChange
      <4>2. [file[q.file] EXCEPT !.state = s] \in FileType
        BY <2>1 DEF FileType
      <4> QED  BY <1>0, <2>1, <4>1, <4>2 DEF Known
    <3>2. CASE q.op = "move"
      <4>1. file' = [file EXCEPT ![q.file].place = q.dst] /\ q.dst \in Places
        BY <2>2, <3>2 DEF ApplyChange, RequestOK
      <4>2. [file[q.file] EXCEPT !.place = q.dst] \in FileType
        BY <2>1, <4>1 DEF FileType
      <4> QED  BY <1>0, <2>1, <4>1, <4>2 DEF Known
    <3>3. CASE q.op = "copy"
      <4>1. PICK f \in Files \ Known :
              file' = [file EXCEPT ![f] = NewFile(q.dst, file[q.file].content)]
        BY <2>2, <3>3 DEF ApplyChange
      <4>2. NewFile(q.dst, file[q.file].content) \in FileType
        BY <2>1, <3>3 DEF FileType, NewFile, RequestOK
      <4> QED  BY <1>0, <4>1, <4>2 DEF Known
    <3> QED  BY <1>2, <3>1, <3>2, <3>3 DEF RequestOK
  <2>4. sessions' \in Seq(Session(Known'))
    <3>1. Session(Known) \subseteq Session(Known')
      BY <2>3
    <3> HIDE DEF Session
    <3> QED  BY <1>0, <2>2, <3>1, SeqMonotonic
  <2> QED  BY <2>2, <2>3, <2>4 DEF Grows
<1> QED  BY <1>1, <1>2

-----------------------------------------------------------------------------
(* The tasks *)

TasksOK ==
  /\ part \in [Tasks -> Contents \union {None}]
  /\ pc \in [Tasks -> Resting \union Changing \union
                     {"find", "initiate", "open", "stream"}]
  /\ call \in [Tasks -> Calls \union {None}]
  /\ found \in [Tasks -> Files \union {None} \union (1..Len(sessions))]
  /\ attempt \in [Tasks -> 0..MaxRetries]
  /\ \A t \in Tasks : TaskOK(t)

LEMMA TypeParts ==
  TypeOK <=> /\ ServerOK /\ TasksOK
             /\ disk \in Contents \union {None, Partial} /\ litter \in Nat
BY DEF TypeOK, TasksOK

\* Nothing happened at Drive.
LEMMA Quiet == ASSUME ServerOK, UNCHANGED server PROVE ServerOK' /\ Grows
<1> USE DEF server
<1>1. Grows
  BY DEF Grows, Known
<1>2. Known' = Known
  BY DEF Known
<1>3. \A q \in inAir : RequestOK(q)'
  BY <1>1, Lasting DEF ServerOK
<1>4. ServerOK'
  BY <1>2, <1>3 DEF ServerOK
<1> QED  BY <1>1, <1>4

\* Drive applies a request, and no other is given up.
LEMMA ServerApplies ==
  ASSUME ServerOK, NEW q, RequestOK(q), Apply(q), UNCHANGED lost, inAir' \subseteq inAir
  PROVE  ServerOK' /\ Grows
<1>1. Grows
  BY ApplyOK
<1>2. \A p \in inAir' : RequestOK(p)'
  BY <1>1, Lasting DEF ServerOK
<1>3. \A p \in inAir' : p.number \in 0..(lost' - 1)
  BY DEF ServerOK
<1>4. file' \in [Files -> FileType \union {None}]
      /\ sessions' \in Seq([target : Known' \union {None}, place : Places,
                            made : Known' \union {None}])
  BY ApplyOK
<1>5. lost' \in 0..MaxLost
  BY DEF ServerOK
<1>6. ServerOK'
  BY <1>2, <1>3, <1>4, <1>5 DEF ServerOK, FileType
<1> QED  BY <1>1, <1>6

\* A request is given up.
LEMMA ServerLoses ==
  ASSUME ServerOK, NEW t \in Tasks, GiveUp(t), RequestOK(Request(t))
  PROVE  ServerOK' /\ Grows
<1>1. /\ UNCHANGED <<file, sessions>> /\ lost' = lost + 1 /\ lost < MaxLost
      /\ inAir' = inAir \union {Request(t)}
  BY DEF GiveUp
<1>2. Grows /\ Known' = Known
  BY <1>1 DEF Grows, Known
<1>3. lost \in Nat /\ MaxLost \in Nat
  BY FileAssumption DEF ServerOK
<1>4. RequestOK(Request(t)) /\ Request(t).number = lost
  BY DEF Request
<1>5. \A q \in inAir' : RequestOK(q)'
  BY <1>1, <1>2, <1>4, Lasting DEF ServerOK
<1>6. \A q \in inAir' : q.number \in 0..(lost' - 1)
  BY <1>1, <1>3, <1>4 DEF ServerOK
<1>7. ServerOK'
  BY <1>1, <1>2, <1>3, <1>5, <1>6 DEF ServerOK
<1> QED  BY <1>2, <1>7

\* The other tasks are where they were.
LEMMA OneTask ==
  ASSUME TasksOK, Grows, NEW t \in Tasks, TaskOK(t)',
         \A u \in Tasks \ {t} : /\ pc'[u] = pc[u] /\ call'[u] = call[u]
                                /\ found'[u] = found[u] /\ part'[u] = part[u]
  PROVE  \A u \in Tasks : TaskOK(u)'
BY Lasting DEF TasksOK

\* The operation of a task ends.
LEMMA TaskEnds ==
  ASSUME TasksOK, Grows, NEW t \in Tasks, NEW outcome \in {"done", "failed"},
         End(t, outcome), part' \in {part, [part EXCEPT ![t] = None]}
  PROVE  TasksOK'
<1> USE DEF TasksOK, End, Resting
<1>1. TaskOK(t)'
  BY DEF TaskOK, Changing
<1>2. \A u \in Tasks \ {t} : /\ pc'[u] = pc[u] /\ call'[u] = call[u]
                             /\ found'[u] = found[u] /\ part'[u] = part[u]
  OBVIOUS
<1>3. \A u \in Tasks : TaskOK(u)'
  BY <1>1, <1>2, OneTask
<1>4. found' \in [Tasks -> Files \union {None} \union (1..Len(sessions'))]
  BY DEF Grows
<1>5. /\ part' \in [Tasks -> Contents \union {None}]
      /\ pc' \in [Tasks -> Resting \union Changing \union
                          {"find", "initiate", "open", "stream"}]
      /\ call' \in [Tasks -> Calls \union {None}]
      /\ attempt' \in [Tasks -> 0..MaxRetries]
  BY FileAssumption
<1> QED  BY <1>3, <1>4, <1>5

\* It goes on with another call, or tries one again.
LEMMA TaskGoes ==
  ASSUME TasksOK, Grows, NEW t \in Tasks, TaskOK(t)',
         NEW step \in Resting \union Changing \union {"find", "initiate", "open", "stream"},
         pc' = [pc EXCEPT ![t] = step], UNCHANGED call,
         NEW a \in 0..MaxRetries, attempt' = [attempt EXCEPT ![t] = a],
         NEW f \in Files \union {None} \union (1..Len(sessions')),
         found' = [found EXCEPT ![t] = f],
         NEW c \in Contents \union {None}, part' = [part EXCEPT ![t] = c]
  PROVE  TasksOK'
<1> USE DEF TasksOK
<1>1. \A u \in Tasks \ {t} : /\ pc'[u] = pc[u] /\ call'[u] = call[u]
                             /\ found'[u] = found[u] /\ part'[u] = part[u]
  OBVIOUS
<1>2. \A u \in Tasks : TaskOK(u)'
  BY <1>1, OneTask
<1>3. found' \in [Tasks -> Files \union {None} \union (1..Len(sessions'))]
  BY DEF Grows
<1>4. /\ part' \in [Tasks -> Contents \union {None}]
      /\ pc' \in [Tasks -> Resting \union Changing \union
                          {"find", "initiate", "open", "stream"}]
      /\ call' \in [Tasks -> Calls \union {None}]
      /\ attempt' \in [Tasks -> 0..MaxRetries]
  OBVIOUS
<1> QED  BY <1>2, <1>3, <1>4

\* with_retry
LEMMA Retries ==
  ASSUME TasksOK, Grows, NEW t \in Tasks, RetryOrFail(t), UNCHANGED part
  PROVE  TasksOK'
<1>1. CASE End(t, "failed")
  BY <1>1, TaskEnds
<1>2. CASE /\ attempt[t] < MaxRetries
           /\ attempt' = [attempt EXCEPT ![t] = @ + 1]
           /\ UNCHANGED <<pc, call, found>>
  <2>1. \A u \in Tasks : TaskOK(u)'
    BY <1>2, Lasting DEF TasksOK
  <2>2. attempt' \in [Tasks -> 0..MaxRetries]
    BY <1>2, FileAssumption DEF TasksOK
  <2>3. found' \in [Tasks -> Files \union {None} \union (1..Len(sessions'))]
    BY <1>2 DEF TasksOK, Grows
  <2> QED  BY <1>2, <2>1, <2>2, <2>3 DEF TasksOK
<1> QED  BY <1>1, <1>2 DEF RetryOrFail

-----------------------------------------------------------------------------
(* The steps.  Those of uploads and changes leave the local files alone. *)

Safe == ServerOK /\ TasksOK

LEMMA BeginSafe == ASSUME Safe, NEW t \in Tasks, Begin(t) PROVE Safe'
<1> USE DEF Safe, server, local
<1>1. PICK c \in Calls : /\ pc[t] \in Resting
                         /\ call' = [call EXCEPT ![t] = c]
                         /\ pc' = [pc EXCEPT ![t] = "find"]
  BY DEF Begin
<1>2. UNCHANGED <<found, attempt, part>>
  BY DEF Begin
<1>3. ServerOK' /\ Grows
  BY Quiet DEF Begin
<1>4. TaskOK(t)'
  BY <1>1, <1>2 DEF TasksOK, TaskOK, Resting, Changing
<1>5. \A u \in Tasks : TaskOK(u)'
  <2>1. \A u \in Tasks \ {t} : /\ pc'[u] = pc[u] /\ call'[u] = call[u]
                               /\ found'[u] = found[u] /\ part'[u] = part[u]
    BY <1>1, <1>2 DEF TasksOK
  <2> QED  BY <1>3, <1>4, <2>1, OneTask
<1>6. found' \in [Tasks -> Files \union {None} \union (1..Len(sessions'))]
  BY <1>2, <1>3 DEF TasksOK, Grows
<1>7. TasksOK'
  BY <1>1, <1>2, <1>5, <1>6 DEF TasksOK
<1> QED  BY <1>3, <1>7

LEMMA FindSafe == ASSUME Safe, NEW t \in Tasks, Find(t) PROVE Safe'
<1> USE DEF Safe, server, local
<1>1. ServerOK' /\ Grows
  BY Quiet DEF Find
<1>2. /\ pc[t] = "find" /\ call[t] \in Calls
      /\ UNCHANGED <<part, sessions, file, lost>>
  BY DEF Find, TasksOK, TaskOK, Resting
<1>3. PICK f \in Matches(t) :
        \/ End(t, "done") \/ End(t, "failed")
        \/ /\ call[t].op # "lookup"
           /\ f # None \/ call[t].op = "upload"
           /\ found' = [found EXCEPT ![t] = f]
           /\ Goto(t, NextCall(call[t].op))
  BY DEF Find
<1>4. CASE End(t, "done") \/ End(t, "failed")
  BY <1>1, <1>2, <1>4, TaskEnds
<1>5. CASE /\ call[t].op # "lookup"
           /\ f # None \/ call[t].op = "upload"
           /\ found' = [found EXCEPT ![t] = f]
           /\ Goto(t, NextCall(call[t].op))
  <2> DEFINE op == call[t].op
             step == NextCall(op)
  <2>1. f \in Known \union {None} /\ f \in Files \union {None}
    BY DEF Matches, At, Known
  <2>2. /\ op \in {"upload", "download", "trash", "purge", "copy", "move"}
        /\ op = "upload" => call[t].content \in Contents
        /\ op \in {"copy", "move"} => call[t].dst \in Places
    BY <1>2, <1>5, CallFields, FileAssumption
  <2>3. /\ pc' = [pc EXCEPT ![t] = step] /\ UNCHANGED call
        /\ attempt' = [attempt EXCEPT ![t] = 0]
    BY <1>5 DEF Goto
  <2>4. \/ op = "upload" /\ step = "initiate"
        \/ op = "download" /\ step = "open" /\ f \in Known
        \/ op \in {"trash", "purge", "copy", "move"} /\ step = "change" /\ f \in Known
    BY <1>5, <2>1, <2>2 DEF NextCall
  <2>5. /\ pc'[t] = step /\ call'[t] = call[t] /\ found'[t] = f
    BY <1>5, <2>3 DEF TasksOK
  <2>6. Known' = Known
    BY <1>2 DEF Known
  <2>7. TaskOK(t)'
    <3>1. CASE step = "initiate"
      BY <1>2, <2>1, <2>4, <2>5, <2>6, <3>1 DEF TaskOK, Resting, Changing
    <3>2. CASE step = "open"
      BY <1>2, <2>4, <2>5, <2>6, <3>2 DEF TaskOK, Resting, Changing
    <3>3. CASE step = "change"
      <4>1. RequestOK(Request(t))'
        BY <2>2, <2>4, <2>5, <2>6, <3>3 DEF RequestOK, Request
      <4> QED  BY <1>2, <2>5, <3>3, <4>1 DEF TaskOK, Resting, Changing
    <3> QED  BY <2>4, <3>1, <3>2, <3>3
  <2>8. step \in Resting \union Changing \union {"find", "initiate", "open", "stream"}
    BY <2>4 DEF Changing
  <2>9. 0 \in 0..MaxRetries /\ part[t] \in Contents \union {None}
        /\ part' = [part EXCEPT ![t] = part[t]]
    BY <1>2, FileAssumption DEF TasksOK
  <2> HIDE DEF step, op
  <2> QED  BY <1>1, <1>2, <1>5, <2>1, <2>3, <2>7, <2>8, <2>9, TaskGoes
<1> QED  BY <1>3, <1>4, <1>5

LEMMA InitiateSafe == ASSUME Safe, NEW t \in Tasks, Initiate(t) PROVE Safe'
<1> USE DEF Safe, local
<1> DEFINE session == [target |-> found[t], place |-> call[t].place, made |-> None]
           Session(S) == [target : S \union {None}, place : Places, made : S \union {None}]
<1>1. /\ pc[t] = "initiate" /\ call[t].op = "upload" /\ call[t] \in Calls
      /\ found[t] \in Known \union {None}
  BY DEF Initiate, TasksOK, TaskOK, Resting
<1>2. session \in Session(Known) /\ call[t].content \in Contents
  BY <1>1, CallFields
<1>3. /\ sessions' = Append(sessions, session) /\ UNCHANGED <<file, inAir, lost, part>>
      /\ found' = [found EXCEPT ![t] = Len(sessions')]
      /\ pc' = [pc EXCEPT ![t] = "put"] /\ UNCHANGED call
      /\ attempt' = [attempt EXCEPT ![t] = 0]
  BY DEF Initiate, Goto
<1>4. sessions \in Seq(Session(Known)) /\ Known' = Known
  BY <1>3 DEF ServerOK, Known
<1>5. /\ sessions' \in Seq(Session(Known')) /\ Len(sessions') = Len(sessions) + 1
      /\ Len(sessions) \in Nat
  <2> HIDE DEF session, Session
  <2> QED  BY <1>2, <1>3, <1>4, AppendProperties, LenProperties
<1>6. Grows
  BY <1>4, <1>5 DEF Grows
<1>7. ServerOK'
  <2>1. \A q \in inAir : RequestOK(q)'
    BY <1>6, Lasting DEF ServerOK
  <2> QED  BY <1>3, <1>4, <1>5, <2>1 DEF ServerOK
<1>8. TaskOK(t)'
  <2>1. pc'[t] = "put" /\ call'[t] = call[t] /\ found'[t] = Len(sessions')
    BY <1>3 DEF TasksOK
  <2>2. RequestOK(Request(t))'
    BY <1>1, <1>2, <1>5, <2>1 DEF RequestOK, Request
  <2> QED  BY <1>1, <2>1, <2>2 DEF TaskOK, Resting, Changing
<1>9. TasksOK'
  <2>1. /\ "put" \in Resting \union Changing \union {"find", "initiate", "open", "stream"}
        /\ 0 \in 0..MaxRetries /\ part[t] \in Contents \union {None}
        /\ part' = [part EXCEPT ![t] = part[t]]
        /\ Len(sessions') \in Files \union {None} \union (1..Len(sessions'))
    BY <1>3, <1>5, FileAssumption DEF TasksOK, Changing
  <2> QED  BY <1>3, <1>6, <1>8, <2>1, TaskGoes
<1> QED  BY <1>7, <1>9

LEMMA CallSafe ==
  ASSUME Safe, NEW t \in Tasks,
         Answered(t) \/ Transient(t) \/ TimesOut(t) \/ Refused(t)
  PROVE  Safe'
<1> USE DEF Safe, local
<1>1. CASE Answered(t)
  <2>1. RequestOK(Request(t))
    BY <1>1 DEF Answered, TasksOK, TaskOK
  <2>2. ServerOK' /\ Grows
    BY <1>1, <2>1, ServerApplies DEF Answered
  <2> QED  BY <1>1, <2>2, TaskEnds DEF Answered
<1>2. CASE Transient(t)
  BY <1>2, Quiet, Retries DEF Transient
<1>3. CASE TimesOut(t)
  <2>1. ServerOK' /\ Grows
    BY <1>3, ServerLoses DEF TimesOut, GiveUp, TasksOK, TaskOK
  <2> QED  BY <1>3, <2>1, Retries DEF TimesOut
<1>4. CASE Refused(t)
  BY <1>4, Quiet, TaskEnds DEF Refused
<1> QED  BY <1>1, <1>2, <1>3, <1>4

\* A request that was given up takes effect after all.
LEMMA LateSafe == ASSUME Safe, ApplyLate PROVE Safe'
<1> USE DEF Safe, local, task
<1>1. PICK q \in inAir : /\ inAir' = inAir \ {q}
                         /\ Apply(q) \/ UNCHANGED <<file, sessions>>
  BY DEF ApplyLate
<1>2. UNCHANGED <<lost, pc, call, found, attempt, part>>
  BY DEF ApplyLate
<1>3. ServerOK' /\ Grows
  <2>1. CASE Apply(q)
    BY <1>1, <1>2, <2>1, ServerApplies DEF ServerOK
  <2>2. CASE UNCHANGED <<file, sessions>>
    <3>1. Grows /\ Known' = Known
      BY <2>2 DEF Grows, Known
    <3>2. \A p \in inAir : RequestOK(p)'
      BY <3>1, Lasting DEF ServerOK
    <3> QED  BY <1>1, <1>2, <2>2, <3>1, <3>2 DEF ServerOK
  <2> QED  BY <1>1, <2>1, <2>2
<1>4. \A t \in Tasks : TaskOK(t)'
  BY <1>2, <1>3, Lasting DEF TasksOK
<1>5. found' \in [Tasks -> Files \union {None} \union (1..Len(sessions'))]
  BY <1>2, <1>3 DEF TasksOK, Grows
<1>6. TasksOK'
  BY <1>2, <1>4, <1>5 DEF TasksOK
<1> QED  BY <1>3, <1>6

\* Those steps do not touch what LocalCopyIntact is about, but for the end of
\* an operation that has no temporary file.
LEMMA LocalKept ==
  ASSUME CallsFit, NEW t \in Tasks,
         \/ Begin(t) \/ Find(t) \/ Initiate(t) \/ Answered(t)
         \/ Transient(t) \/ TimesOut(t) \/ Refused(t)
  PROVE  UNCHANGED local /\ LocalCopyIntact'
<1>1. UNCHANGED local
  BY DEF Begin, Find, Initiate, Answered, Transient, TimesOut, Refused
<1>2. pc[t] # "stream"
  BY DEF Begin, Find, Initiate, Answered, Transient, TimesOut, GiveUp, Refused, Resting,
         Changing
<1>3. \A u \in Tasks \ {t} : pc'[u] = pc[u]
  BY DEF Begin, Find, Initiate, Answered, Transient, TimesOut, Refused, End, Goto,
         RetryOrFail, CallsFit, TypeOK
<1> QED  BY <1>1, <1>2, <1>3 DEF CallsFit, LocalCopyIntact, local

\* download()
LEMMA DownloadInv ==
  ASSUME CallsFit, NEW t \in Tasks, Open(t) \/ Complete(t) \/ BreakOff(t)
  PROVE  CallsFit'
<1> USE DEF CallsFit
<1>1. ServerOK /\ TasksOK /\ disk \in Contents \union {None, Partial} /\ litter \in Nat
  BY TypeParts
<1>2. ServerOK' /\ Grows
  BY <1>1, Quiet DEF Open, Complete, BreakOff
<1>3. litter' = litter
  BY DEF Open, Complete, BreakOff
<1>4. CASE Open(t)
  <2>1. /\ pc[t] = "open" /\ call[t] \in Calls /\ call[t].op = "download"
        /\ found[t] \in Known
    BY <1>1, <1>4 DEF Open, TasksOK, TaskOK, Resting
  <2>2. file[found[t]].content \in Contents
    BY <1>1, <2>1 DEF ServerOK, Known
  <2>3. /\ part' = [part EXCEPT ![t] = file[found[t]].content]
        /\ pc' = [pc EXCEPT ![t] = "stream"] /\ UNCHANGED <<call, found, disk>>
        /\ attempt' = [attempt EXCEPT ![t] = 0]
    BY <1>4 DEF Open, Goto
  <2>4. Known' = Known
    BY <1>4 DEF Open, server, Known
  <2>5. TaskOK(t)'
    BY <1>1, <2>1, <2>2, <2>3, <2>4 DEF TasksOK, TaskOK, Resting, Changing
  <2>6. TasksOK'
    <3>1. /\ "stream" \in Resting \union Changing \union
                          {"find", "initiate", "open", "stream"}
          /\ 0 \in 0..MaxRetries /\ found' = [found EXCEPT ![t] = found[t]]
          /\ found[t] \in Files \union {None} \union (1..Len(sessions'))
          /\ file[found[t]].content \in Contents \union {None}
      BY <1>1, <2>1, <2>2, <2>3, FileAssumption DEF TasksOK, Known
    <3> QED  BY <1>1, <1>2, <2>3, <2>5, <3>1, TaskGoes
  <2>7. TypeOK'
    BY <1>1, <1>2, <1>3, <2>3, <2>6 DEF TypeOK, TasksOK
  <2>8. LocalCopyIntact'
    BY <1>1, <2>3 DEF LocalCopyIntact, TasksOK
  <2> QED  BY <2>7, <2>8
<1>5. CASE Complete(t)
  <2>1. part[t] \in Contents /\ disk' = part[t] /\ part' = [part EXCEPT ![t] = None]
    BY <1>1, <1>5 DEF Complete, TasksOK, TaskOK
  <2>2. TasksOK'
    BY <1>1, <1>2, <1>5, <2>1, TaskEnds DEF Complete
  <2>3. TypeOK'
    BY <1>1, <1>2, <1>3, <2>1, <2>2 DEF TypeOK, TasksOK
  <2>4. LocalCopyIntact'
    BY <1>1, <1>5, <2>1, FileAssumption DEF Complete, End, LocalCopyIntact, TasksOK
  <2> QED  BY <2>3, <2>4
<1>6. CASE BreakOff(t)
  <2>1. disk' = disk /\ part' = [part EXCEPT ![t] = None]
    BY <1>6 DEF BreakOff
  <2>2. TasksOK'
    BY <1>1, <1>2, <1>6, <2>1, TaskEnds DEF BreakOff
  <2>3. TypeOK'
    BY <1>1, <1>2, <1>3, <2>1, <2>2 DEF TypeOK, TasksOK
  <2>4. LocalCopyIntact'
    BY <1>1, <1>6, <2>1 DEF BreakOff, End, LocalCopyIntact, TasksOK
  <2> QED  BY <2>3, <2>4
<1> QED  BY <1>4, <1>5, <1>6

\* The files a death leaves behind are counted.
LEMMA LitterCounted == ASSUME TypeOK, Crash PROVE litter' \in Nat
<1>1. Cardinality({t \in Tasks : part[t] # None}) \in Nat
  BY FileAssumption, FS_Subset, FS_CardinalityType
<1> QED  BY <1>1 DEF TypeOK, Crash

\* The process dies with what it did; its requests may be on their way.
LEMMA CrashInv == ASSUME CallsFit, Crash PROVE CallsFit'
<1> USE DEF CallsFit
<1>1. ServerOK /\ TasksOK /\ disk \in Contents \union {None, Partial} /\ litter \in Nat
  BY TypeParts
<1>2. ServerOK' /\ Grows
  BY <1>1, Quiet, ServerLoses DEF Crash, GiveUp, TasksOK, TaskOK
<1>3. /\ part' = [t \in Tasks |-> None] /\ pc' = [t \in Tasks |-> "idle"]
      /\ call' = [t \in Tasks |-> None] /\ found' = [t \in Tasks |-> None]
      /\ attempt' = [t \in Tasks |-> 0] /\ disk' = disk
  BY DEF Crash
<1>4. litter' \in Nat
  BY LitterCounted
<1>5. \A t \in Tasks : TaskOK(t)'
  BY <1>3 DEF TaskOK, Resting, Changing
<1>6. TypeOK'
  BY <1>1, <1>2, <1>3, <1>4, <1>5, FileAssumption DEF TypeOK, Resting
<1>7. LocalCopyIntact'
  BY <1>3 DEF LocalCopyIntact
<1> QED  BY <1>6, <1>7

LEMMA NextFits == CallsFit /\ [Next]_vars => CallsFit'
<1> SUFFICES ASSUME CallsFit, [Next]_vars PROVE CallsFit'
  OBVIOUS
<1>1. ServerOK /\ TasksOK /\ disk \in Contents \union {None, Partial} /\ litter \in Nat
  BY TypeParts DEF CallsFit
<1>2. CASE UNCHANGED vars
  <2>1. ServerOK'
    BY <1>1, <1>2, Quiet DEF vars, server
  <2>2. Grows
    BY <1>1, <1>2, Quiet DEF vars, server
  <2>3. \A t \in Tasks : TaskOK(t)'
    BY <1>1, <1>2, <2>2, Lasting DEF vars, TasksOK
  <2>4. TypeOK' /\ LocalCopyIntact'
    BY <1>1, <1>2, <2>1, <2>3 DEF vars, CallsFit, TypeOK, LocalCopyIntact
  <2> QED  BY <2>4 DEF CallsFit
<1>3. ASSUME NEW t \in Tasks,
             \/ Begin(t) \/ Find(t) \/ Initiate(t) \/ Answered(t)
             \/ Transient(t) \/ TimesOut(t) \/ Refused(t)
      PROVE  CallsFit'
  <2>1. ServerOK' /\ TasksOK'
    BY <1>1, <1>3, BeginSafe, FindSafe, InitiateSafe, CallSafe DEF Safe
  <2>2. UNCHANGED local /\ LocalCopyIntact'
    BY <1>3, LocalKept
  <2>3. TypeOK'
    BY <1>1, <2>1, <2>2 DEF TypeOK, TasksOK, local
  <2> QED  BY <2>2, <2>3 DEF CallsFit
<1>4. CASE ApplyLate
  <2>1. ServerOK' /\ TasksOK'
    BY <1>1, <1>4, LateSafe DEF Safe
  <2>2. UNCHANGED local /\ pc' = pc
    BY <1>4 DEF ApplyLate, task
  <2>3. TypeOK' /\ LocalCopyIntact'
    BY <1>1, <2>1, <2>2 DEF CallsFit, TypeOK, TasksOK, local, LocalCopyIntact
  <2> QED  BY <2>3 DEF CallsFit
<1>5. CASE Next
  BY <1>3, <1>4, <1>5, DownloadInv, CrashInv DEF Next
<1> QED  BY <1>2, <1>5

-----------------------------------------------------------------------------
(* What a step does, to Drive and to a task *)

SessionType == [target : Known \union {None}, place : Places, made : Known \union {None}]

LEMMA Held ==
  ASSUME ServerOK
  PROVE  /\ file \in [Files -> FileType \union {None}] /\ None \notin FileType
         /\ \A i \in 1..Len(sessions) : sessions[i] \in SessionType
         /\ sessions \in Seq(SessionType) /\ Len(sessions) \in Nat
         /\ lost \in Nat
         /\ \A q \in inAir : RequestOK(q)
<1>1. sessions \in Seq(SessionType)
  BY DEF ServerOK, SessionType
<1>2. \A i \in 1..Len(sessions) : sessions[i] \in SessionType
  BY <1>1, ElementOfSeq
<1>3. Len(sessions) \in Nat
  BY <1>1, LenProperties
<1>4. lost \in Nat
  BY FileAssumption DEF ServerOK
<1> QED
  BY <1>1, <1>2, <1>3, <1>4, FileAssumption DEF ServerOK, FileType

LEMMA FitsServer == CallsFit => ServerOK
BY DEF CallsFit, TypeOK

\* A session keeps what it was opened for.
SessionsStay ==
  \A i \in 1..Len(sessions) :
    /\ i \in 1..Len(sessions')
    /\ sessions'[i].target = sessions[i].target
    /\ sessions'[i].place = sessions[i].place

\* The four things Drive does with a request: nothing, since its session is
\* complete; a new file; new content for a file; a change of a file.
NewContent(q) ==
  /\ q.op = "upload" /\ q.file \in 1..Len(sessions)
  /\ sessions[q.file].made = None /\ sessions[q.file].target = None
  /\ \E f \in Files \ Known :
       /\ file' = [file EXCEPT ![f] = NewFile(sessions[q.file].place, q.content)]
       /\ sessions' = [sessions EXCEPT ![q.file].made = f]

Overwrites(q) ==
  /\ q.op = "upload" /\ q.file \in 1..Len(sessions)
  /\ sessions[q.file].made = None /\ sessions[q.file].target \in Known
  /\ file' = [file EXCEPT ![sessions[q.file].target].content = q.content,
                          ![sessions[q.file].target].place.name =
                              sessions[q.file].place.name]
  /\ sessions' = [sessions EXCEPT ![q.file].made = sessions[q.file].target]

Changes(q) ==
  /\ q.op \in {"trash", "purge", "copy", "move"} /\ q.file \in Known
  /\ ApplyChange(q)

LEMMA ApplyHow ==
  ASSUME ServerOK, NEW q, RequestOK(q), Apply(q)
  PROVE  \/ /\ q.op = "upload" /\ sessions[q.file].made # None
            /\ UNCHANGED <<file, sessions>>
         \/ NewContent(q)
         \/ Overwrites(q)
         \/ Changes(q)
<1>1. CASE q.op = "upload"
  <2>1. q.file \in 1..Len(sessions) /\ ApplyPut(q)
    BY <1>1 DEF RequestOK, Apply
  <2>2. sessions[q.file].target \in Known \union {None}
    BY <2>1, Held DEF SessionType
  <2> QED  BY <1>1, <2>1, <2>2 DEF ApplyPut, NewContent, Overwrites
<1>2. CASE q.op # "upload"
  BY <1>2 DEF RequestOK, Apply, Changes
<1> QED  BY <1>1, <1>2

LEMMA NewContentParts ==
  ASSUME ServerOK, NEW q, RequestOK(q), NewContent(q)
  PROVE  \E f \in Files \ Known :
           /\ file' = [file EXCEPT ![f] = NewFile(sessions[q.file].place, q.content)]
           /\ file'[f] = NewFile(sessions[q.file].place, q.content)
           /\ \A g \in Known : file'[g] = file[g]
           /\ Known' = Known \union {f}
           /\ Len(sessions') = Len(sessions)
           /\ sessions'[q.file].made = f
           /\ \A i \in 1..Len(sessions) : i # q.file => sessions'[i] = sessions[i]
           /\ SessionsStay
<1>1. PICK f \in Files \ Known :
         /\ file' = [file EXCEPT ![f] = NewFile(sessions[q.file].place, q.content)]
         /\ sessions' = [sessions EXCEPT ![q.file].made = f]
  BY DEF NewContent
<1>2. /\ file'[f] = NewFile(sessions[q.file].place, q.content)
      /\ \A g \in Known : file'[g] = file[g]
  BY <1>1, Held DEF Known
<1>3. NewFile(sessions[q.file].place, q.content) # None
  <2>1. sessions[q.file].place \in Places
    BY Held DEF NewContent, SessionType
  <2>2. q.content \in Contents
    BY DEF RequestOK, NewContent
  <2> QED  BY <2>1, <2>2, Held DEF NewFile, FileType
<1>4. Known' = Known \union {f}
  BY <1>1, <1>3, Held DEF Known
<1>5. q.file \in 1..Len(sessions) /\ sessions[q.file] \in SessionType
  BY Held DEF NewContent
<1>6. /\ Len(sessions') = Len(sessions)
      /\ sessions'[q.file] = [sessions[q.file] EXCEPT !.made = f]
      /\ \A i \in 1..Len(sessions) : i # q.file => sessions'[i] = sessions[i]
  BY <1>1, <1>5, Held
<1>7. sessions'[q.file].made = f /\ SessionsStay
  BY <1>5, <1>6 DEF SessionsStay, SessionType
<1> QED  BY <1>1, <1>2, <1>4, <1>6, <1>7

LEMMA OverwritesParts ==
  ASSUME ServerOK, NEW q, RequestOK(q), Overwrites(q)
  PROVE  \E g \in Known :
         /\ g = sessions[q.file].target
         /\ file[g] \in FileType
         /\ file'[g].content = q.content
         /\ file'[g].state = file[g].state
         /\ file'[g].place = [file[g].place EXCEPT !.name = sessions[q.file].place.name]
         /\ file'[g] \in FileType
         /\ \A f \in Files \ {g} : file'[f] = file[f]
         /\ Known' = Known
         /\ Len(sessions') = Len(sessions)
         /\ sessions'[q.file].made = g
         /\ \A i \in 1..Len(sessions) : i # q.file => sessions'[i] = sessions[i]
         /\ SessionsStay
<1> DEFINE g == sessions[q.file].target
<1>1. /\ q.file \in 1..Len(sessions) /\ g \in Known /\ q.content \in Contents
      /\ sessions[q.file] \in SessionType
  BY Held DEF Overwrites, RequestOK
<1>2. file[g] \in FileType
  BY <1>1, Held DEF Known
<1>3. file' = [file EXCEPT ![g] =
                 [[file[g] EXCEPT !.content = q.content] EXCEPT
                     !.place.name = sessions[q.file].place.name]]
  BY <1>1, Held DEF Overwrites, Known
<1>4. \A f \in Files \ {g} : file'[f] = file[f]
  BY <1>3, Held
<1>5. /\ file'[g].content = q.content /\ file'[g].state = file[g].state
      /\ file'[g].place = [file[g].place EXCEPT !.name = sessions[q.file].place.name]
  BY <1>1, <1>2, <1>3, Held DEF FileType, Known
<1>6. file'[g] \in FileType
  <2> DEFINE n == sessions[q.file].place.name
             r == [file[g] EXCEPT !.content = q.content]
  <2>1. n \in Names
    BY <1>1 DEF SessionType, Places
  <2>2. file'[g] = [r EXCEPT !.place.name = n]
    BY <1>1, <1>3, Held DEF Known
  <2>3. r \in FileType
    BY <1>1, <1>2 DEF FileType
  <2> HIDE DEF n, r
  <2>4. [r EXCEPT !.place.name = n] \in FileType
    BY <2>1, <2>3 DEF FileType, Places
  <2> QED  BY <2>2, <2>4
<1>7. Known' = Known
  BY <1>1, <1>3, <1>4, <1>6, Held DEF Known
<1>8. /\ Len(sessions') = Len(sessions)
      /\ sessions'[q.file] = [sessions[q.file] EXCEPT !.made = g]
      /\ \A i \in 1..Len(sessions) : i # q.file => sessions'[i] = sessions[i]
  <2>1. sessions' = [sessions EXCEPT ![q.file] = [sessions[q.file] EXCEPT !.made = g]]
    BY DEF Overwrites
  <2>2. sessions \in Seq(SessionType) /\ q.file \in 1..Len(sessions)
    BY <1>1, Held
  <2> HIDE DEF g
  <2> QED  BY <2>1, <2>2
<1>9. sessions'[q.file].made = g /\ SessionsStay
  BY <1>1, <1>8 DEF SessionsStay, SessionType
<1> HIDE DEF g
<1>10. /\ g \in Known /\ file[g] \in FileType
       /\ file'[g].content = q.content
       /\ file'[g].state = file[g].state
       /\ file'[g].place = [file[g].place EXCEPT !.name = sessions[q.file].place.name]
       /\ file'[g] \in FileType
       /\ \A f \in Files \ {g} : file'[f] = file[f]
       /\ Known' = Known
       /\ Len(sessions') = Len(sessions)
       /\ sessions'[q.file].made = g
       /\ \A i \in 1..Len(sessions) : i # q.file => sessions'[i] = sessions[i]
       /\ SessionsStay
  BY <1>1, <1>2, <1>4, <1>5, <1>6, <1>7, <1>8, <1>9
<1> QED  BY <1>10 DEF g

\* A change of a file: another state, another place, or a copy of it.
LEMMA ChangesParts ==
  ASSUME CallsFit, NEW q, RequestOK(q), Changes(q)
  PROVE  /\ UNCHANGED sessions /\ SessionsStay
         /\ \/ /\ q.op \in {"trash", "purge"}
               /\ file' = [file EXCEPT ![q.file].state =
                                         IF q.op = "trash" THEN "trashed" ELSE "purged"]
               /\ Known' = Known
            \/ /\ q.op = "move" /\ file' = [file EXCEPT ![q.file].place = q.dst]
               /\ Known' = Known
            \/ /\ q.op = "copy"
               /\ \E f \in Files \ Known :
                    /\ file' = [file EXCEPT ![f] = NewFile(q.dst, file[q.file].content)]
                    /\ Known' = Known \union {f}
<1>1. UNCHANGED sessions /\ SessionsStay /\ q.file \in Known /\ file[q.file] \in FileType
  BY FitsServer, Held DEF Changes, ApplyChange, SessionsStay, Known
<1>2. CASE q.op \in {"trash", "purge"}
  <2>1. file' = [file EXCEPT ![q.file].state =
                               IF q.op = "trash" THEN "trashed" ELSE "purged"]
    BY <1>2 DEF Changes, ApplyChange
  <2>2. [file[q.file] EXCEPT !.state =
             IF q.op = "trash" THEN "trashed" ELSE "purged"] \in FileType
    BY <1>1 DEF FileType
  <2>3. Known' = Known
    BY <1>1, <2>1, <2>2, FitsServer, Held DEF Known
  <2> QED  BY <1>1, <1>2, <2>1, <2>3
<1>3. CASE q.op = "move"
  <2>1. file' = [file EXCEPT ![q.file].place = q.dst] /\ q.dst \in Places
    BY <1>3 DEF Changes, ApplyChange, RequestOK
  <2>2. [file[q.file] EXCEPT !.place = q.dst] \in FileType
    BY <1>1, <2>1 DEF FileType
  <2>3. Known' = Known
    BY <1>1, <2>1, <2>2, FitsServer, Held DEF Known
  <2> QED  BY <1>1, <1>3, <2>1, <2>3
<1>4. CASE q.op = "copy"
  <2>1. PICK f \in Files \ Known :
          file' = [file EXCEPT ![f] = NewFile(q.dst, file[q.file].content)]
    BY <1>4 DEF Changes, ApplyChange
  <2>2. NewFile(q.dst, file[q.file].content) \in FileType
    BY <1>1, <1>4 DEF FileType, NewFile, RequestOK
  <2>3. Known' = Known \union {f}
    BY <2>1, <2>2, FitsServer, Held DEF Known
  <2> QED  BY <1>1, <1>4, <2>1, <2>3
<1> QED  BY <1>1, <1>2, <1>3, <1>4 DEF Changes

-----------------------------------------------------------------------------

\* What any step does to Drive.
LEMMA ServerStep ==
  ASSUME CallsFit, [Next]_vars
  PROVE  \/ UNCHANGED <<file, sessions>>
         \/ \E t \in Tasks : Initiate(t)
         \/ /\ UNCHANGED lost
            /\ \/ \E t \in Tasks :
                    /\ Answered(t) /\ RequestOK(Request(t)) /\ Apply(Request(t))
                    /\ UNCHANGED inAir
               \/ \E q \in inAir : /\ ApplyLate /\ RequestOK(q) /\ Apply(q)
                                   /\ inAir' = inAir \ {q} /\ UNCHANGED <<pc, call, found>>
<1>1. ASSUME NEW t \in Tasks,
             \/ Begin(t) \/ Find(t) \/ Transient(t) \/ TimesOut(t)
             \/ Refused(t) \/ Open(t) \/ Complete(t) \/ BreakOff(t)
      PROVE  UNCHANGED <<file, sessions>>
  BY <1>1 DEF Begin, Find, Transient, TimesOut, GiveUp, Refused, Open, Complete, BreakOff,
              server
<1>2. ASSUME NEW t \in Tasks, Answered(t)
      PROVE  /\ UNCHANGED <<lost, inAir>> /\ RequestOK(Request(t)) /\ Apply(Request(t))
  BY <1>2 DEF Answered, CallsFit, TypeOK, TaskOK
<1>3. CASE ApplyLate
  <2>1. PICK q \in inAir : /\ inAir' = inAir \ {q}
                           /\ Apply(q) \/ UNCHANGED <<file, sessions>>
    BY <1>3 DEF ApplyLate
  <2>2. UNCHANGED <<lost, pc, call, found>> /\ RequestOK(q)
    BY <1>3, FitsServer, Held DEF ApplyLate, task
  <2> QED  BY <1>3, <2>1, <2>2
<1>4. CASE Crash
  BY <1>4 DEF Crash, GiveUp, server
<1>5. CASE UNCHANGED vars
  BY <1>5 DEF vars
<1> QED  BY <1>1, <1>2, <1>3, <1>4, <1>5 DEF Next

\* What it does to the requests in the air.
LEMMA AirStep ==
  ASSUME CallsFit, [Next]_vars
  PROVE  \/ UNCHANGED lost /\ inAir' \subseteq inAir
         \/ \E t \in Tasks : GiveUp(t)
<1>1. ASSUME NEW t \in Tasks,
             \/ Begin(t) \/ Find(t) \/ Initiate(t) \/ Answered(t) \/ Transient(t)
             \/ Refused(t) \/ Open(t) \/ Complete(t) \/ BreakOff(t)
      PROVE  UNCHANGED <<lost, inAir>>
  BY <1>1 DEF Begin, Find, Initiate, Answered, Transient, Refused, Open, Complete,
              BreakOff, server
<1>2. ASSUME NEW t \in Tasks, TimesOut(t) PROVE GiveUp(t)
  BY <1>2 DEF TimesOut
<1>3. CASE ApplyLate
  BY <1>3 DEF ApplyLate
<1>4. CASE Crash
  BY <1>4 DEF Crash, server
<1>5. CASE UNCHANGED vars
  BY <1>5 DEF vars
<1> QED  BY <1>1, <1>2, <1>3, <1>4, <1>5 DEF Next

\* What it does to a task.
Stays(t) == /\ pc'[t] = pc[t] /\ call'[t] = call[t] /\ found'[t] = found[t]
            /\ part'[t] = part[t]

LEMMA TaskStep ==
  ASSUME CallsFit, [Next]_vars, NEW t \in Tasks
  PROVE  \/ Stays(t)
         \/ pc'[t] \in Resting
         \/ Begin(t) \/ Initiate(t) \/ Open(t)
         \/ Find(t) /\ pc'[t] \notin Resting
<1> USE DEF CallsFit, TypeOK
<1>1. ASSUME NEW u \in Tasks,
             \/ Begin(u) \/ Find(u) \/ Initiate(u) \/ Open(u)
      PROVE  u = t \/ Stays(t)
  BY <1>1 DEF Begin, Find, Initiate, Open, Goto, End, Stays, local
<1>2. ASSUME NEW u \in Tasks,
             \/ Answered(u) \/ Transient(u) \/ TimesOut(u) \/ Refused(u)
             \/ Complete(u) \/ BreakOff(u)
      PROVE  Stays(t) \/ pc'[t] \in Resting
  BY <1>2 DEF Answered, Transient, TimesOut, Refused, Complete, BreakOff, End, RetryOrFail,
              Stays, Resting, local
<1>3. CASE ApplyLate
  BY <1>3 DEF ApplyLate, Stays, task, local
<1>4. CASE Crash
  BY <1>4 DEF Crash, Resting
<1>5. CASE UNCHANGED vars
  BY <1>5 DEF vars, Stays
<1> QED  BY <1>1, <1>2, <1>3, <1>4, <1>5 DEF Next

\* A session is opened.
LEMMA Appended ==
  ASSUME ServerOK, NEW t \in Tasks, Initiate(t),
         call[t].place \in Places, found[t] \in Known \union {None}
  PROVE  /\ Len(sessions') = Len(sessions) + 1
         /\ sessions'[Len(sessions')].target = found[t]
         /\ sessions'[Len(sessions')].place = call[t].place
         /\ sessions'[Len(sessions')].made = None
         /\ \A i \in 1..Len(sessions) : sessions'[i] = sessions[i]
         /\ SessionsStay
         /\ ServerOK'
<1> DEFINE session == [target |-> found[t], place |-> call[t].place, made |-> None]
<1>1. session \in SessionType
  BY DEF SessionType
<1>2. sessions' = Append(sessions, session) /\ UNCHANGED <<file, inAir, lost>>
  BY DEF Initiate
<1>3. /\ Len(sessions') = Len(sessions) + 1
      /\ sessions' \in Seq(SessionType)
      /\ sessions'[Len(sessions')] = session
      /\ \A i \in 1..Len(sessions) : sessions'[i] = sessions[i]
  <2> HIDE DEF session
  <2> QED  BY <1>1, <1>2, Held, AppendProperties
<1>4. SessionsStay
  BY <1>3, Held DEF SessionsStay
<1>5. ServerOK'
  <2>1. Grows /\ Known' = Known
    BY <1>2, <1>3, Held DEF Grows, Known
  <2>2. \A q \in inAir : RequestOK(q)'
    BY <2>1, Lasting DEF ServerOK
  <2> QED  BY <1>2, <1>3, <2>1, <2>2 DEF ServerOK, SessionType
<1> QED  BY <1>3, <1>4, <1>5

LEMMA Opened ==
  ASSUME CallsFit, NEW t \in Tasks, Initiate(t)
  PROVE  /\ Len(sessions') = Len(sessions) + 1
         /\ sessions'[Len(sessions')].target = found[t]
         /\ sessions'[Len(sessions')].place = call[t].place
         /\ sessions'[Len(sessions')].made = None
         /\ \A i \in 1..Len(sessions) : sessions'[i] = sessions[i]
         /\ SessionsStay
         /\ pc[t] = "initiate" /\ call[t].op = "upload" /\ call[t] \in Calls
         /\ found[t] \in Known \union {None}
         /\ pc'[t] = "put" /\ call' = call /\ found'[t] = Len(sessions')
         /\ UNCHANGED <<file, inAir, lost>>
<1>1. /\ pc[t] = "initiate" /\ call[t].op = "upload" /\ call[t] \in Calls
      /\ found[t] \in Known \union {None}
  BY DEF Initiate, CallsFit, TypeOK, TaskOK, Resting
<1>2. call[t].place \in Places
  BY <1>1, CallFields
<1>3. /\ pc'[t] = "put" /\ call' = call /\ found'[t] = Len(sessions')
      /\ UNCHANGED <<file, inAir, lost>>
  BY DEF Initiate, Goto, CallsFit, TypeOK
<1> QED  BY <1>1, <1>2, <1>3, FitsServer, Appended

LEMMA SessionsLast == ASSUME CallsFit, [Next]_vars PROVE SessionsStay
<1>1. ASSUME NEW q, RequestOK(q), Apply(q) PROVE SessionsStay
  BY <1>1, FitsServer, ApplyHow, NewContentParts, OverwritesParts, ChangesParts, Held
     DEF SessionsStay
<1>2. UNCHANGED sessions => SessionsStay
  BY DEF SessionsStay
<1> QED  BY <1>1, <1>2, ServerStep, Opened

\* A request that is given up is that of its task.
LEMMA GivenUp ==
  ASSUME CallsFit, NEW t \in Tasks, GiveUp(t)
  PROVE  /\ UNCHANGED <<file, sessions>>
         /\ inAir' = inAir \union {Request(t)} /\ lost' = lost + 1
         /\ pc[t] \in Changing /\ call[t] \in Calls
         /\ RequestOK(Request(t))
BY DEF GiveUp, CallsFit, TypeOK, TaskOK, Changing, Resting

LEMMA CallsOKStep == ASSUME CallsFit, CallsOK, [Next]_vars PROVE CallsOK'
<1>1. ASSUME NEW t \in Tasks
      PROVE  /\ pc'[t] \notin Resting => Permitted(call'[t])
             /\ pc'[t] = "put" => /\ call'[t].op = "upload"
                                  /\ sessions'[found'[t]].place = call'[t].place
             /\ pc'[t] = "change" => call'[t].op # "upload"
  <2>1. CASE Stays(t)
    <3>1. pc[t] = "put" => found[t] \in 1..Len(sessions)
      BY DEF CallsOK, CallsFit, TypeOK, TaskOK, RequestOK, Request, Changing
    <3> QED  BY <2>1, <3>1, SessionsLast DEF Stays, CallsOK, SessionsStay
  <2>2. CASE pc'[t] \in Resting
    BY <2>2 DEF Resting
  <2>3. CASE Begin(t)
    BY <2>3 DEF Begin, CallsFit, TypeOK
  <2>4. CASE Initiate(t)
    <3>1. /\ pc[t] = "initiate" /\ call[t].op = "upload" /\ call' = call
          /\ pc'[t] = "put" /\ sessions'[found'[t]].place = call[t].place
      BY <2>4, Opened
    <3> QED  BY <3>1 DEF CallsOK, Resting, Permitted
  <2>5. CASE Open(t)
    BY <2>5 DEF Open, Goto, CallsOK, CallsFit, TypeOK, Resting
  <2>6. CASE Find(t) /\ pc'[t] \notin Resting
    <3>1. /\ pc[t] = "find" /\ call' = call
          /\ pc'[t] \in {"find", NextCall(call[t].op)}
      BY <2>6 DEF Find, Goto, End, CallsFit, TypeOK, Resting
    <3> QED  BY <3>1 DEF CallsOK, NextCall, Resting
  <2> QED  BY <2>1, <2>2, <2>3, <2>4, <2>5, <2>6, TaskStep
<1>2. \A q \in inAir' : q.op \in Operations
  <2>1. CASE inAir' \subseteq inAir
    BY <2>1 DEF CallsOK
  <2>2. ASSUME NEW t \in Tasks, GiveUp(t) PROVE \A q \in inAir' : q.op \in Operations
    <3>1. Request(t).op \in Operations
      BY <2>2, GivenUp, CallFields DEF Request
    <3> QED  BY <2>2, <3>1, GivenUp DEF CallsOK
  <2> QED  BY <2>1, <2>2, AirStep
<1> QED  BY <1>1, <1>2 DEF CallsOK

\* Drive comes to know one file at a time.
LEMMA KnownStep ==
  ASSUME CallsFit, [Next]_vars
  PROVE  Known' = Known \/ \E f \in Files \ Known : Known' = Known \union {f}
<1>1. ASSUME NEW q, RequestOK(q), Apply(q)
      PROVE  Known' = Known \/ \E f \in Files \ Known : Known' = Known \union {f}
  <2>1. UNCHANGED file => Known' = Known
    BY DEF Known
  <2> QED  BY <1>1, <2>1, FitsServer, ApplyHow, NewContentParts, OverwritesParts, ChangesParts
<1>2. UNCHANGED file => Known' = Known
  BY DEF Known
<1> QED  BY <1>1, <1>2, ServerStep, Opened

LEMMA FewRequestsStep == ASSUME CallsFit, FewRequests, [Next]_vars PROVE FewRequests'
<1>1. IsFiniteSet(Known')
  BY KnownStep, FS_AddElement DEF FewRequests
<1>2. IsFiniteSet(inAir') /\ Cardinality(inAir') =< lost'
  <2>1. CASE UNCHANGED lost /\ inAir' \subseteq inAir
    <3>1. IsFiniteSet(inAir') /\ Cardinality(inAir') =< Cardinality(inAir)
      BY <2>1, FS_Subset DEF FewRequests
    <3>2. Cardinality(inAir') \in Nat /\ Cardinality(inAir) \in Nat
      BY <3>1, FS_CardinalityType DEF FewRequests
    <3> QED  BY <2>1, <3>1, <3>2, FitsServer, Held DEF FewRequests
  <2>2. ASSUME NEW t \in Tasks, GiveUp(t)
        PROVE  IsFiniteSet(inAir') /\ Cardinality(inAir') =< lost'
    <3>1. inAir' = inAir \union {Request(t)} /\ lost' = lost + 1
      BY <2>2, GivenUp
    <3>2. /\ IsFiniteSet(inAir')
          /\ Cardinality(inAir') \in {Cardinality(inAir), Cardinality(inAir) + 1}
      BY <3>1, FS_AddElement DEF FewRequests
    <3>3. Cardinality(inAir) \in Nat
      BY FS_CardinalityType DEF FewRequests
    <3> QED  BY <3>1, <3>2, <3>3, FitsServer, Held DEF FewRequests
  <2> QED  BY <2>1, <2>2, AirStep
<1> QED  BY <1>1, <1>2 DEF FewRequests

\* Without copies and moves, files stay where they were made.
LEMMA PlacesStay ==
  ASSUME CallsFit, CallsOK, SessionsInPlace, NothingMoves, [Next]_vars
  PROVE  \A f \in Known : f \in Known' /\ file'[f].place = file[f].place
<1>1. ASSUME NEW q, RequestOK(q), Apply(q), q.op \in Operations
      PROVE  \A f \in Known : f \in Known' /\ file'[f].place = file[f].place
  <2>1. CASE UNCHANGED file
    BY <2>1 DEF Known
  <2>2. CASE NewContent(q)
    BY <1>1, <2>2, FitsServer, NewContentParts
  <2>3. CASE Overwrites(q)
    <3> DEFINE g == sessions[q.file].target
    <3>1. /\ g \in Known /\ Known' = Known /\ file[g] \in FileType
          /\ file'[g].place = [file[g].place EXCEPT !.name = sessions[q.file].place.name]
          /\ \A f \in Files \ {g} : file'[f] = file[f]
      BY <1>1, <2>3, FitsServer, OverwritesParts
    <3>2. file[g].place = sessions[q.file].place
      BY <2>3, <3>1, FitsServer, Held, FileAssumption DEF SessionsInPlace, Overwrites, Known
    <3>3. file'[g].place = file[g].place
      BY <3>1, <3>2 DEF FileType, Places
    <3> QED  BY <3>1, <3>3 DEF Known
  <2>4. CASE Changes(q)
    <3>1. q.op \in {"trash", "purge"}
      BY <1>1, <2>4 DEF Changes, NothingMoves
    <3>2. /\ file' = [file EXCEPT ![q.file].state =
                                     IF q.op = "trash" THEN "trashed" ELSE "purged"]
          /\ Known' = Known
      BY <1>1, <2>4, <3>1, ChangesParts
    <3>3. \A f \in Known : file[f] \in FileType
      BY FitsServer, Held DEF Known
    <3> QED  BY <3>2, <3>3, FitsServer, Held DEF Known, FileType
  <2> QED  BY <1>1, <2>1, <2>2, <2>3, <2>4, FitsServer, ApplyHow
<1>2. UNCHANGED file => \A f \in Known : f \in Known' /\ file'[f].place = file[f].place
  BY DEF Known
<1>3. \A t \in Tasks : RequestOK(Request(t)) /\ Answered(t) => Request(t).op \in Operations
  BY CallFields DEF Answered, Request, CallsFit, TypeOK, TaskOK, Resting, Changing
<1> QED  BY <1>1, <1>2, <1>3, ServerStep, Opened DEF CallsOK

LEMMA SessionsInPlaceStep ==
  ASSUME CallsFit, CallsOK, SessionsInPlace, [Next]_vars
  PROVE  SessionsInPlace'
<1> SUFFICES ASSUME NothingMoves
             PROVE  /\ \A i \in 1..Len(sessions') :
                         sessions'[i].target # None =>
                           file'[sessions'[i].target].place = sessions'[i].place
                    /\ \A t \in Tasks :
                         (pc'[t] = "initiate" /\ found'[t] # None) =>
                           file'[found'[t]].place = call'[t].place
  BY DEF SessionsInPlace, NothingMoves
<1>1. \A f \in Known : file'[f].place = file[f].place
  BY PlacesStay
<1>2. \A i \in 1..Len(sessions) :
        /\ sessions'[i].target = sessions[i].target
        /\ sessions'[i].place = sessions[i].place
        /\ sessions[i].target \in Known \union {None}
  BY SessionsLast, FitsServer, Held DEF SessionsStay, SessionType
<1>3. ASSUME NEW i \in 1..Len(sessions'), sessions'[i].target # None
      PROVE  file'[sessions'[i].target].place = sessions'[i].place
  <2>1. CASE i \in 1..Len(sessions)
    BY <1>1, <1>2, <1>3, <2>1 DEF SessionsInPlace
  <2>2. CASE i \notin 1..Len(sessions)
    <3>1. PICK t \in Tasks : Initiate(t)
      <4>1. UNCHANGED sessions => FALSE
        BY <2>2
      <4>2. ASSUME NEW q, RequestOK(q), Apply(q) PROVE FALSE
        BY <2>2, <4>1, <4>2, FitsServer, ApplyHow, NewContentParts, OverwritesParts, ChangesParts
      <4> QED  BY <4>1, <4>2, ServerStep
    <3>2. /\ Len(sessions') = Len(sessions) + 1
          /\ sessions'[Len(sessions')].target = found[t]
          /\ sessions'[Len(sessions')].place = call[t].place
          /\ pc[t] = "initiate" /\ found[t] \in Known \union {None}
      BY <3>1, Opened
    <3>3. i = Len(sessions')
      BY <1>3, <2>2, <3>2, FitsServer, Held
    <3>4. found[t] \in Known /\ found[t] # None
      BY <1>3, <3>2, <3>3
    <3> QED  BY <1>1, <3>2, <3>3, <3>4 DEF SessionsInPlace
  <2> QED  BY <2>1, <2>2
<1>4. ASSUME NEW t \in Tasks, pc'[t] = "initiate", found'[t] # None
      PROVE  file'[found'[t]].place = call'[t].place
  <2>1. CASE Stays(t)
    <3>1. found[t] \in Known
      BY <1>4, <2>1 DEF Stays, CallsFit, TypeOK, TaskOK
    <3> QED  BY <1>1, <1>4, <2>1, <3>1 DEF Stays, SessionsInPlace
  <2>2. CASE pc'[t] \in Resting
    BY <1>4, <2>2 DEF Resting
  <2>3. CASE Begin(t) \/ Initiate(t) \/ Open(t)
    BY <1>4, <2>3 DEF Begin, Initiate, Open, Goto, CallsFit, TypeOK
  <2>4. CASE Find(t) /\ pc'[t] \notin Resting
    <3>1. /\ found'[t] \in Matches(t) /\ call'[t] = call[t] /\ UNCHANGED file
      BY <1>4, <2>4 DEF Find, Goto, End, CallsFit, TypeOK, Resting, server
    <3> QED  BY <1>4, <3>1 DEF Matches, At
  <2> QED  BY <2>1, <2>2, <2>3, <2>4, TaskStep
<1> QED  BY <1>3, <1>4

-----------------------------------------------------------------------------
(* Counting the files of a path, those to come included *)

LEMMA SubsetCount ==
  ASSUME NEW T, IsFiniteSet(T), NEW S \in SUBSET T
  PROVE  /\ IsFiniteSet(S) /\ Cardinality(S) \in Nat /\ Cardinality(T) \in Nat
         /\ Cardinality(S) =< Cardinality(T)
<1>1. IsFiniteSet(S) /\ Cardinality(S) =< Cardinality(T)
  BY FS_Subset
<1> QED  BY <1>1, FS_CardinalityType

LEMMA OneMore ==
  ASSUME NEW T, IsFiniteSet(T), NEW x, NEW S \in SUBSET (T \union {x})
  PROVE  Cardinality(S) =< Cardinality(T) + 1
<1>1. IsFiniteSet(T \union {x}) /\ Cardinality(T) \in Nat
  BY FS_AddElement, FS_CardinalityType
<1>2. Cardinality(T \union {x}) = IF x \in T THEN Cardinality(T) ELSE Cardinality(T) + 1
  BY FS_AddElement
<1>3. Cardinality(S) \in Nat /\ Cardinality(S) =< Cardinality(T \union {x})
  BY <1>1, SubsetCount
<1> QED  BY <1>1, <1>2, <1>3

LEMMA OneLess ==
  ASSUME NEW T, IsFiniteSet(T), NEW x \in T, NEW S \in SUBSET (T \ {x})
  PROVE  Cardinality(S) + 1 =< Cardinality(T)
<1>1. IsFiniteSet(T \ {x}) /\ Cardinality(T) \in Nat
  BY FS_RemoveElement, FS_CardinalityType
<1>2. Cardinality(T \ {x}) = Cardinality(T) - 1
  BY FS_RemoveElement
<1>3. Cardinality(S) \in Nat /\ Cardinality(S) =< Cardinality(T \ {x})
  BY <1>1, SubsetCount
<1> QED  BY <1>1, <1>2, <1>3

\* The three sets that are counted are finite, and sessions wait for their
\* content by different requests.
LEMMA Countable ==
  ASSUME CallsFit, FewRequests, NEW p
  PROVE  /\ IsFiniteSet(At(p)) /\ IsFiniteSet(Pending(p)) /\ IsFiniteSet(Uploaders(p))
         /\ Cardinality(At(p)) \in Nat /\ Cardinality(Pending(p)) \in Nat
         /\ Cardinality(Uploaders(p)) \in Nat /\ Cardinality(Tasks) \in Nat
         /\ Cardinality(Pending(p)) =< lost
         /\ Cardinality(Uploaders(p)) =< Cardinality(Tasks)
<1>1. IsFiniteSet(At(p)) /\ Cardinality(At(p)) \in Nat
  <2>1. At(p) \in SUBSET Known
    BY DEF At
  <2> QED  BY <2>1, SubsetCount DEF FewRequests
<1>2. /\ IsFiniteSet(Uploaders(p)) /\ Cardinality(Uploaders(p)) \in Nat
      /\ Cardinality(Tasks) \in Nat /\ Cardinality(Uploaders(p)) =< Cardinality(Tasks)
  <2>1. Uploaders(p) \in SUBSET Tasks
    BY DEF Uploaders
  <2> QED  BY <2>1, SubsetCount, FileAssumption
<1>3. IsFiniteSet(Pending(p)) /\ Cardinality(Pending(p)) =< Cardinality(inAir)
  <2> DEFINE m == [i \in Pending(p) |->
                     CHOOSE q \in inAir : q.op = "upload" /\ q.file = i]
  <2>1. \A i \in Pending(p) : m[i] \in inAir /\ m[i].file = i
    BY DEF Pending
  <2>2. m \in [Pending(p) -> inAir]
    BY <2>1
  <2> HIDE DEF m
  <2>3. m \in Injection(Pending(p), inAir)
    <3>1. \A i, j \in Pending(p) : m[i] = m[j] => i = j
      BY <2>1
    <3> QED  BY <2>2, <3>1 DEF Injection, IsInjective
  <2> QED  BY <2>3, FS_Injection DEF FewRequests
<1>4. Cardinality(Pending(p)) \in Nat /\ Cardinality(inAir) \in Nat
  BY <1>3, FS_CardinalityType DEF FewRequests
<1>5. Cardinality(Pending(p)) =< lost
  BY <1>3, <1>4, FitsServer, Held DEF FewRequests
<1> QED  BY <1>1, <1>2, <1>3, <1>4, <1>5

\* A session that is complete stays so.
LEMMA MadeStays ==
  ASSUME CallsFit, [Next]_vars, NEW i \in 1..Len(sessions), sessions[i].made # None
  PROVE  sessions'[i].made # None
<1>1. ASSUME NEW q, RequestOK(q), Apply(q) PROVE sessions'[i].made # None
  <2>1. CASE NewContent(q)
    BY <1>1, <2>1, FitsServer, NewContentParts, FileAssumption
  <2>2. CASE Overwrites(q)
    BY <1>1, <2>2, FitsServer, OverwritesParts, FileAssumption DEF Known
  <2>3. CASE Changes(q)
    BY <1>1, <2>3, ChangesParts
  <2> QED  BY <1>1, <2>1, <2>2, <2>3, FitsServer, ApplyHow
<1> QED  BY <1>1, ServerStep, Opened

\* A session that was and is to be made was fresh before.
LEMMA FreshBefore ==
  ASSUME CallsFit, [Next]_vars, NEW p, NEW i \in Fresh(p)', i \in 1..Len(sessions)
  PROVE  i \in Fresh(p)
BY SessionsLast, MadeStays DEF Fresh, SessionsStay

\* A PUT in the air ends by completing its session.
LEMMA PendingStays ==
  ASSUME CallsFit, [Next]_vars, NEW p, NEW i \in Pending(p), i \in Fresh(p)'
  PROVE  i \in Pending(p)'
<1>1. PICK q \in inAir : q.op = "upload" /\ q.file = i
  BY DEF Pending
<1>2. CASE q \in inAir'
  BY <1>1, <1>2 DEF Pending
<1>3. CASE q \notin inAir'
  <2>1. ApplyLate
    <3>1. ASSUME NEW t \in Tasks,
                 \/ Begin(t) \/ Find(t) \/ Initiate(t) \/ Answered(t) \/ Transient(t)
                 \/ TimesOut(t) \/ Refused(t) \/ Open(t) \/ Complete(t) \/ BreakOff(t)
          PROVE  inAir \subseteq inAir'
      BY <3>1 DEF Begin, Find, Initiate, Answered, Transient, TimesOut, GiveUp, Refused,
                  Open, Complete, BreakOff, server
    <3>2. Crash => inAir \subseteq inAir'
      BY DEF Crash, GiveUp, server
    <3>3. UNCHANGED vars => inAir \subseteq inAir'
      BY DEF vars
    <3> QED  BY <1>3, <3>1, <3>2, <3>3 DEF Next
  <2>2. Apply(q) \/ (~Accepts(q) /\ UNCHANGED <<file, sessions>>)
    BY <1>3, <2>1 DEF ApplyLate
  <2>3. RequestOK(q) /\ i \in 1..Len(sessions)
    BY <1>1, FitsServer, Held DEF RequestOK
  <2>4. sessions[i].made = None /\ sessions[i].target = None
    BY DEF Pending, Fresh
  <2>5. CASE ~Accepts(q)
    BY <1>1, <2>4, <2>5, FileAssumption DEF Accepts, Purged, Known
  <2>6. CASE Apply(q)
    <3>1. NewContent(q)
      BY <1>1, <2>3, <2>4, <2>6, FitsServer, ApplyHow, FileAssumption DEF Overwrites, Changes, Known
    <3>2. sessions'[i].made # None
      BY <1>1, <2>3, <3>1, FitsServer, NewContentParts, FileAssumption
    <3> QED  BY <3>2 DEF Fresh
  <2> QED  BY <2>2, <2>5, <2>6
<1> QED  BY <1>2, <1>3

LEMMA PendingNext ==
  ASSUME CallsFit, [Next]_vars, NEW p, NEW i \in Pending(p)'
  PROVE  \/ i \in Pending(p)
         \/ \E t \in Tasks : GiveUp(t) /\ i = found[t]
<1>1. PICK q \in inAir' : q.op = "upload" /\ q.file = i
  BY DEF Pending
<1>2. CASE q \in inAir
  <2>1. i \in 1..Len(sessions)
    BY <1>1, <1>2, FitsServer, Held DEF RequestOK
  <2>2. i \in Fresh(p)
    BY <2>1, FreshBefore DEF Pending
  <2> QED  BY <1>1, <1>2, <2>2 DEF Pending
<1>3. CASE q \notin inAir
  <2>1. PICK t \in Tasks : GiveUp(t)
    BY <1>3, AirStep
  <2>2. q = Request(t)
    BY <1>3, <2>1, GivenUp
  <2> QED  BY <1>1, <2>1, <2>2 DEF Request
<1> QED  BY <1>2, <1>3

\* A caller starts to be an uploader by finding nothing.
LEMMA UploadersNext ==
  ASSUME CallsFit, CallsOK, [Next]_vars, NEW p, NEW t \in Uploaders(p)'
  PROVE  \/ t \in Uploaders(p)
         \/ /\ UNCHANGED server /\ At(p) = {}
<1>1. t \in Tasks
  BY DEF Uploaders
<1>2. CASE Stays(t)
  <2>1. CASE pc[t] = "initiate"
    BY <1>2, <2>1 DEF Stays, Uploaders
  <2>2. CASE pc[t] # "initiate"
    <3>1. pc[t] = "put" /\ found[t] \in Fresh(p)' /\ found[t] \notin Pending(p)'
      BY <1>2, <2>2 DEF Stays, Uploaders
    <3>2. found[t] \in 1..Len(sessions)
      BY <1>1, <3>1 DEF CallsOK, CallsFit, TypeOK, TaskOK, RequestOK, Request, Changing
    <3>3. found[t] \in Fresh(p)
      BY <3>1, <3>2, FreshBefore
    <3>4. found[t] \notin Pending(p)
      BY <3>1, PendingStays
    <3> QED  BY <1>1, <3>1, <3>3, <3>4 DEF Uploaders
  <2> QED  BY <2>1, <2>2
<1>3. CASE pc'[t] \in Resting \/ Begin(t) \/ Open(t)
  BY <1>1, <1>3 DEF Begin, Open, Goto, CallsFit, TypeOK, Resting, Uploaders
<1>4. CASE Initiate(t)
  <2>1. /\ pc[t] = "initiate" /\ pc'[t] = "put" /\ found'[t] = Len(sessions')
        /\ sessions'[Len(sessions')].target = found[t]
        /\ sessions'[Len(sessions')].place = call[t].place
    BY <1>1, <1>4, Opened
  <2>2. found'[t] \in Fresh(p)'
    BY <2>1 DEF Uploaders
  <2>3. found[t] = None /\ call[t].place = p
    BY <2>1, <2>2 DEF Fresh
  <2> QED  BY <1>1, <2>1, <2>3 DEF Uploaders
<1>5. CASE Find(t) /\ pc'[t] \notin Resting
  <2>1. /\ found'[t] \in Matches(t) /\ call'[t] = call[t] /\ UNCHANGED server
        /\ pc'[t] = NextCall(call[t].op)
    BY <1>1, <1>5 DEF Find, Goto, End, CallsFit, TypeOK, Resting
  <2>2. pc'[t] = "initiate"
    BY <2>1 DEF NextCall, Uploaders
  <2>3. found'[t] = None /\ call[t].place = p
    BY <2>1, <2>2 DEF Uploaders
  <2>4. At(p) = {}
    BY <2>1, <2>3, FileAssumption DEF Matches, At, Known
  <2> QED  BY <2>1, <2>4
<1> QED  BY <1>1, <1>2, <1>3, <1>4, <1>5, TaskStep

\* A path gets a file by the content of a session that was opened for it.
LEMMA AtNext ==
  ASSUME CallsFit, CallsOK, SessionsInPlace, NothingMoves, [Next]_vars,
         NEW p, NEW f \in At(p)'
  PROVE  \/ f \in At(p)
         \/ \E q : /\ RequestOK(q) /\ NewContent(q) /\ UNCHANGED lost
                   /\ sessions[q.file].place = p /\ f \notin Known
                   /\ Known' = Known \union {f}
                   /\ q \in inAir \/ \E t \in Tasks : Answered(t) /\ q = Request(t)
<1>1. f \in Known' /\ file'[f].state = "live" /\ file'[f].place = p
  BY DEF At
<1>2. CASE f \in Known
  <2>1. file[f].place = p
    BY <1>1, <1>2, PlacesStay
  <2>2. file'[f].state = file[f].state \/ file'[f].state # "live"
    <3>1. ASSUME NEW q, RequestOK(q), Apply(q), q.op \in Operations
          PROVE  file'[f].state = file[f].state \/ file'[f].state # "live"
      <4>1. CASE NewContent(q)
        BY <1>2, <3>1, <4>1, FitsServer, NewContentParts
      <4>2. CASE Overwrites(q)
        <5>1. PICK g \in Known : /\ file'[g].state = file[g].state
                                 /\ \A h \in Files \ {g} : file'[h] = file[h]
          BY <3>1, <4>2, FitsServer, OverwritesParts
        <5> QED  BY <1>2, <5>1 DEF Known
      <4>3. CASE Changes(q)
        <5>1. q.op \in {"trash", "purge"} /\ q.file \in Known
          BY <3>1, <4>3 DEF Changes, NothingMoves
        <5>2. file' = [file EXCEPT ![q.file].state =
                                     IF q.op = "trash" THEN "trashed" ELSE "purged"]
          BY <3>1, <4>3, <5>1, ChangesParts
        <5>3. \A h \in Known : file[h] \in FileType
          BY FitsServer, Held DEF Known
        <5> QED  BY <1>2, <5>1, <5>2, <5>3, FitsServer, Held DEF Known, FileType
      <4> QED  BY <3>1, <4>1, <4>2, <4>3, FitsServer, ApplyHow
    <3>2. \A t \in Tasks : RequestOK(Request(t)) /\ Answered(t) => Request(t).op \in Operations
      BY CallFields DEF Answered, Request, CallsFit, TypeOK, TaskOK, Resting, Changing
    <3> QED  BY <3>1, <3>2, ServerStep, Opened DEF CallsOK
  <2> QED  BY <1>1, <1>2, <2>1, <2>2 DEF At
<1>3. CASE f \notin Known
  <2>1. ~ UNCHANGED file
    BY <1>1, <1>3 DEF Known
  <2>2. PICK q : /\ UNCHANGED lost /\ RequestOK(q) /\ Apply(q)
                 /\ q \in inAir \/ \E t \in Tasks : Answered(t) /\ q = Request(t)
    BY <2>1, ServerStep, Opened
  <2>3. q.op \in Operations
    <3>1. \A t \in Tasks : RequestOK(Request(t)) /\ Answered(t) => Request(t).op \in Operations
      BY CallFields DEF Answered, Request, CallsFit, TypeOK, TaskOK, Resting, Changing
    <3> QED  BY <2>2, <3>1 DEF CallsOK
  <2>4. CASE NewContent(q)
    <3>1. PICK g \in Files \ Known :
            /\ file'[g] = NewFile(sessions[q.file].place, q.content)
            /\ Known' = Known \union {g}
      BY <2>2, <2>4, FitsServer, NewContentParts
    <3>2. f = g /\ sessions[q.file].place = p
      BY <1>1, <1>3, <3>1 DEF NewFile
    <3> QED  BY <1>3, <2>2, <2>4, <3>1, <3>2
  <2>5. ~ Overwrites(q)
    BY <1>1, <1>3, <2>2, FitsServer, OverwritesParts
  <2>6. ~ Changes(q)
    <3>1. Changes(q) => q.op \in {"trash", "purge"}
      BY <2>3 DEF Changes, NothingMoves
    <3> QED  BY <1>1, <1>3, <2>2, <3>1, ChangesParts
  <2> QED  BY <2>1, <2>2, <2>4, <2>5, <2>6, FitsServer, ApplyHow
<1> QED  BY <1>2, <1>3

\* The session of such a content was counted for its path before, and is not
\* afterwards.
LEMMA OneForOne ==
  ASSUME CallsFit, CallsOK, FewRequests, [Next]_vars, NEW q, RequestOK(q), NewContent(q),
         q \in inAir \/ \E t \in Tasks : Answered(t) /\ q = Request(t),
         UNCHANGED lost, NEW p, sessions[q.file].place = p,
         Uploaders(p)' \subseteq Uploaders(p), Pending(p)' \subseteq Pending(p)
  PROVE  Cardinality(Pending(p)') + Cardinality(Uploaders(p)') + 1
           =< Cardinality(Pending(p)) + Cardinality(Uploaders(p))
<1>1. q.file \in Fresh(p) /\ q.op = "upload"
  BY DEF NewContent, Fresh
<1>2. q.file \notin Fresh(p)'
  BY FitsServer, NewContentParts, FileAssumption DEF Fresh
<1>3. Pending(p)' \subseteq Pending(p) \ {q.file}
  BY <1>2 DEF Pending
<1>4. /\ IsFiniteSet(Pending(p)) /\ IsFiniteSet(Uploaders(p))
      /\ Cardinality(Pending(p)) \in Nat /\ Cardinality(Uploaders(p)) \in Nat
  BY Countable
<1>5. /\ Cardinality(Pending(p)') =< Cardinality(Pending(p))
      /\ Cardinality(Uploaders(p)') =< Cardinality(Uploaders(p))
      /\ Cardinality(Pending(p)') \in Nat /\ Cardinality(Uploaders(p)') \in Nat
  BY <1>4, SubsetCount
<1>6. CASE q.file \in Pending(p)
  <2>1. Cardinality(Pending(p)') + 1 =< Cardinality(Pending(p))
    BY <1>3, <1>4, <1>6, OneLess
  <2> QED  BY <1>4, <1>5, <2>1
<1>7. CASE q.file \notin Pending(p)
  <2>1. q \notin inAir
    BY <1>1, <1>7 DEF Pending
  <2>2. PICK t \in Tasks : Answered(t) /\ q = Request(t)
    BY <2>1
  <2>3. pc[t] = "put" /\ found[t] = q.file
    BY <1>1, <2>2 DEF Answered, Request, Changing, CallsOK
  <2>4. t \in Uploaders(p)
    BY <1>1, <1>7, <2>3 DEF Uploaders
  <2>5. t \notin Uploaders(p)'
    BY <2>2 DEF Answered, End, CallsFit, TypeOK, Uploaders
  <2>6. Cardinality(Uploaders(p)') + 1 =< Cardinality(Uploaders(p))
    <3>1. Uploaders(p)' \subseteq Uploaders(p) \ {t}
      BY <2>5
    <3> QED  BY <1>4, <2>4, <3>1, OneLess
  <2> QED  BY <1>4, <1>5, <2>6
<1> QED  BY <1>6, <1>7

Counts ==
  \A p \in Places :
    /\ Cardinality(At(p)) \in Nat /\ Cardinality(Pending(p)) \in Nat
    /\ Cardinality(Uploaders(p)) \in Nat
    /\ Cardinality(Pending(p)) =< lost
    /\ Cardinality(Uploaders(p)) =< Cardinality(Tasks)

LEMMA Counted == CallsFit /\ FewRequests => Counts
BY Countable DEF Counts

LEMMA CountedNext == CallsFit' /\ FewRequests' => Counts'
BY Counted, PTL

LEMMA NamesCountedStep ==
  ASSUME CallsFit, CallsOK, FewRequests, SessionsInPlace, NamesCounted, [Next]_vars,
         CallsFit', FewRequests'
  PROVE  NamesCounted'
<1> SUFFICES ASSUME NothingMoves, NEW p \in Places
             PROVE  Cardinality(At(p)') + Cardinality(Pending(p)') + Cardinality(Uploaders(p)')
                      =< Cardinality(Tasks) + lost'
  BY DEF NamesCounted, NothingMoves
<1>1. /\ IsFiniteSet(At(p)) /\ IsFiniteSet(Pending(p)) /\ IsFiniteSet(Uploaders(p))
      /\ Cardinality(At(p)) \in Nat /\ Cardinality(Pending(p)) \in Nat
      /\ Cardinality(Uploaders(p)) \in Nat /\ Cardinality(Tasks) \in Nat
  BY Countable
<1>2. /\ Cardinality(At(p)') \in Nat /\ Cardinality(Pending(p)') \in Nat
      /\ Cardinality(Uploaders(p)') \in Nat
      /\ Cardinality(Pending(p)') =< lost'
      /\ Cardinality(Uploaders(p)') =< Cardinality(Tasks)
  BY CountedNext DEF Counts
<1>3. lost \in Nat /\ lost' \in Nat
  BY FitsServer, Held, FileAssumption DEF CallsFit, TypeOK, ServerOK
<1>4. Cardinality(At(p)) + Cardinality(Pending(p)) + Cardinality(Uploaders(p))
        =< Cardinality(Tasks) + lost
  BY DEF NamesCounted
<1>5. CASE ~(Uploaders(p)' \subseteq Uploaders(p))
  <2>1. UNCHANGED server /\ At(p) = {}
    BY <1>5, UploadersNext
  <2>2. At(p)' = {}
    BY <2>1 DEF server, At, Known
  <2>3. Cardinality(At(p)') = 0
    BY <2>2, FS_EmptySet
  <2> QED  BY <1>1, <1>2, <1>3, <2>3
<1>6. CASE Uploaders(p)' \subseteq Uploaders(p)
  <2>1. Cardinality(Uploaders(p)') =< Cardinality(Uploaders(p))
    BY <1>1, <1>6, SubsetCount
  <2>2. CASE \E t \in Tasks : GiveUp(t)
    <3>1. PICK t \in Tasks : GiveUp(t)
      BY <2>2
    <3>2. UNCHANGED <<file, sessions>> /\ lost' = lost + 1 /\ inAir' = inAir \union {Request(t)}
      BY <3>1, GivenUp
    <3>3. At(p)' = At(p)
      BY <3>2 DEF At, Known
    <3>4. Pending(p)' \subseteq Pending(p) \union {found[t]}
      BY <3>2 DEF Pending, Fresh, Request
    <3>5. Cardinality(Pending(p)') =< Cardinality(Pending(p)) + 1
      BY <1>1, <3>4, OneMore
    <3> QED  BY <1>1, <1>2, <1>3, <1>4, <2>1, <3>2, <3>3, <3>5
  <2>3. CASE ~ \E t \in Tasks : GiveUp(t)
    <3>1. Pending(p)' \subseteq Pending(p)
      BY <2>3, PendingNext
    <3>2. lost' = lost
      BY <2>3, AirStep
    <3>3. Cardinality(Pending(p)') =< Cardinality(Pending(p))
      BY <1>1, <3>1, SubsetCount
    <3>4. CASE At(p)' \subseteq At(p)
      <4>1. Cardinality(At(p)') =< Cardinality(At(p))
        BY <1>1, <3>4, SubsetCount
      <4> QED  BY <1>1, <1>2, <1>3, <1>4, <2>1, <3>2, <3>3, <4>1
    <3>5. CASE ~(At(p)' \subseteq At(p))
      <4>1. PICK f \in At(p)' : f \notin At(p)
        BY <3>5
      <4>2. PICK q : /\ RequestOK(q) /\ NewContent(q)
                     /\ sessions[q.file].place = p
                     /\ Known' = Known \union {f}
                     /\ q \in inAir \/ \E t \in Tasks : Answered(t) /\ q = Request(t)
        BY <4>1, AtNext
      <4>3. At(p)' \subseteq At(p) \union {f}
        <5>1. \A g \in At(p)' : g \in At(p) \/ g \notin Known
          BY AtNext
        <5>2. \A g \in At(p)' : g \in Known'
          BY DEF At
        <5> QED  BY <4>2, <5>1, <5>2
      <4>4. Cardinality(At(p)') =< Cardinality(At(p)) + 1
        BY <1>1, <4>3, OneMore
      <4>5. Cardinality(Pending(p)') + Cardinality(Uploaders(p)') + 1
              =< Cardinality(Pending(p)) + Cardinality(Uploaders(p))
        BY <1>6, <3>1, <3>2, <4>2, OneForOne
      <4> QED  BY <1>1, <1>2, <1>3, <1>4, <3>2, <4>4, <4>5
    <3> QED  BY <3>4, <3>5
  <2> QED  BY <2>2, <2>3
<1> QED  BY <1>5, <1>6

-----------------------------------------------------------------------------
(* Uploads of one caller *)

LEMMA LostGrows == ASSUME CallsFit, [Next]_vars PROVE lost =< lost' /\ lost' \in Nat
BY AirStep, GivenUp, FitsServer, Held

LEMMA NothingLate ==
  ASSUME CallsFit, FewRequests, lost = 0
  PROVE  inAir = {}
BY DEF CallsFit, TypeOK, ServerOK

\* The content of a session for a file makes it what a new file would be.
LEMMA Lands ==
  ASSUME CallsFit, SessionsInPlace, NothingMoves, NEW q, RequestOK(q), Overwrites(q),
         \A f \in Known : file[f].state = "live"
  PROVE  /\ file'[sessions[q.file].target] = NewFile(sessions[q.file].place, q.content)
         /\ sessions'[q.file].made = sessions[q.file].target
         /\ \A f \in Known : file'[f].state = "live"
         /\ Known' = Known
<1>1. PICK g \in Known :
         /\ g = sessions[q.file].target
         /\ file[g] \in FileType
         /\ file'[g].content = q.content /\ file'[g].state = file[g].state
         /\ file'[g].place = [file[g].place EXCEPT !.name = sessions[q.file].place.name]
         /\ file'[g] \in FileType
         /\ \A f \in Files \ {g} : file'[f] = file[f]
         /\ Known' = Known
         /\ sessions'[q.file].made = g
  BY FitsServer, OverwritesParts
<1>2. file[g].place = sessions[q.file].place
  BY <1>1, FileAssumption DEF SessionsInPlace, Overwrites, Known
<1>3. file'[g].place = sessions[q.file].place
  BY <1>1, <1>2 DEF FileType, Places
<1>4. file'[g] = NewFile(sessions[q.file].place, q.content)
  BY <1>1, <1>3 DEF FileType, NewFile
<1> QED  BY <1>1, <1>4 DEF Known

LEMMA UploadsOnly ==
  ASSUME CallsFit, CallsOK, TransfersOnly
  PROVE  /\ NothingMoves
         /\ \A q : RequestOK(q) /\ q.op \in Operations => q.op = "upload"
         /\ \A q \in inAir : q.op = "upload" /\ q.file \in 1..Len(sessions)
         /\ \A t \in Tasks : Answered(t) => Request(t).op = "upload" /\ pc[t] = "put"
<1>1. NothingMoves /\ \A q : RequestOK(q) /\ q.op \in Operations => q.op = "upload"
  BY DEF TransfersOnly, NothingMoves, RequestOK
<1>2. \A q \in inAir : q.op = "upload" /\ q.file \in 1..Len(sessions)
  BY <1>1, FitsServer, Held DEF CallsOK, RequestOK
<1>3. ASSUME NEW t \in Tasks, Answered(t) PROVE Request(t).op = "upload" /\ pc[t] = "put"
  <2>1. RequestOK(Request(t)) /\ call[t] \in Calls /\ pc[t] \in Changing
    BY <1>3 DEF Answered, CallsFit, TypeOK, TaskOK, Changing, Resting
  <2>2. Request(t).op \in Operations /\ Request(t).op = call[t].op
    BY <2>1, CallFields DEF Request
  <2> QED  BY <1>1, <2>1, <2>2 DEF CallsOK, Changing
<1> QED  BY <1>1, <1>2, <1>3

LEMMA UploadsIntactStep ==
  ASSUME CallsFit, CallsOK, FewRequests, SessionsInPlace, UploadsIntact, [Next]_vars
  PROVE  UploadsIntact'
<1> SUFFICES ASSUME Alone, TransfersOnly
             PROVE  /\ \A f \in Known' : file'[f].state = "live"
                    /\ \A t \in Tasks : pc'[t] = "put" =>
                         /\ \A q \in inAir' : q.file = found'[t] => q.content = call'[t].content
                         /\ sessions'[found'[t]].made # None =>
                              \/ lost' > 1
                              \/ /\ lost' = 1 /\ inAir' = {}
                                 /\ file'[sessions'[found'[t]].made]
                                      = NewFile(call'[t].place, call'[t].content)
  BY Zenon DEF UploadsIntact, Alone, TransfersOnly, NewFile
<1>1. /\ NothingMoves
      /\ \A q \in inAir : q.op = "upload" /\ q.file \in 1..Len(sessions)
      /\ \A t \in Tasks : Answered(t) => Request(t).op = "upload" /\ pc[t] = "put"
  BY UploadsOnly
<1>2. /\ \A f \in Known : file[f].state = "live"
      /\ \A t \in Tasks : pc[t] = "put" =>
           /\ \A q \in inAir : q.file = found[t] => q.content = call[t].content
           /\ sessions[found[t]].made # None =>
                \/ lost > 1
                \/ /\ lost = 1 /\ inAir = {}
                   /\ file[sessions[found[t]].made] = NewFile(call[t].place, call[t].content)
  BY DEF UploadsIntact
<1>3. \A f \in Known' : file'[f].state = "live"
  <2>1. UNCHANGED file => \A f \in Known' : file'[f].state = "live"
    BY <1>2 DEF Known
  <2>2. ASSUME NEW q, RequestOK(q), Apply(q), q.op = "upload"
        PROVE  \A f \in Known' : file'[f].state = "live"
    <3>1. NewContent(q) => \A f \in Known' : file'[f].state = "live"
      <4>1. ASSUME NewContent(q)
            PROVE  \E f \in Files : /\ file'[f] = NewFile(sessions[q.file].place, q.content)
                                    /\ Known' = Known \union {f}
                                    /\ \A g \in Known : file'[g] = file[g]
        BY <2>2, <4>1, FitsServer, NewContentParts
      <4>2. NewFile(sessions[q.file].place, q.content).state = "live"
        BY DEF NewFile
      <4> QED  BY <1>2, <4>1, <4>2
    <3>2. Overwrites(q) => \A f \in Known' : file'[f].state = "live"
      BY <1>1, <1>2, <2>2, Lands
    <3> QED  BY <2>1, <2>2, <3>1, <3>2, FitsServer, ApplyHow DEF Changes
  <2> QED  BY <1>1, <2>1, <2>2, ServerStep, Opened
<1>4. ASSUME NEW t \in Tasks, pc'[t] = "put"
      PROVE  /\ \A q \in inAir' : q.file = found'[t] => q.content = call'[t].content
             /\ sessions'[found'[t]].made # None =>
                  \/ lost' > 1
                  \/ /\ lost' = 1 /\ inAir' = {}
                     /\ file'[sessions'[found'[t]].made]
                          = NewFile(call'[t].place, call'[t].content)
  <2>1. CASE Initiate(t)
    <3>1. /\ found'[t] = Len(sessions') /\ Len(sessions') = Len(sessions) + 1
          /\ inAir' = inAir /\ sessions'[Len(sessions')].made = None
      BY <2>1, Opened
    <3>2. \A q \in inAir' : q.file # found'[t]
      BY <1>1, <3>1, FitsServer, Held
    <3> QED  BY <3>1, <3>2
  <2>2. CASE Stays(t)
    <3> DEFINE i == found[t]
    <3>1. /\ pc[t] = "put" /\ call'[t] = call[t] /\ found'[t] = i
          /\ i \in 1..Len(sessions) /\ sessions[i].place = call[t].place
      BY <1>4, <2>2 DEF Stays, CallsOK, CallsFit, TypeOK, TaskOK, RequestOK, Request, Changing
    <3>2. \A q \in inAir' : q.file = i => q.content = call[t].content
      <4>1. ASSUME NEW u \in Tasks, GiveUp(u), NEW q \in inAir', q \notin inAir
            PROVE  q.content = call[t].content
        <5>1. q = Request(u) /\ u = t
          BY <4>1, GivenUp DEF Alone
        <5> QED  BY <5>1 DEF Request
      <4> QED  BY <1>2, <3>1, <4>1, AirStep
    <3>3. \/ UNCHANGED <<file, sessions>>
          \/ \E q \in inAir : /\ RequestOK(q) /\ Apply(q) /\ inAir' = inAir \ {q}
                              /\ UNCHANGED lost
      <4>1. ~ Initiate(t) /\ ~ Answered(t)
        BY <1>4, <3>1 DEF Initiate, Answered, End, CallsFit, TypeOK
      <4> QED  BY <4>1, ServerStep DEF Alone
    <3>4. CASE sessions[i].made # None
      <4>1. CASE lost > 1
        BY <3>1, <3>2, <4>1, FitsServer, Held, LostGrows
      <4>2. CASE \E u \in Tasks : GiveUp(u)
        <5>1. lost >= 1 /\ lost' = lost + 1
          BY <1>2, <3>1, <3>4, <4>2, GivenUp, FitsServer, Held
        <5> QED  BY <3>1, <3>2, <5>1, FitsServer, Held
      <4>3. CASE ~(lost > 1) /\ ~ \E u \in Tasks : GiveUp(u)
        <5>1. lost = 1 /\ inAir = {} /\ lost' = lost /\ inAir' = {}
          BY <1>2, <3>1, <3>4, <4>3, AirStep
        <5>2. UNCHANGED <<file, sessions>>
          BY <3>3, <5>1
        <5> QED  BY <1>2, <3>1, <3>2, <3>4, <4>3, <5>1, <5>2
      <4> QED  BY <3>1, <3>2, <4>1, <4>2, <4>3
    <3>5. CASE sessions[i].made = None
      <4>1. CASE UNCHANGED sessions
        BY <3>1, <3>2, <3>5, <4>1
      <4>2. CASE ~ UNCHANGED sessions
        <5>1. PICK q \in inAir : /\ RequestOK(q) /\ Apply(q) /\ inAir' = inAir \ {q}
                                 /\ UNCHANGED lost
          BY <3>3, <4>2
        <5>2. q.op = "upload"
          BY <1>1
        <5>3. NewContent(q) \/ Overwrites(q)
          BY <4>2, <5>1, <5>2, FitsServer, ApplyHow DEF Changes
        <5>4. CASE q.file # i
          <6>1. sessions'[i] = sessions[i]
            BY <3>1, <5>1, <5>3, <5>4, FitsServer, NewContentParts, OverwritesParts
          <6> QED  BY <3>1, <3>2, <3>5, <6>1
        <5>5. CASE q.file = i
          <6>1. file'[sessions'[i].made] = NewFile(call[t].place, call[t].content)
            <7>1. q.content = call[t].content
              BY <1>2, <3>1, <5>5
            <7>2. NewContent(q) =>
                    file'[sessions'[i].made] = NewFile(sessions[i].place, q.content)
              BY <5>1, <5>5, FitsServer, NewContentParts
            <7>3. Overwrites(q) =>
                    file'[sessions'[i].made] = NewFile(sessions[i].place, q.content)
              BY <1>1, <1>2, <5>1, <5>5, Lands
            <7> QED  BY <3>1, <5>3, <7>1, <7>2, <7>3
          <6>2. lost > 1 \/ (lost = 1 /\ inAir' = {})
            <7>1. IsFiniteSet(inAir) /\ Cardinality(inAir) =< lost
              BY DEF FewRequests
            <7>2. Cardinality(inAir') + 1 =< Cardinality(inAir)
              BY <5>1, <7>1, OneLess
            <7>3. IsFiniteSet(inAir') /\ Cardinality(inAir') \in Nat /\ Cardinality(inAir) \in Nat
              BY <5>1, <7>1, SubsetCount
            <7>4. lost > 1 \/ (lost = 1 /\ Cardinality(inAir') = 0)
              BY <7>1, <7>2, <7>3, FitsServer, Held
            <7> QED  BY <7>3, <7>4, FS_EmptySet
          <6> QED  BY <3>1, <3>2, <5>1, <6>1, <6>2
        <5> QED  BY <5>4, <5>5
      <4> QED  BY <4>1, <4>2
    <3> QED  BY <3>4, <3>5
  <2>3. CASE pc'[t] \in Resting \/ Begin(t) \/ Open(t)
    BY <1>4, <2>3 DEF Resting, Begin, Open, Goto, CallsFit, TypeOK
  <2>4. CASE Find(t) /\ pc'[t] \notin Resting
    BY <1>4, <2>4 DEF Resting, Find, Goto, End, NextCall, CallsFit, TypeOK
  <2> QED  BY <2>1, <2>2, <2>3, <2>4, TaskStep
<1> QED  BY <1>3, <1>4

\* When an upload returns, its content is there.
LEMMA UploadLands ==
  ASSUME CallsFit, CallsOK, SessionsInPlace, UploadsIntact, Alone, TransfersOnly,
         [Next]_vars, NEW t \in Tasks, pc[t] = "put", pc'[t] = "done", ~Overtaken(t)
  PROVE  \E f \in Files : file'[f] = NewFile(call[t].place, call[t].content)
<1>1. Answered(t)
  <2>1. ASSUME NEW u \in Tasks,
               \/ Begin(u) \/ Find(u) \/ Initiate(u) \/ Transient(u) \/ TimesOut(u)
               \/ Refused(u) \/ Open(u) \/ Complete(u) \/ BreakOff(u)
        PROVE  FALSE
    <3>1. u = t
      BY DEF Alone
    <3> QED  BY <2>1, <3>1 DEF Begin, Find, Initiate, Transient, TimesOut, RetryOrFail,
                               Refused, Open, Complete, BreakOff, End, Goto, Resting,
                               CallsFit, TypeOK
  <2>2. ~ ApplyLate
    BY DEF ApplyLate, task
  <2>3. ~ Crash
    BY DEF Crash
  <2>4. ~ UNCHANGED vars
    BY DEF vars
  <2> QED  BY <2>1, <2>2, <2>3, <2>4 DEF Next, Alone
<1> DEFINE q == Request(t)
<1>2. /\ RequestOK(q) /\ Apply(q) /\ q.op = "upload" /\ q.file = found[t]
      /\ q.content = call[t].content
  BY <1>1, UploadsOnly DEF Answered, Request, CallsFit, TypeOK, TaskOK
<1> HIDE DEF q
<1>3. /\ found[t] \in 1..Len(sessions) /\ sessions[found[t]].place = call[t].place
      /\ NothingMoves /\ \A f \in Known : file[f].state = "live"
  BY <1>2, UploadsOnly DEF RequestOK, CallsOK, UploadsIntact
<1>4. CASE sessions[found[t]].made # None /\ UNCHANGED file
  <2>1. lost = 1 /\ file[sessions[found[t]].made] = NewFile(call[t].place, call[t].content)
    BY <1>4 DEF Overtaken, UploadsIntact
  <2>2. sessions[found[t]].made \in Files
    BY <1>3, <1>4, FitsServer, Held DEF SessionType, Known
  <2> QED  BY <1>4, <2>1, <2>2
<1>5. CASE NewContent(q)
  BY <1>2, <1>3, <1>5, FitsServer, NewContentParts
<1>6. CASE Overwrites(q)
  <2>1. file'[sessions[found[t]].target] = NewFile(call[t].place, call[t].content)
    BY <1>2, <1>3, <1>6, Lands
  <2> QED  BY <1>2, <1>6, <2>1 DEF Overwrites, Known
<1> QED  BY <1>2, <1>4, <1>5, <1>6, FitsServer, ApplyHow DEF Changes

-----------------------------------------------------------------------------
(* One caller, no answer lost *)

\* Between two calls of such a caller nothing happens at Drive.
LEMMA NothingBetween ==
  ASSUME CallsFit, FewRequests, Alone, lost = 0, [Next]_vars, NEW t \in Tasks, Stays(t)
  PROVE  UNCHANGED <<file, sessions>>
<1>1. inAir = {}
  BY NothingLate
<1>2. ~ Initiate(t) /\ ~ Answered(t)
  BY DEF Stays, Initiate, Answered, Changing, Goto, End, CallsFit, TypeOK
<1> QED  BY <1>1, <1>2, ServerStep DEF Alone

LEMMA UndisturbedStep ==
  ASSUME CallsFit, CallsOK, FewRequests, Undisturbed, [Next]_vars
  PROVE  Undisturbed'
<1> DEFINE Here(t) == {f \in Known' : file'[f].state = "live" /\ file'[f].place = call'[t].place}
<1> SUFFICES ASSUME Alone, lost' = 0, NEW t \in Tasks
             PROVE  /\ pc'[t] = "initiate" =>
                         IF found'[t] = None THEN Here(t) = {} ELSE found'[t] \in Here(t)
                    /\ pc'[t] \in {"open", "change"} => found'[t] \in Here(t)
                    /\ pc'[t] = "stream" => \E f \in Here(t) : part'[t] = file'[f].content
                    /\ pc'[t] = "put" =>
                         /\ sessions'[found'[t]].made = None
                         /\ IF sessions'[found'[t]].target = None THEN Here(t) = {}
                            ELSE sessions'[found'[t]].target \in Here(t)
  BY DEF Undisturbed, Alone, At
<1>1. lost = 0
  BY LostGrows, FitsServer, Held
<1>2. LET here == At(call[t].place) IN
      /\ pc[t] = "initiate" =>
           IF found[t] = None THEN here = {} ELSE found[t] \in here
      /\ pc[t] \in {"open", "change"} => found[t] \in here
      /\ pc[t] = "stream" => \E f \in here : part[t] = file[f].content
      /\ pc[t] = "put" =>
           /\ sessions[found[t]].made = None
           /\ IF sessions[found[t]].target = None THEN here = {}
              ELSE sessions[found[t]].target \in here
  BY <1>1 DEF Undisturbed
<1>3. UNCHANGED file /\ call'[t] = call[t] => Here(t) = At(call[t].place)
  BY DEF At, Known
<1> HIDE DEF Here
<1>4. CASE Stays(t)
  <2>1. UNCHANGED <<file, sessions>>
    BY <1>1, <1>4, NothingBetween
  <2> QED  BY <1>2, <1>3, <1>4, <2>1 DEF Stays
<1>5. CASE pc'[t] \in Resting \/ Begin(t)
  BY <1>5 DEF Resting, Begin, CallsFit, TypeOK
<1>6. CASE Initiate(t)
  <2>1. /\ UNCHANGED file /\ call' = call /\ pc[t] = "initiate" /\ pc'[t] = "put"
        /\ found'[t] = Len(sessions')
        /\ sessions'[Len(sessions')].target = found[t]
        /\ sessions'[Len(sessions')].made = None
    BY <1>6, Opened
  <2> QED  BY <1>2, <1>3, <2>1
<1>7. CASE Open(t)
  <2>1. /\ UNCHANGED file /\ call' = call /\ pc[t] = "open" /\ pc'[t] = "stream"
        /\ part'[t] = file[found[t]].content
    BY <1>7 DEF Open, Goto, server, CallsFit, TypeOK
  <2> QED  BY <1>2, <1>3, <2>1
<1>8. CASE Find(t) /\ pc'[t] \notin Resting
  <2>1. PICK f \in Matches(t) :
          /\ f # None \/ call[t].op = "upload"
          /\ found'[t] = f /\ pc'[t] = NextCall(call[t].op)
          /\ UNCHANGED file /\ call'[t] = call[t]
    BY <1>8 DEF Find, Goto, End, CallsFit, TypeOK, Resting, server
  <2>2. IF f = None THEN At(call[t].place) = {} ELSE f \in At(call[t].place)
    BY <2>1, FileAssumption DEF Matches, At, Known
  <2> QED  BY <1>3, <2>1, <2>2 DEF NextCall
<1> QED  BY <1>4, <1>5, <1>6, <1>7, <1>8, TaskStep

\* What it trashes is where it looked.
LEMMA TrashInScratch ==
  ASSUME CallsFit, CallsOK, FewRequests, Undisturbed, Alone, lost = 0, [Next]_vars,
         NEW f \in Known, file[f].state = "live", file'[f].state = "trashed"
  PROVE  file[f].place \in Scratch
<1>1. inAir = {}
  BY NothingLate
<1>2. PICK t \in Tasks : Answered(t) /\ RequestOK(Request(t)) /\ Apply(Request(t))
  BY <1>1, ServerStep, Opened
<1> DEFINE q == Request(t)
<1>3. /\ q.op = call[t].op /\ q.file = found[t] /\ pc[t] \in Changing
  BY <1>2 DEF Request, Answered
<1> HIDE DEF q
<1>4. ~ NewContent(q)
  BY <1>2, FitsServer, NewContentParts DEF q
<1>5. ~ Overwrites(q)
  <2>1. Overwrites(q) => \E g \in Known : /\ file'[g].state = file[g].state
                                          /\ \A h \in Files \ {g} : file'[h] = file[h]
    BY <1>2, FitsServer, OverwritesParts DEF q
  <2> QED  BY <2>1 DEF Known
<1>6. Changes(q)
  BY <1>2, <1>4, <1>5, FitsServer, ApplyHow DEF q
<1>7. q.op = "trash" /\ q.file = f
  <2>1. file[q.file] \in FileType /\ q.file \in Files /\ f \in Files /\ file[f] \in FileType
    BY <1>6, FitsServer, Held DEF Changes, Known
  <2>2. CASE q.op \in {"trash", "purge"}
    <3>1. file' = [file EXCEPT ![q.file].state =
                                 IF q.op = "trash" THEN "trashed" ELSE "purged"]
      BY <1>2, <1>6, <2>2, ChangesParts DEF q
    <3> QED  BY <2>1, <2>2, <3>1, FitsServer, Held DEF FileType
  <2>3. CASE q.op = "move"
    <3>1. file' = [file EXCEPT ![q.file].place = q.dst]
      BY <1>2, <1>6, <2>3, ChangesParts DEF q
    <3> QED  BY <2>1, <3>1, FitsServer, Held DEF FileType
  <2>4. CASE q.op = "copy"
    <3>1. PICK g \in Files \ Known :
            file' = [file EXCEPT ![g] = NewFile(q.dst, file[q.file].content)]
      BY <1>2, <1>6, <2>4, ChangesParts DEF q
    <3> QED  BY <2>1, <3>1, FitsServer, Held
  <2> QED  BY <1>6, <2>2, <2>3, <2>4 DEF Changes
<1>8. pc[t] = "change" /\ Permitted(call[t])
  BY <1>3, <1>7 DEF CallsOK, Changing, Resting
<1>9. f \in At(call[t].place)
  BY <1>3, <1>7, <1>8 DEF Undisturbed
<1> QED  BY <1>3, <1>7, <1>8, <1>9 DEF Permitted, At

-----------------------------------------------------------------------------
LEMMA InitInv == Init => IInv
<1> SUFFICES ASSUME Init PROVE IInv
  OBVIOUS
<1>1. CallsFit
  BY InitFits
<1>2. /\ Known = {} /\ inAir = {} /\ lost = 0 /\ Len(sessions) = 0
      /\ \A t \in Tasks : pc[t] = "idle"
  BY DEF Init, Known
<1>3. CallsOK
  BY <1>2 DEF CallsOK, Resting
<1>4. FewRequests
  BY <1>2, FS_EmptySet DEF FewRequests
<1>5. SessionsInPlace
  BY <1>2 DEF SessionsInPlace
<1>6. NamesCounted
  <2>1. \A p : At(p) = {} /\ Pending(p) = {} /\ Uploaders(p) = {}
    BY <1>2 DEF At, Pending, Fresh, Uploaders
  <2>2. Cardinality(Tasks) \in Nat
    BY FileAssumption, FS_CardinalityType
  <2>3. \A p : /\ Cardinality(At(p)) = 0 /\ Cardinality(Pending(p)) = 0
               /\ Cardinality(Uploaders(p)) = 0
    <3>1. Cardinality({}) = 0
      BY FS_EmptySet
    <3> QED  BY <2>1, <3>1
  <2> QED  BY <1>2, <2>2, <2>3 DEF NamesCounted
<1>7. UploadsIntact /\ Undisturbed
  BY <1>2 DEF UploadsIntact, Undisturbed
<1> QED  BY <1>1, <1>3, <1>4, <1>5, <1>6, <1>7 DEF IInv

LEMMA NextInv == IInv /\ [Next]_vars => IInv'
<1> SUFFICES ASSUME IInv, [Next]_vars PROVE IInv'
  OBVIOUS
<1>1. CallsFit /\ CallsOK /\ FewRequests /\ SessionsInPlace /\ NamesCounted
      /\ UploadsIntact /\ Undisturbed
  BY DEF IInv
<1>2. CallsFit'
  BY <1>1, NextFits
<1>3. CallsOK' /\ FewRequests' /\ SessionsInPlace'
  BY <1>1, CallsOKStep, FewRequestsStep, SessionsInPlaceStep
<1>4. NamesCounted'
  BY <1>1, <1>2, <1>3, NamesCountedStep
<1>5. UploadsIntact' /\ Undisturbed'
  BY <1>1, UploadsIntactStep, UndisturbedStep
<1> QED  BY <1>2, <1>3, <1>4, <1>5 DEF IInv

\* In every reachable state, callers, requests, sessions and the local copies
\* fit together, the files of a path and those to come are counted, and a
\* caller whom nobody disturbs knows what is there
\* (google_drive.py:309-492, drive_api.py:114-260).
THEOREM FileInvariant == Spec => []IInv
<1> QED  BY InitInv, NextInv, PTL DEF Spec

\* What tasks, requests and sessions name exists in every reachable state.
THEOREM FileTypes == Spec => []TypeOK
<1>1. IInv => TypeOK  BY DEF IInv, CallsFit
<1> QED  BY <1>1, FileInvariant, PTL

\* A destination never holds part of a file, and a .part file belongs to a
\* download under way (google_drive.py:366-384).
THEOREM LocalCopies == Spec => []LocalCopyIntact
<1>1. IInv => LocalCopyIntact  BY DEF IInv, CallsFit
<1> QED  BY <1>1, FileInvariant, PTL

\* Where no operation copies or moves, any number of callers that upload,
\* download, look up and delete leave at most one file of a name for each
\* caller and one for each answer lost (google_drive.py:317-331).
THEOREM UploadsTakeNames ==
  ASSUME NothingMoves
  PROVE  Spec => []NamesTaken
<1>1. IInv => NamesTaken
  <2> SUFFICES ASSUME IInv, NEW p \in Places
               PROVE  Cardinality(At(p)) =< Cardinality(Tasks) + lost
    BY DEF NamesTaken
  <2>1. /\ Cardinality(At(p)) \in Nat /\ Cardinality(Pending(p)) \in Nat
        /\ Cardinality(Uploaders(p)) \in Nat /\ Cardinality(Tasks) \in Nat
    BY Countable DEF IInv
  <2>2. Cardinality(At(p)) + Cardinality(Pending(p)) + Cardinality(Uploaders(p))
          =< Cardinality(Tasks) + lost
    BY DEF IInv, NamesCounted
  <2> QED  BY <2>1, <2>2, FitsServer, Held DEF IInv
<1> QED  BY <1>1, FileInvariant, PTL

\* The upload of a caller who is alone, and among whose operations none but
\* uploads change anything, returns when its content is at its path, or has
\* been overtaken by a PUT given up earlier (google_drive.py:309-351).
THEOREM UploadsAreVisible ==
  ASSUME Alone, TransfersOnly
  PROVE  Spec => UploadIsVisible
<1>1. IInv /\ [Next]_vars =>
        [\A t \in Tasks :
           (pc[t] = "put" /\ pc'[t] = "done" /\ ~Overtaken(t)) =>
             \E f \in Files : file'[f] = NewFile(call[t].place, call[t].content)]_vars
  BY UploadLands DEF IInv
<1> QED  BY <1>1, FileInvariant, PTL DEF Spec, UploadIsVisible

\* A caller who is alone, and none of whose answers is lost, never trashes a
\* file outside the scratch folder (google_drive.py:7-8, 455-459).  The run
\* files_trashed shows that two callers may.
THEOREM AloneTrashesScratch ==
  ASSUME Alone, MaxLost = 0
  PROVE  Spec => OnlyScratchIsTrashed
<1>1. IInv /\ [Next]_vars =>
        [\A f \in Known :
           (file[f].state = "live" /\ file'[f].state = "trashed")
             => file[f].place \in Scratch]_vars
  <2> SUFFICES ASSUME IInv, [Next]_vars, NEW f \in Known,
                      file[f].state = "live", file'[f].state = "trashed"
               PROVE  file[f].place \in Scratch
    OBVIOUS
  <2>1. lost = 0
    BY DEF IInv, CallsFit, TypeOK, ServerOK
  <2> QED  BY <2>1, TrashInScratch DEF IInv
<1> QED  BY <1>1, FileInvariant, PTL DEF Spec, OnlyScratchIsTrashed

-----------------------------------------------------------------------------
(* The operations of such a caller are those of FileStore *)

shelf == [p \in Places |-> Shelf(p)]
outcome == [t \in Tasks |-> IF pc[t] \in Resting THEN pc[t] ELSE "busy"]

LEMMA CopiesCounted ==
  ASSUME CallsFit, FewRequests, NEW p, NEW c
  PROVE  IsFiniteSet(Copies(p, c)) /\ Cardinality(Copies(p, c)) \in Nat
<1>1. Copies(p, c) \in SUBSET Known
  BY DEF Copies, At
<1> QED  BY <1>1, SubsetCount DEF FewRequests

\* What is at a path is in stock there.
LEMMA InStock ==
  ASSUME CallsFit, FewRequests, NEW p \in Places
  PROVE  /\ \A f \in At(p) : file[f].content \in Store!Stock(p)
         /\ At(p) = {} => Store!Stock(p) = {}
<1>1. Store!Stock(p) = {c \in Contents : Cardinality(Copies(p, c)) > 0}
  BY DEF Store!Stock, Shelf
<1>2. ASSUME NEW f \in At(p) PROVE file[f].content \in Store!Stock(p)
  <2>1. file[f].content \in Contents
    BY FitsServer, Held DEF At, Known, FileType
  <2>2. f \in Copies(p, file[f].content)
    BY DEF Copies
  <2>3. Cardinality(Copies(p, file[f].content)) # 0
    BY <2>2, CopiesCounted, FS_EmptySet
  <2> QED  BY <1>1, <2>1, <2>3, CopiesCounted
<1>3. ASSUME At(p) = {} PROVE Store!Stock(p) = {}
  <2>1. \A c : Copies(p, c) = {}
    BY <1>3 DEF Copies
  <2>2. Cardinality({}) = 0
    BY FS_EmptySet
  <2> QED  BY <1>1, <2>1, <2>2
<1> QED  BY <1>2, <1>3

\* One file changes: it leaves the copies it was one of, and joins those it is
\* one of now.
LEMMA OneFile ==
  ASSUME CallsFit, FewRequests, NEW f \in Files, NEW r \in FileType,
         file' = [file EXCEPT ![f] = r], NEW p, NEW c
  PROVE  /\ f \in Copies(p, c)' <=> r.state = "live" /\ r.place = p /\ r.content = c
         /\ Cardinality(Copies(p, c)') =
              Cardinality(Copies(p, c) \ {f}) + (IF f \in Copies(p, c)' THEN 1 ELSE 0)
         /\ Cardinality(Copies(p, c)) =
              Cardinality(Copies(p, c) \ {f}) + (IF f \in Copies(p, c) THEN 1 ELSE 0)
         /\ Cardinality(Copies(p, c) \ {f}) \in Nat
<1> DEFINE Others == Copies(p, c) \ {f}
<1>1. f \in Copies(p, c)' <=> r.state = "live" /\ r.place = p /\ r.content = c
  BY FitsServer, Held DEF Copies, At, Known
<1>2. IsFiniteSet(Others) /\ Cardinality(Others) \in Nat
  <2>1. Others \in SUBSET Copies(p, c)
    OBVIOUS
  <2> QED  BY <2>1, CopiesCounted, SubsetCount
<1>3. \A g : g # f => (g \in Copies(p, c)' <=> g \in Others)
  BY FitsServer, Held DEF Copies, At, Known
<1>4. /\ f \in Copies(p, c)' => Copies(p, c)' = Others \union {f}
      /\ f \notin Copies(p, c)' => Copies(p, c)' = Others
  BY <1>3
<1>5. /\ f \in Copies(p, c) => Copies(p, c) = Others \union {f}
      /\ f \notin Copies(p, c) => Copies(p, c) = Others
  OBVIOUS
<1>6. Cardinality(Others \union {f}) = Cardinality(Others) + 1
  BY <1>2, FS_AddElement
<1> HIDE DEF Others
<1>7. Cardinality(Copies(p, c)') =
        Cardinality(Others) + (IF f \in Copies(p, c)' THEN 1 ELSE 0)
  BY <1>2, <1>4, <1>6
<1>8. Cardinality(Copies(p, c)) =
        Cardinality(Others) + (IF f \in Copies(p, c) THEN 1 ELSE 0)
  BY <1>2, <1>5, <1>6
<1> QED  BY <1>1, <1>2, <1>7, <1>8 DEF Others

\* A new file.
LEMMA ShelfWith ==
  ASSUME CallsFit, FewRequests, NEW f \in Files \ Known, NEW p0 \in Places, NEW c0 \in Contents,
         file' = [file EXCEPT ![f] = NewFile(p0, c0)]
  PROVE  shelf' = Store!With(shelf, p0, c0)
<1> DEFINE r == NewFile(p0, c0)
<1>1. r \in FileType /\ r.state = "live" /\ r.place = p0 /\ r.content = c0
  BY DEF NewFile, FileType
<1>2. file' = [file EXCEPT ![f] = r]
  OBVIOUS
<1> HIDE DEF r
<1>3. ASSUME NEW p \in Places, NEW c \in Contents
      PROVE  Cardinality(Copies(p, c)') =
               IF p = p0 /\ c = c0 THEN Cardinality(Copies(p, c)) + 1
               ELSE Cardinality(Copies(p, c))
  <2>1. f \notin Copies(p, c)
    BY DEF Copies, At
  <2> DEFINE now == Cardinality(Copies(p, c)')
             before == Cardinality(Copies(p, c))
             others == Cardinality(Copies(p, c) \ {f})
  <2>2. /\ f \in Copies(p, c)' <=> r.state = "live" /\ r.place = p /\ r.content = c
        /\ now = others + (IF f \in Copies(p, c)' THEN 1 ELSE 0)
        /\ before = others + (IF f \in Copies(p, c) THEN 1 ELSE 0)
        /\ others \in Nat
    BY <1>1, <1>2, OneFile
  <2> QED  BY <1>1, <2>1, <2>2
<1> QED  BY <1>3 DEF shelf, Shelf, Store!With

\* A file that was there is no longer.
LEMMA ShelfWithout ==
  ASSUME CallsFit, FewRequests, NEW p0 \in Places, NEW f \in At(p0), NEW r \in FileType,
         file' = [file EXCEPT ![f] = r], r.state # "live"
  PROVE  shelf' = Store!Without(shelf, p0, file[f].content)
<1>1. f \in Files
  BY DEF At, Known
<1>2. ASSUME NEW p \in Places, NEW c \in Contents
      PROVE  Cardinality(Copies(p, c)') =
               IF p = p0 /\ c = file[f].content THEN Cardinality(Copies(p, c)) - 1
               ELSE Cardinality(Copies(p, c))
  <2>1. f \in Copies(p, c) <=> p = p0 /\ c = file[f].content
    BY DEF Copies, At
  <2> DEFINE now == Cardinality(Copies(p, c)')
             before == Cardinality(Copies(p, c))
             others == Cardinality(Copies(p, c) \ {f})
  <2>2. /\ f \in Copies(p, c)' <=> r.state = "live" /\ r.place = p /\ r.content = c
        /\ now = others + (IF f \in Copies(p, c)' THEN 1 ELSE 0)
        /\ before = others + (IF f \in Copies(p, c) THEN 1 ELSE 0)
        /\ others \in Nat
    BY <1>1, OneFile
  <2>3. f \notin Copies(p, c)'
    BY <2>2
  <2> QED  BY <2>1, <2>2, <2>3
<1> QED  BY <1>2 DEF shelf, Shelf, Store!Without

\* A file that was there is of another place or another content.
LEMMA ShelfBoth ==
  ASSUME CallsFit, FewRequests, NEW p0 \in Places, NEW f \in At(p0), NEW r \in FileType,
         file' = [file EXCEPT ![f] = r], r.state = "live"
  PROVE  shelf' = Store!With(Store!Without(shelf, p0, file[f].content), r.place, r.content)
<1>1. f \in Files /\ r.place \in Places /\ r.content \in Contents
  BY DEF At, Known, FileType
<1> DEFINE n == Store!Without(shelf, p0, file[f].content)
<1>2. n = [p \in Places |-> [c \in Contents |-> n[p][c]]]
  BY DEF shelf, Shelf, Store!Without
<1>3. ASSUME NEW p \in Places, NEW c \in Contents
      PROVE  n[p][c] = IF p = p0 /\ c = file[f].content THEN Cardinality(Copies(p, c)) - 1
                       ELSE Cardinality(Copies(p, c))
  BY <1>3 DEF shelf, Shelf, Store!Without
<1> HIDE DEF n
<1>4. ASSUME NEW p \in Places, NEW c \in Contents
      PROVE  Cardinality(Copies(p, c)') =
               IF p = r.place /\ c = r.content THEN n[p][c] + 1 ELSE n[p][c]
  <2>1. f \in Copies(p, c) <=> p = p0 /\ c = file[f].content
    BY DEF Copies, At
  <2> DEFINE now == Cardinality(Copies(p, c)')
             before == Cardinality(Copies(p, c))
             others == Cardinality(Copies(p, c) \ {f})
  <2>2. /\ f \in Copies(p, c)' <=> r.state = "live" /\ r.place = p /\ r.content = c
        /\ now = others + (IF f \in Copies(p, c)' THEN 1 ELSE 0)
        /\ before = others + (IF f \in Copies(p, c) THEN 1 ELSE 0)
        /\ others \in Nat
    BY <1>1, OneFile
  <2>3. n[p][c] = others
    BY <1>3, <1>4, <2>1, <2>2
  <2> QED  BY <2>2, <2>3
<1>5. shelf' = [p \in Places |-> [c \in Contents |->
                  IF p = r.place /\ c = r.content THEN n[p][c] + 1 ELSE n[p][c]]]
  BY <1>4 DEF shelf, Shelf
<1>6. shelf' = Store!With(n, r.place, r.content)
  BY <1>1, <1>2, <1>5 DEF Store!With
<1> QED  BY <1>6 DEF n

\* The task of a lone caller as FileStore sees it.
LEMMA OutcomeParts ==
  ASSUME CallsFit, Alone, NEW t \in Tasks
  PROVE  /\ pc[t] \notin Resting => outcome[t] = "busy"
         /\ pc[t] \in Resting => outcome[t] = pc[t] /\ outcome[t] # "busy"
         /\ \A s \in Resting : pc' = [pc EXCEPT ![t] = s] =>
              outcome' = [outcome EXCEPT ![t] = s]
         /\ \A s : pc[t] \notin Resting /\ s \notin Resting /\ pc' = [pc EXCEPT ![t] = s] =>
              outcome' = outcome
         /\ \A s : s \notin Resting /\ pc' = [pc EXCEPT ![t] = s] =>
              outcome' = [outcome EXCEPT ![t] = "busy"]
BY DEF outcome, Resting, CallsFit, TypeOK

LEMMA ShelfSame == UNCHANGED file => shelf' = shelf
BY DEF shelf, Shelf, Copies, At, Known

\* An operation raises.
LEMMA MapRaise ==
  ASSUME CallsFit, Alone, NEW t \in Tasks, pc[t] \notin Resting, End(t, "failed"),
         UNCHANGED <<file, disk>>
  PROVE  Store!Raise(t)
<1>1. /\ outcome[t] = "busy" /\ outcome' = [outcome EXCEPT ![t] = "failed"]
      /\ call' = [call EXCEPT ![t] = None]
  BY OutcomeParts DEF End, Resting
<1> QED  BY <1>1, ShelfSame DEF Store!Raise, outcome, shelf

LEMMA MapBegin ==
  ASSUME CallsFit, Alone, NEW t \in Tasks, Begin(t)
  PROVE  Store!Ask(t)
<1>1. PICK c \in Calls : /\ pc[t] \in Resting
                         /\ call' = [call EXCEPT ![t] = c]
                         /\ pc' = [pc EXCEPT ![t] = "find"]
  BY DEF Begin
<1>2. UNCHANGED <<file, disk>>
  BY DEF Begin, server, local
<1>3. outcome[t] # "busy" /\ outcome' = [outcome EXCEPT ![t] = "busy"]
  BY <1>1, OutcomeParts DEF Resting
<1> QED  BY <1>1, <1>2, <1>3, ShelfSame DEF Store!Ask, outcome, shelf

\* What a step between the calls of an operation leaves as it was.
LEMMA MapStutter ==
  ASSUME CallsFit, Alone, NEW t \in Tasks, pc[t] \notin Resting,
         NEW s, s \notin Resting, pc' = [pc EXCEPT ![t] = s],
         UNCHANGED <<call, file, disk>>
  PROVE  UNCHANGED Store!storeVars
<1>1. outcome' = outcome
  BY OutcomeParts
<1> QED  BY <1>1, ShelfSame DEF Store!storeVars, outcome, shelf

LEMMA MapFind ==
  ASSUME CallsFit, Alone, NEW t \in Tasks, Find(t)
  PROVE  Store!Next \/ UNCHANGED Store!storeVars
<1>1. pc[t] = "find" /\ pc[t] \notin Resting /\ UNCHANGED <<file, disk>>
  BY DEF Find, Resting, server, local
<1>2. CASE call[t].op = "lookup" /\ End(t, "done")
  <2>1. /\ outcome[t] = "busy" /\ outcome' = [outcome EXCEPT ![t] = "done"]
        /\ call' = [call EXCEPT ![t] = None]
    BY <1>1, <1>2, OutcomeParts DEF End, Resting
  <2>2. Store!Return(t)
    BY <1>1, <1>2, <2>1, ShelfSame DEF Store!Return, Store!Lookup, outcome, shelf
  <2> QED  BY <2>2 DEF Store!Next
<1>3. CASE End(t, "failed")
  BY <1>1, <1>3, MapRaise DEF Store!Next
<1>4. CASE call[t].op # "lookup" /\ Goto(t, NextCall(call[t].op))
  <2>1. NextCall(call[t].op) \notin Resting
    BY DEF NextCall, Resting
  <2> QED  BY <1>1, <1>4, <2>1, MapStutter DEF Goto
<1> QED  BY <1>2, <1>3, <1>4 DEF Find

LEMMA MapRetry ==
  ASSUME CallsFit, Alone, NEW t \in Tasks,
         Initiate(t) \/ Open(t) \/ Transient(t) \/ Refused(t) \/ BreakOff(t)
  PROVE  Store!Next \/ UNCHANGED Store!storeVars
<1>1. pc[t] \notin Resting /\ UNCHANGED <<file, disk>>
  BY DEF Initiate, Open, Transient, Refused, BreakOff, Changing, Resting, server, local
<1>2. CASE End(t, "failed")
  BY <1>1, <1>2, MapRaise DEF Store!Next
<1>3. CASE UNCHANGED <<pc, call>>
  BY <1>1, <1>3, ShelfSame DEF Store!storeVars, outcome, shelf
<1>4. CASE Initiate(t) \/ Open(t)
  <2>1. PICK s \in {"put", "stream"} : pc' = [pc EXCEPT ![t] = s] /\ call' = call
    BY <1>4 DEF Initiate, Open, Goto
  <2>2. s \notin Resting
    BY DEF Resting
  <2> QED  BY <1>1, <2>1, <2>2, MapStutter
<1> QED  BY <1>2, <1>3, <1>4 DEF Transient, Refused, BreakOff, RetryOrFail

LEMMA MapComplete ==
  ASSUME CallsFit, FewRequests, Undisturbed, Alone, lost = 0, NEW t \in Tasks, Complete(t)
  PROVE  Store!Return(t)
<1>1. /\ pc[t] = "stream" /\ call[t] \in Calls /\ call[t].op = "download"
      /\ call[t].place \in Places
  BY CallFields DEF Complete, CallsFit, TypeOK, TaskOK, Resting
<1>2. PICK f \in At(call[t].place) : part[t] = file[f].content
  BY <1>1 DEF Undisturbed
<1>3. disk' \in Store!Stock(call[t].place)
  BY <1>1, <1>2, InStock DEF Complete
<1>4. UNCHANGED file
  BY DEF Complete, server
<1>5. Store!Download(call[t])
  BY <1>1, <1>3, <1>4, ShelfSame DEF Store!Download, shelf
<1>6. /\ outcome[t] = "busy" /\ outcome' = [outcome EXCEPT ![t] = "done"]
      /\ call' = [call EXCEPT ![t] = None]
  BY <1>1, OutcomeParts DEF Complete, End, Resting
<1> QED  BY <1>5, <1>6 DEF Store!Return, outcome

\* The request that is answered is the effect of its operation.
LEMMA MapEffect ==
  ASSUME CallsFit, CallsOK, FewRequests, Undisturbed, Alone, lost = 0,
         NEW t \in Tasks, pc[t] \in Changing, Apply(Request(t)), UNCHANGED disk
  PROVE  \/ Store!Upload(call[t]) \/ Store!Delete(call[t])
         \/ Store!Copy(call[t]) \/ Store!Move(call[t])
<1> DEFINE q == Request(t)
           p == call[t].place
<1>1. /\ q.op = call[t].op /\ q.file = found[t] /\ q.content = call[t].content
      /\ q.dst = call[t].dst /\ RequestOK(q) /\ Apply(q)
      /\ call[t] \in Calls /\ p \in Places
  BY CallFields DEF Request, CallsFit, TypeOK, TaskOK, Changing, Resting
<1> HIDE DEF q
<1>2. CASE pc[t] = "put"
  <2>1. /\ q.op = "upload" /\ q.file \in 1..Len(sessions) /\ q.content \in Contents
        /\ sessions[q.file].place = p /\ sessions[q.file].made = None
    BY <1>1, <1>2 DEF CallsOK, RequestOK, Undisturbed
  <2>2. CASE sessions[q.file].target = None
    <3>1. At(p) = {}
      BY <1>1, <1>2, <2>2 DEF Undisturbed
    <3>2. Store!Stock(p) = {}
      BY <1>1, <3>1, InStock
    <3>3. NewContent(q)
      BY <1>1, <2>1, <2>2, FitsServer, ApplyHow, FileAssumption DEF Overwrites, Changes, Known
    <3>4. PICK f \in Files \ Known : file' = [file EXCEPT ![f] = NewFile(p, q.content)]
      BY <1>1, <2>1, <3>3, FitsServer, NewContentParts
    <3>5. shelf' = Store!With(shelf, p, q.content)
      BY <1>1, <2>1, <3>4, ShelfWith
    <3> QED  BY <1>1, <2>1, <3>2, <3>5 DEF Store!Upload, shelf
  <2>3. CASE sessions[q.file].target # None
    <3>1. sessions[q.file].target \in At(p)
      BY <1>1, <1>2, <2>3 DEF Undisturbed
    <3>2. Overwrites(q)
      BY <1>1, <2>1, <2>3, FitsServer, ApplyHow DEF NewContent, Changes
    <3>3. PICK g \in Known :
            /\ g = sessions[q.file].target
            /\ file[g] \in FileType
            /\ file'[g].content = q.content /\ file'[g].state = file[g].state
            /\ file'[g].place = [file[g].place EXCEPT !.name = sessions[q.file].place.name]
            /\ file'[g] \in FileType
            /\ \A f \in Files \ {g} : file'[f] = file[f]
      BY <1>1, <3>2, FitsServer, OverwritesParts
    <3>4. g \in At(p) /\ file[g].state = "live" /\ file[g].place = p
      BY <3>1, <3>3 DEF At
    <3>5. file'[g].place = p
      BY <2>1, <3>3, <3>4 DEF FileType, Places
    <3>6. file' = [file EXCEPT ![g] = file'[g]]
      <4>1. file' = [f \in Files |-> file'[f]]
        BY <1>1, ApplyOK DEF CallsFit, TypeOK
      <4> QED  BY <3>3, <4>1, FitsServer, Held DEF Known
    <3>7. shelf' = Store!With(Store!Without(shelf, p, file[g].content), p, q.content)
      BY <1>1, <3>3, <3>4, <3>5, <3>6, ShelfBoth
    <3>8. file[g].content \in Store!Stock(p)
      BY <1>1, <3>4, InStock
    <3> QED  BY <1>1, <2>1, <3>7, <3>8 DEF Store!Upload, shelf
  <2> QED  BY <2>2, <2>3
<1>3. CASE pc[t] = "change"
  <2>1. q.op # "upload" /\ q.file \in At(p) /\ Permitted(call[t])
    BY <1>1, <1>3 DEF CallsOK, Undisturbed, Resting
  <2>2. Changes(q)
    BY <1>1, <2>1, FitsServer, ApplyHow DEF NewContent, Overwrites
  <2> DEFINE c == file[q.file].content
  <2>3. /\ c \in Store!Stock(p) /\ c \in Contents
        /\ q.file \in Files /\ file[q.file] \in FileType
        /\ file[q.file].state = "live" /\ file[q.file].place = p
    BY <1>1, <2>1, InStock, FitsServer, Held DEF At, Known, FileType
  <2>4. CASE q.op \in {"trash", "purge"}
    <3> DEFINE s == IF q.op = "trash" THEN "trashed" ELSE "purged"
               r == [file[q.file] EXCEPT !.state = s]
    <3>1. file' = [file EXCEPT ![q.file] = r]
      BY <1>1, <2>2, <2>4, ChangesParts
    <3>2. r \in FileType /\ r.state # "live"
      BY <2>3 DEF FileType
    <3>3. shelf' = Store!Without(shelf, p, c)
      BY <1>1, <2>1, <3>1, <3>2, ShelfWithout
    <3> QED  BY <1>1, <2>1, <2>3, <2>4, <3>3 DEF Store!Delete, Permitted, shelf
  <2>5. CASE q.op = "move"
    <3> DEFINE r == [file[q.file] EXCEPT !.place = q.dst]
    <3>1. file' = [file EXCEPT ![q.file] = r]
      BY <1>1, <2>2, <2>5, ChangesParts
    <3>2. /\ r \in FileType /\ r.state = "live" /\ r.place = q.dst /\ r.content = c
      BY <1>1, <2>3, <2>5 DEF FileType, RequestOK
    <3>3. shelf' = Store!With(Store!Without(shelf, p, c), q.dst, c)
      <4> HIDE DEF r
      <4> QED  BY <1>1, <2>1, <3>1, <3>2, ShelfBoth
    <3> QED  BY <1>1, <2>3, <2>5, <3>3 DEF Store!Move, shelf
  <2>6. CASE q.op = "copy"
    <3>1. PICK f \in Files \ Known : file' = [file EXCEPT ![f] = NewFile(q.dst, c)]
      BY <1>1, <2>2, <2>6, ChangesParts
    <3>2. shelf' = Store!With(shelf, q.dst, c)
      BY <1>1, <2>3, <2>6, <3>1, ShelfWith DEF RequestOK
    <3> QED  BY <1>1, <2>3, <2>6, <3>2 DEF Store!Copy, shelf
  <2> QED  BY <2>2, <2>4, <2>5, <2>6 DEF Changes
<1> QED  BY <1>2, <1>3 DEF Changing

LEMMA MapAnswered ==
  ASSUME CallsFit, CallsOK, FewRequests, Undisturbed, Alone, lost = 0,
         NEW t \in Tasks, Answered(t)
  PROVE  Store!Return(t)
<1>1. /\ pc[t] \in Changing /\ pc[t] \notin Resting /\ Apply(Request(t)) /\ disk' = disk
      /\ End(t, "done")
  BY DEF Answered, local, Changing, Resting
<1>2. /\ outcome[t] = "busy" /\ outcome' = [outcome EXCEPT ![t] = "done"]
      /\ call' = [call EXCEPT ![t] = None]
  BY <1>1, OutcomeParts DEF End, Resting
<1>3. \/ Store!Upload(call[t]) \/ Store!Delete(call[t])
      \/ Store!Copy(call[t]) \/ Store!Move(call[t])
  BY <1>1, MapEffect
<1> QED  BY <1>2, <1>3 DEF Store!Return, outcome

LEMMA MapInit == Init => Store!Init
<1> SUFFICES ASSUME Init PROVE Store!Init
  OBVIOUS
<1>1. \A p, c : Copies(p, c) = {}
  BY DEF Init, Copies, At, Known
<1>2. Cardinality({}) = 0
  BY FS_EmptySet
<1> QED  BY <1>1, <1>2 DEF Init, Store!Init, Shelf, Resting

LEMMA MapNext ==
  ASSUME Alone, MaxLost = 0
  PROVE  IInv /\ [Next]_vars => [Store!Next]_Store!storeVars
<1> SUFFICES ASSUME IInv, [Next]_vars
             PROVE  Store!Next \/ UNCHANGED Store!storeVars
  OBVIOUS
<1>1. /\ CallsFit /\ CallsOK /\ FewRequests /\ Undisturbed /\ lost = 0
      /\ \A t \in Tasks : ~ GiveUp(t)
  BY DEF IInv, CallsFit, TypeOK, ServerOK, GiveUp
<1>2. ASSUME NEW t \in Tasks, Begin(t) PROVE Store!Next
  BY <1>1, <1>2, MapBegin DEF Store!Next
<1>3. ASSUME NEW t \in Tasks,
             \/ Find(t) \/ Initiate(t) \/ Open(t) \/ Transient(t) \/ Refused(t)
             \/ BreakOff(t)
      PROVE  Store!Next \/ UNCHANGED Store!storeVars
  BY <1>1, <1>3, MapFind, MapRetry
<1>4. ASSUME NEW t \in Tasks, Answered(t) \/ Complete(t)
      PROVE  Store!Next
  BY <1>1, <1>4, MapAnswered, MapComplete DEF Store!Next
<1>5. \A t \in Tasks : ~ TimesOut(t)
  BY <1>1 DEF TimesOut
<1>6. ~ ApplyLate
  BY <1>1, NothingLate DEF ApplyLate
<1>7. CASE Crash
  <2>1. UNCHANGED <<file, disk>>
    BY <1>1, <1>7 DEF Crash, server
  <2>2. Store!Die
    BY <1>7, <2>1, ShelfSame DEF Crash, Store!Die, Resting, shelf
  <2> QED  BY <2>2 DEF Store!Next
<1>8. CASE UNCHANGED vars
  BY <1>8, ShelfSame DEF vars, Store!storeVars, shelf
<1> QED  BY <1>2, <1>3, <1>4, <1>5, <1>6, <1>7, <1>8 DEF Next

\* For a caller who is alone, and none of whose answers is lost, each operation
\* of the provider, whatever its requests, retries and a death between them,
\* is one atomic operation on how often each content is at each path, or has
\* no effect (google_drive.py:309-492).
THEOREM AloneImplementsStore ==
  ASSUME Alone, MaxLost = 0
  PROVE  Spec => ImplementsFileStore
<1> QED
  BY FileInvariant, MapInit, MapNext, PTL DEF Spec, Store!Spec, ImplementsFileStore
=============================================================================
