---------------------------- MODULE DriveSyncProofs ----------------------------
(***************************************************************************)
(* Proofs about DriveSync, for any directory and any number of tasks       *)
(* beside a sync().  However its lookups and uploads end, its report names *)
(* every file it listed, once.  Where the other tasks only transfer files, *)
(* what it reports is in Drive until somebody touches it.  Each step of a  *)
(* sync() leaves it fewer attempts.                                        *)
(***************************************************************************)
EXTENDS DriveSyncProperties, DriveFilesProofs

Reported == [uploaded : SUBSET Places, skipped : SUBSET Places,
             failed : SUBSET Places, gone : SUBSET Places]

LEMMA ReportInit == SyncInit => ReportFits
BY SyncAssumption
   DEF SyncInit, ReportFits, SyncTypeOK, FilesAccounted, ReportIsComplete, Current, Named,
       EmptyReport

\* The history of what others touched stays a set of places.
LEMMA TouchedType ==
  ASSUME SyncTypeOK, NEW own, OthersTouch(own)
  PROVE  touched' \in [Syncers -> SUBSET Places]
BY DEF SyncTypeOK, OthersTouch

\* A report that gets one more file.
LEMMA ReportsOne ==
  ASSUME ReportFits, NEW s \in Syncers, NEW p \in Places,
         NEW list \in {"uploaded", "skipped", "failed", "gone"},
         report' = [report EXCEPT ![s][list] = @ \union {p}],
         stage' = [stage EXCEPT ![s] = "next"],
         UNCHANGED listed,
         \A q \in Syncers \ {s} : current'[q] = current[q],
         \/ /\ p \in todo[s] /\ Current(s) = {}
            /\ todo' = [todo EXCEPT ![s] = @ \ {p}]
         \/ /\ Current(s) = {p} /\ UNCHANGED todo
  PROVE  report' \in [Syncers -> Reported] /\ FilesAccounted' /\ ReportIsComplete'
<1> USE DEF ReportFits, SyncTypeOK, Reported
<1>1. report' \in [Syncers -> Reported]
  <2>1. report \in [Syncers -> Reported]
    OBVIOUS
  <2> HIDE DEF ReportFits, SyncTypeOK
  <2>2. [report[s] EXCEPT ![list] = @ \union {p}] \in Reported
    <3>1. CASE list = "uploaded"
      BY <2>1, <3>1
    <3>2. CASE list = "skipped"
      BY <2>1, <3>2
    <3>3. CASE list = "failed"
      BY <2>1, <3>3
    <3>4. CASE list = "gone"
      BY <2>1, <3>4
    <3> QED  BY <3>1, <3>2, <3>3, <3>4
  <2> HIDE DEF Reported
  <2> QED  BY <2>1, <2>2
<1>2. \A q \in Syncers \ {s} : /\ report'[q] = report[q] /\ stage'[q] = stage[q]
                               /\ todo'[q] = todo[q]
  <2>1. \A q \in Syncers \ {s} : report'[q] = report[q] /\ stage'[q] = stage[q]
    OBVIOUS
  <2>2. \A q \in Syncers \ {s} : todo'[q] = todo[q]
    OBVIOUS
  <2> QED  BY <2>1, <2>2
<1>3. /\ stage'[s] = "next" /\ Current(s)' = {}
      /\ report'[s] = [report[s] EXCEPT ![list] = @ \union {p}]
      /\ todo'[s] = todo[s] \ {p}
  BY DEF Current, FilesAccounted
<1>4. FilesAccounted'
  <2>1. ASSUME NEW q \in Syncers \ {s}
        PROVE  /\ Current(q)' = Current(q) /\ Named(q)' = Named(q)
    BY <1>2, <2>1 DEF Current, Named
  <2>2. Named(s)' \union report'[s].gone = Named(s) \union report[s].gone \union {p}
    <3>1. CASE list = "uploaded"
      BY <1>3, <3>1 DEF Named
    <3>2. CASE list = "skipped"
      BY <1>3, <3>2 DEF Named
    <3>3. CASE list = "failed"
      BY <1>3, <3>3 DEF Named
    <3>4. CASE list = "gone"
      BY <1>3, <3>4 DEF Named
    <3> QED  BY <3>1, <3>2, <3>3, <3>4
  <2> QED  BY <1>2, <1>3, <2>1, <2>2 DEF FilesAccounted
<1>5. ReportIsComplete'
  <2>1. /\ report[s].uploaded \intersect report[s].skipped = {}
        /\ report[s].failed \intersect (report[s].uploaded \union report[s].skipped) = {}
        /\ report[s].gone \intersect Named(s) = {}
        /\ p \notin Named(s) \union report[s].gone
    BY DEF ReportIsComplete, FilesAccounted
  <2>2. /\ report'[s].uploaded \intersect report'[s].skipped = {}
        /\ report'[s].failed \intersect (report'[s].uploaded \union report'[s].skipped) = {}
        /\ report'[s].gone \intersect Named(s)' = {}
    BY <1>3, <2>1 DEF Named
  <2>3. ASSUME NEW q \in Syncers \ {s}
        PROVE  Named(q)' = Named(q) /\ report'[q] = report[q] /\ stage'[q] = stage[q]
    BY <1>2, <2>3 DEF Named
  <2> QED  BY <1>3, <2>2, <2>3 DEF ReportIsComplete
<1> QED  BY <1>1, <1>4, <1>5

\* Steps that leave the lists alone, and what is under way.
LEMMA ReportsNone ==
  ASSUME ReportFits, NEW s \in Syncers,
         UNCHANGED <<report, listed>>,
         \A q \in Syncers \ {s} : stage'[q] = stage[q] /\ todo'[q] = todo[q]
                                 /\ current'[q] = current[q],
         \/ /\ stage[s] = "next" /\ stage'[s] \in {"returned", "aborted"}
            /\ stage'[s] = "returned" => todo[s] = {}
            /\ todo'[s] = todo[s]
         \/ /\ stage[s] = "next" /\ stage'[s] = "lookup"
            /\ current'[s] \in todo[s] /\ todo'[s] = todo[s] \ {current'[s]}
         \/ /\ stage[s] \in {"lookup", "upload"} /\ stage'[s] \in {"lookup", "upload"}
            /\ current'[s] = current[s] /\ todo'[s] = todo[s]
  PROVE  FilesAccounted' /\ ReportIsComplete'
<1> USE DEF ReportFits, SyncTypeOK
<1>1. \A q \in Syncers : Named(q)' = Named(q)
  BY DEF Named
<1>2. \A q \in Syncers \ {s} : Current(q)' = Current(q)
  BY DEF Current
<1>3. FilesAccounted'
  BY <1>1, <1>2 DEF FilesAccounted, Current
<1>4. ReportIsComplete'
  <2>1. stage'[s] = "returned" => Named(s) \union report[s].gone = listed[s]
    BY DEF FilesAccounted, Current
  <2> QED  BY <1>1, <2>1 DEF ReportIsComplete
<1> QED  BY <1>3, <1>4

LEMMA ReportBegins == ASSUME ReportFits, NEW s \in Syncers, SyncBegins(s) PROVE ReportFits'
<1> USE DEF ReportFits
<1>1. SyncTypeOK'
  BY DEF SyncBegins, SyncTypeOK, EmptyReport
<1>2. \A q \in Syncers \ {s} : Named(q)' = Named(q) /\ Current(q)' = Current(q)
  BY DEF SyncBegins, SyncTypeOK, Named, Current
<1>3. /\ Named(s)' = {} /\ report'[s].gone = {} /\ Current(s)' = {}
      /\ todo'[s] = listed'[s] /\ stage'[s] = "next"
      /\ report'[s].uploaded = {} /\ report'[s].skipped = {} /\ report'[s].failed = {}
  BY DEF SyncBegins, SyncTypeOK, EmptyReport, Named, Current
<1>4. \A q \in Syncers \ {s} : /\ report'[q] = report[q] /\ stage'[q] = stage[q]
                               /\ todo'[q] = todo[q] /\ listed'[q] = listed[q]
  BY DEF SyncBegins, SyncTypeOK
<1>5. FilesAccounted'
  BY <1>2, <1>3, <1>4 DEF FilesAccounted
<1>6. ReportIsComplete'
  BY <1>2, <1>3, <1>4 DEF ReportIsComplete
<1> QED  BY <1>1, <1>5, <1>6

LEMMA ReportTakes == ASSUME ReportFits, NEW s \in Syncers, SyncTakes(s) PROVE ReportFits'
<1> USE SyncAssumption DEF ReportFits
<1>1. PICK p \in todo[s] :
        /\ stage[s] = "next"
        /\ todo' = [todo EXCEPT ![s] = @ \ {p}]
        /\ current' = [current EXCEPT ![s] = p]
        /\ \/ Reports(s, p, "gone") /\ UNCHANGED digest
           \/ Reports(s, p, "failed") /\ UNCHANGED digest
           \/ /\ localFile[p] # None
              /\ digest' = [digest EXCEPT ![s] = localFile[p]]
              /\ stage' = [stage EXCEPT ![s] = "lookup"]
              /\ UNCHANGED report
  BY DEF SyncTakes, FileFails
<1>2. UNCHANGED <<localFile, listed, touched, edits>>
  BY DEF SyncTakes
<1>3. p \in Places /\ Current(s) = {}
  BY <1>1 DEF SyncTypeOK, Current
<1>4. CASE Reports(s, p, "gone") \/ Reports(s, p, "failed")
  <2>1. report' \in [Syncers -> Reported] /\ FilesAccounted' /\ ReportIsComplete'
    BY <1>1, <1>2, <1>3, <1>4, ReportsOne DEF Reports, SyncTypeOK
  <2> QED  BY <1>1, <1>2, <1>3, <1>4, <2>1 DEF Reports, SyncTypeOK, Reported
<1>5. CASE /\ localFile[p] # None
           /\ digest' = [digest EXCEPT ![s] = localFile[p]]
           /\ stage' = [stage EXCEPT ![s] = "lookup"]
           /\ UNCHANGED report
  <2>1. SyncTypeOK'
    BY <1>1, <1>2, <1>3, <1>5 DEF SyncTypeOK
  <2>2. FilesAccounted' /\ ReportIsComplete'
    BY <1>1, <1>2, <1>3, <1>5, ReportsNone DEF SyncTypeOK
  <2> QED  BY <2>1, <2>2
<1> QED  BY <1>1, <1>4, <1>5 DEF Reports

LEMMA ReportCompares == ASSUME ReportFits, NEW s \in Syncers, SyncCompares(s) PROVE ReportFits'
<1> USE DEF ReportFits
<1>1. /\ stage[s] = "lookup"
      /\ UNCHANGED <<localFile, listed, todo, current, digest, touched, edits>>
      /\ \/ Reports(s, current[s], "skipped") \/ Reports(s, current[s], "failed")
         \/ stage' = [stage EXCEPT ![s] = "upload"] /\ UNCHANGED report
  BY DEF SyncCompares, Skip, UploadBegins, FileFails
<1>2. Current(s) = {current[s]} /\ current[s] \in listed[s]
  BY <1>1 DEF Current, FilesAccounted
<1>3. current[s] \in Places
  BY <1>2 DEF SyncTypeOK
<1>4. CASE Reports(s, current[s], "skipped") \/ Reports(s, current[s], "failed")
  <2>1. report' \in [Syncers -> Reported] /\ FilesAccounted' /\ ReportIsComplete'
    BY <1>1, <1>2, <1>3, <1>4, ReportsOne DEF Reports, SyncTypeOK
  <2> QED  BY <1>1, <1>4, <2>1 DEF Reports, SyncTypeOK, Reported
<1>5. CASE stage' = [stage EXCEPT ![s] = "upload"] /\ UNCHANGED report
  <2>1. SyncTypeOK'
    BY <1>1, <1>5 DEF SyncTypeOK
  <2>2. FilesAccounted' /\ ReportIsComplete'
    BY <1>1, <1>5, ReportsNone DEF SyncTypeOK
  <2> QED  BY <2>1, <2>2
<1> QED  BY <1>1, <1>4, <1>5

LEMMA ReportCalls == ASSUME ReportFits, NEW s \in Syncers, SyncCalls(s) PROVE ReportFits'
<1> USE DEF ReportFits
<1>1. /\ stage[s] \in {"lookup", "upload"}
      /\ UNCHANGED <<localFile, listed, todo, current, digest, edits>>
      /\ \/ Reports(s, current[s], "uploaded") \/ Reports(s, current[s], "failed")
         \/ UNCHANGED <<report, stage>>
  BY DEF SyncCalls, Follows, FileFails
<1>2. touched' \in [Syncers -> SUBSET Places]
  BY TouchedType DEF SyncCalls
<1>3. Current(s) = {current[s]} /\ current[s] \in listed[s]
  BY <1>1 DEF Current, FilesAccounted
<1>4. current[s] \in Places
  BY <1>3 DEF SyncTypeOK
<1>5. CASE Reports(s, current[s], "uploaded") \/ Reports(s, current[s], "failed")
  <2>1. report' \in [Syncers -> Reported] /\ FilesAccounted' /\ ReportIsComplete'
    BY <1>1, <1>3, <1>4, <1>5, ReportsOne DEF Reports, SyncTypeOK
  <2> QED  BY <1>1, <1>2, <1>5, <2>1 DEF Reports, SyncTypeOK, Reported
<1>6. CASE UNCHANGED <<report, stage>>
  <2>1. SyncTypeOK'
    BY <1>1, <1>2, <1>6 DEF SyncTypeOK
  <2>2. FilesAccounted' /\ ReportIsComplete'
    BY <1>1, <1>6, ReportsNone DEF SyncTypeOK
  <2> QED  BY <2>1, <2>2
<1> QED  BY <1>1, <1>5, <1>6

LEMMA ReportEnds == ASSUME ReportFits, NEW s \in Syncers, SyncEnds(s) PROVE ReportFits'
<1>1. SyncTypeOK'
  BY DEF ReportFits, SyncEnds, SyncTypeOK
<1>2. FilesAccounted' /\ ReportIsComplete'
  BY ReportsNone DEF ReportFits, SyncEnds, SyncTypeOK
<1> QED  BY <1>1, <1>2 DEF ReportFits

\* What others do, and the death of the process.
LEMMA ReportOthers == ASSUME ReportFits, Edit \/ Others \/ Dies PROVE ReportFits'
<1> USE SyncAssumption DEF ReportFits
<1>1. CASE Edit \/ Others
  <2>1. UNCHANGED <<stage, listed, todo, current, digest, report>>
    BY <1>1 DEF Edit, Others
  <2>2. touched' \in [Syncers -> SUBSET Places]
    BY <1>1, TouchedType DEF Edit, Others
  <2>3. /\ localFile' \in [Places -> Contents \union {None}]
        /\ edits' \in 0..MaxEdits
    BY <1>1 DEF Edit, Others, SyncTypeOK
  <2>4. SyncTypeOK'
    BY <2>1, <2>2, <2>3 DEF SyncTypeOK
  <2>5. FilesAccounted' /\ ReportIsComplete'
    BY <2>1 DEF FilesAccounted, ReportIsComplete, Current, Named
  <2> QED  BY <2>4, <2>5
<1>2. CASE Dies
  <2>1. SyncTypeOK'
    BY <1>2 DEF Dies, SyncTypeOK, EmptyReport
  <2>2. FilesAccounted' /\ ReportIsComplete'
    BY <1>2 DEF Dies, FilesAccounted, ReportIsComplete, Current, Named, EmptyReport
  <2> QED  BY <2>1, <2>2
<1> QED  BY <1>1, <1>2

LEMMA ReportNext == ReportFits /\ [SyncNext]_allVars => ReportFits'
<1> SUFFICES ASSUME ReportFits, [SyncNext]_allVars PROVE ReportFits'
  OBVIOUS
<1>1. CASE UNCHANGED allVars
  BY <1>1 DEF allVars, syncVars, ReportFits, SyncTypeOK, FilesAccounted, ReportIsComplete,
              Current, Named
<1>2. CASE SyncNext
  BY <1>2, ReportBegins, ReportTakes, ReportCompares, ReportCalls, ReportEnds, ReportOthers
     DEF SyncNext, Sync
<1> QED  BY <1>1, <1>2

\* Every file listed is to come, has its turn or is in one list.
THEOREM SyncInvariant == SyncSpec => []ReportFits
<1> QED  BY ReportInit, ReportNext, PTL DEF SyncSpec

\* The report of a sync() names each file it listed once (google_drive.py:506-534).
THEOREM ReportsAreComplete == SyncSpec => []ReportIsComplete
<1>1. ReportFits => ReportIsComplete  BY DEF ReportFits
<1> QED  BY <1>1, SyncInvariant, PTL

-----------------------------------------------------------------------------
(* What is sent, where tasks transfer files and do not delete, copy or move *)
(* them                                                                     *)

\* What a task asks for, whoever it is.
LEMMA Asked ==
  ASSUME SendsFit, NEW t \in Tasks, pc[t] \notin Resting
  PROVE  /\ call[t] \in SyncRequests \union Calls
         /\ call[t].op \in {"upload", "download", "lookup"}
         /\ call[t].place \in Places
         /\ call[t].op = "upload" => call[t].content \in Contents \union {None}
         /\ call[t].op = "upload" /\ t \notin Syncers => call[t].content \in Contents
<1>1. /\ call[t] \in IF t \in Syncers THEN SyncRequests ELSE Calls
      /\ call[t].op \in {"upload", "download", "lookup"}
  BY DEF SendsFit, Sends
<1>2. CASE t \in Syncers
  BY <1>1, <1>2 DEF SyncRequests
<1>3. CASE t \notin Syncers
  BY <1>1, <1>3, CallFields
<1> QED  BY <1>2, <1>3

\* The request of a PUT whose body can be read.
LEMMA PutRequest ==
  ASSUME SendsFit, NEW t \in Tasks, pc[t] \in Changing, call[t].content # None
  PROVE  /\ pc[t] = "put"
         /\ RequestOK(Request(t)) /\ Request(t).op = "upload"
         /\ Request(t).file = found[t] /\ Request(t).content = call[t].content
         /\ sessions[found[t]].place = call[t].place
<1>1. /\ pc[t] = "put" /\ call[t].op = "upload" /\ found[t] \in 1..Len(sessions)
      /\ sessions[found[t]].place = call[t].place
  BY DEF SendsFit, Sends, Changing
<1>2. call[t].content \in Contents
  BY <1>1, Asked DEF Resting
<1> QED  BY <1>1, <1>2 DEF RequestOK, Request

\* A PUT that is applied makes or overwrites a file at the place of its session.
LEMMA PutDoes ==
  ASSUME ServerOK, FilesStay, NEW q, RequestOK(q), q.op = "upload", Apply(q)
  PROVE  \/ sessions[q.file].made # None /\ UNCHANGED <<file, sessions>>
         \/ /\ sessions[q.file].made = None
            /\ \E g \in Files :
                 /\ file'[g] = NewFile(sessions[q.file].place, q.content)
                 /\ \A f \in Known \ {g} : file'[f] = file[f]
                 /\ g \in Known => file[g].place = sessions[q.file].place
                 /\ Known' = Known \union {g}
                 /\ Len(sessions') = Len(sessions)
                 /\ sessions'[q.file].made = g
                 /\ \A i \in 1..Len(sessions) : i # q.file => sessions'[i] = sessions[i]
                 /\ SessionsStay
<1>1. CASE NewContent(q)
  <2>1. PICK g \in Files \ Known :
           /\ file'[g] = NewFile(sessions[q.file].place, q.content)
           /\ \A f \in Known : file'[f] = file[f]
           /\ Known' = Known \union {g}
           /\ Len(sessions') = Len(sessions)
           /\ sessions'[q.file].made = g
           /\ \A i \in 1..Len(sessions) : i # q.file => sessions'[i] = sessions[i]
           /\ SessionsStay
    BY <1>1, NewContentParts
  <2> QED  BY <1>1, <2>1 DEF NewContent
<1>2. CASE Overwrites(q)
  <2>1. PICK g \in Known :
           /\ g = sessions[q.file].target
           /\ file[g] \in FileType
           /\ file'[g].content = q.content /\ file'[g].state = file[g].state
           /\ file'[g].place = [file[g].place EXCEPT !.name = sessions[q.file].place.name]
           /\ file'[g] \in FileType
           /\ \A f \in Files \ {g} : file'[f] = file[f]
           /\ Known' = Known
           /\ Len(sessions') = Len(sessions)
           /\ sessions'[q.file].made = g
           /\ \A i \in 1..Len(sessions) : i # q.file => sessions'[i] = sessions[i]
           /\ SessionsStay
    BY <1>2, OverwritesParts
  <2>2. file[g].place = sessions[q.file].place /\ file[g].state = "live"
    BY <1>2, <2>1, FileAssumption DEF FilesStay, Overwrites, Known
  <2>3. file'[g].place = sessions[q.file].place
    BY <2>1, <2>2 DEF FileType, Places
  <2>4. file'[g] = NewFile(sessions[q.file].place, q.content)
    BY <2>1, <2>2, <2>3 DEF FileType, NewFile
  <2>5. g \in Files /\ \A f \in Known \ {g} : file'[f] = file[f]
    BY <2>1 DEF Known
  <2>6. Known' = Known \union {g} /\ sessions[q.file].made = None
    BY <1>2, <2>1 DEF Overwrites
  <2> QED  BY <2>1, <2>2, <2>4, <2>5, <2>6
<1> QED  BY <1>1, <1>2, ApplyHow DEF Changes

\* It shows its content there, and hides nothing elsewhere.
LEMMA PutShows ==
  ASSUME ServerOK, FilesStay, NEW q, RequestOK(q), q.op = "upload", Apply(q)
  PROVE  /\ SessionsStay
         /\ \A f \in Known' : file'[f].state = "live"
         /\ \A f \in Known : f \in Known' /\ file'[f].place = file[f].place
         /\ \A i \in 1..Len(sessions) : i # q.file => sessions'[i] = sessions[i]
         /\ sessions[q.file].made = None =>
              q.content \in Seen(file', sessions[q.file].place)
         /\ sessions[q.file].made # None => UNCHANGED <<file, sessions>>
         /\ \A p : p # sessions[q.file].place => Seen(file, p) \subseteq Seen(file', p)
<1>1. CASE sessions[q.file].made # None /\ UNCHANGED <<file, sessions>>
  <2>1. SessionsStay
    BY <1>1 DEF SessionsStay
  <2> QED  BY <1>1, <2>1 DEF FilesStay, Known
<1>2. CASE /\ sessions[q.file].made = None
           /\ ~(sessions[q.file].made # None /\ UNCHANGED <<file, sessions>>)
  <2>1. PICK g \in Files :
          /\ file'[g] = NewFile(sessions[q.file].place, q.content)
          /\ \A f \in Known \ {g} : file'[f] = file[f]
          /\ g \in Known => file[g].place = sessions[q.file].place
          /\ Known' = Known \union {g}
          /\ \A i \in 1..Len(sessions) : i # q.file => sessions'[i] = sessions[i]
          /\ SessionsStay
    BY <1>2, PutDoes
  <2>2. \A f \in Known' : file'[f].state = "live"
    BY <2>1 DEF FilesStay, NewFile
  <2>3. \A f \in Known : f \in Known' /\ file'[f].place = file[f].place
    BY <2>1 DEF NewFile
  <2>4. q.content \in Seen(file', sessions[q.file].place)
    <3>1. g \in Known'
      BY <2>1
    <3> QED  BY <2>1, <3>1 DEF Seen, NewFile, Known
  <2>5. ASSUME NEW p, p # sessions[q.file].place
        PROVE  Seen(file, p) \subseteq Seen(file', p)
    <3>1. ASSUME NEW f \in Known, file[f].place = p
          PROVE  file'[f] = file[f] /\ file'[f] # None
      BY <2>1, <2>5, <3>1 DEF Known
    <3> QED  BY <3>1 DEF Seen, Known
  <2> QED  BY <1>2, <2>1, <2>2, <2>3, <2>4, <2>5
<1> QED  BY <1>1, <1>2, PutDoes

\* Every task but t is where it was.
Aside(t) == \A u \in Tasks \ {t} :
  pc'[u] = pc[u] /\ call'[u] = call[u] /\ found'[u] = found[u]

SendsTyped ==
  /\ pc \in [Tasks -> Resting \union Changing \union
                      {"find", "initiate", "open", "stream"}]
  /\ call \in [Tasks -> Calls \union SyncRequests \union {None}]
  /\ found \in [Tasks -> Files \union {None} \union Nat]

\* Drive goes on as SendsFit says.
ServerGoes == /\ ServerOK' /\ SessionsStay /\ Known \subseteq Known'
              /\ \A q \in inAir' : q.op = "upload"

LEMMA ServerQuiet == ASSUME SendsFit, UNCHANGED server PROVE ServerGoes
BY Quiet DEF SendsFit, ServerGoes, SessionsStay, Grows, server

LEMMA SendsKept ==
  ASSUME SendsFit, ServerGoes, SendsTyped', NEW t \in Tasks, Aside(t), Sends(t)',
         pc'[t] = "put" => \/ pc[t] = "put" /\ found'[t] = found[t]
                           \/ found'[t] \notin 1..Len(sessions)
  PROVE  SendsFit'
<1>1. ASSUME NEW u \in Tasks \ {t} PROVE Sends(u)'
  BY <1>1 DEF SendsFit, Sends, ServerGoes, SessionsStay, Aside
<1>2. ASSUME NEW u \in Tasks, NEW v \in Tasks,
             pc'[u] = "put", pc'[v] = "put", found'[u] = found'[v]
      PROVE  u = v
  <2>1. ASSUME NEW w \in Tasks, pc[w] = "put" PROVE found[w] \in 1..Len(sessions)
    BY <2>1 DEF SendsFit, Sends
  <2> QED  BY <1>2, <2>1 DEF SendsFit, Aside
<1> QED  BY <1>1, <1>2 DEF SendsFit, ServerGoes, SendsTyped

\* No task moves.
LEMMA SendsSame ==
  ASSUME SendsFit, ServerGoes, UNCHANGED <<pc, call, found>>
  PROVE  SendsFit'
<1>1. ASSUME NEW u \in Tasks PROVE Sends(u)'
  BY <1>1 DEF SendsFit, Sends, ServerGoes, SessionsStay
<1> QED  BY <1>1 DEF SendsFit, ServerGoes

LEMMA SendsEnd ==
  ASSUME SendsFit, ServerGoes, NEW t \in Tasks, NEW o \in {"done", "failed"},
         End(t, o)
  PROVE  SendsFit'
<1>1. SendsTyped' /\ Aside(t) /\ pc'[t] = o
  BY DEF SendsFit, SendsTyped, Aside, End, Resting
<1>2. Sends(t)'
  BY <1>1 DEF Sends, Resting
<1> QED  BY <1>1, <1>2, SendsKept

LEMMA SendsRetry ==
  ASSUME SendsFit, ServerGoes, NEW t \in Tasks, RetryOrFail(t)
  PROVE  SendsFit'
BY SendsSame, SendsEnd DEF RetryOrFail

LEMMA SendsBegin ==
  ASSUME TransfersOnly, SendsFit, NEW t \in Tasks \ Syncers, Begin(t)
  PROVE  SendsFit'
<1>1. PICK c \in Calls : /\ pc[t] \in Resting
                         /\ call' = [call EXCEPT ![t] = c]
                         /\ pc' = [pc EXCEPT ![t] = "find"]
  BY DEF Begin
<1>2. found' = found /\ UNCHANGED server
  BY DEF Begin
<1>3. SendsTyped' /\ Aside(t) /\ pc'[t] = "find" /\ call'[t] = c
  BY <1>1, <1>2 DEF SendsFit, SendsTyped, Aside
<1>4. c.op \in {"upload", "download", "lookup"}
  BY CallFields DEF TransfersOnly
<1>5. Sends(t)'
  BY <1>3, <1>4 DEF Sends
<1> QED  BY <1>2, <1>3, <1>5, ServerQuiet, SendsKept

LEMMA SendsFind ==
  ASSUME SendsFit, NEW t \in Tasks, Find(t)
  PROVE  SendsFit'
<1>1. ServerGoes
  BY ServerQuiet DEF Find
<1>2. CASE End(t, "done") \/ End(t, "failed")
  BY <1>1, <1>2, SendsEnd
<1>3. CASE \E f \in Matches(t) :
             /\ call[t].op # "lookup"
             /\ f # None \/ call[t].op = "upload"
             /\ found' = [found EXCEPT ![t] = f]
             /\ Goto(t, NextCall(call[t].op))
  <2>1. PICK f \in Matches(t) :
             /\ call[t].op # "lookup"
             /\ found' = [found EXCEPT ![t] = f]
             /\ Goto(t, NextCall(call[t].op))
    BY <1>3
  <2>2. pc[t] = "find" /\ UNCHANGED file
    BY DEF Find, server
  <2>3. call[t].op \in {"upload", "download"}
        /\ call[t] \in IF t \in Syncers THEN SyncRequests ELSE Calls
    BY <2>1, <2>2 DEF SendsFit, Sends, Resting
  <2>4. NextCall(call[t].op) = IF call[t].op = "upload" THEN "initiate" ELSE "open"
    BY <2>3 DEF NextCall
  <2>5. f \in Known' \union {None} /\ f \in Files \union {None}
    BY <2>2 DEF Matches, At, Known
  <2>6. /\ pc'[t] = IF call[t].op = "upload" THEN "initiate" ELSE "open"
        /\ call'[t] = call[t] /\ found'[t] = f
    BY <2>1, <2>4 DEF Goto, SendsFit
  <2>7. SendsTyped' /\ Aside(t)
    BY <2>1, <2>4, <2>5 DEF Goto, SendsFit, SendsTyped, Aside
  <2>8. Sends(t)'
    BY <2>3, <2>5, <2>6 DEF Sends
  <2> QED  BY <1>1, <2>6, <2>7, <2>8, SendsKept
<1> QED  BY <1>2, <1>3 DEF Find

LEMMA SendsInitiate ==
  ASSUME SendsFit, NEW t \in Tasks, Initiate(t)
  PROVE  SendsFit'
<1>1. /\ pc[t] = "initiate" /\ call[t].op = "upload"
      /\ found[t] \in Known \union {None}
      /\ call[t] \in IF t \in Syncers THEN SyncRequests ELSE Calls
  BY DEF Initiate, SendsFit, Sends, Resting
<1>2. call[t].place \in Places
  BY <1>1, Asked DEF Resting
<1>3. /\ Len(sessions') = Len(sessions) + 1
      /\ sessions'[Len(sessions')].place = call[t].place
      /\ SessionsStay /\ ServerOK'
  BY <1>1, <1>2, Appended DEF SendsFit
<1>4. ServerGoes
  BY <1>3 DEF Initiate, SendsFit, ServerGoes, Known
<1>5. /\ found' = [found EXCEPT ![t] = Len(sessions')]
      /\ pc' = [pc EXCEPT ![t] = "put"] /\ UNCHANGED call
  BY DEF Initiate, Goto
<1>6. Len(sessions) \in Nat
  BY Held DEF SendsFit
<1>7. SendsTyped' /\ Aside(t)
  BY <1>3, <1>5, <1>6 DEF SendsFit, SendsTyped, Aside, Changing
<1>8. pc'[t] = "put" /\ call'[t] = call[t] /\ found'[t] = Len(sessions')
  BY <1>5 DEF SendsFit
<1>9. Sends(t)'
  BY <1>1, <1>3, <1>6, <1>8 DEF Sends
<1> QED  BY <1>3, <1>4, <1>6, <1>7, <1>8, <1>9, SendsKept

\* What is applied, or given up, is the content for a session.
LEMMA ServerPuts ==
  ASSUME SendsFit, FilesStay, NEW q, RequestOK(q), q.op = "upload", Apply(q),
         UNCHANGED lost, inAir' \subseteq inAir
  PROVE  ServerGoes
BY ServerApplies, PutShows DEF SendsFit, ServerGoes

LEMMA ServerWaits ==
  ASSUME SendsFit, NEW t \in Tasks, GiveUp(t), call[t].content # None
  PROVE  ServerGoes
<1>1. RequestOK(Request(t)) /\ Request(t).op = "upload"
  BY PutRequest DEF GiveUp
<1>2. ServerOK'
  BY <1>1, ServerLoses DEF SendsFit
<1> QED  BY <1>1, <1>2 DEF GiveUp, SendsFit, ServerGoes, SessionsStay, Known

\* The calls that a task awaits, but for its first two.
LEMMA SendsCall ==
  ASSUME SendsFit, FilesStay, NEW t \in Tasks,
         \/ (Answered(t) \/ TimesOut(t)) /\ call[t].content # None
         \/ Transient(t) \/ Refused(t)
  PROVE  SendsFit'
<1>1. CASE Answered(t) /\ call[t].content # None
  BY <1>1, PutRequest, ServerPuts, SendsEnd DEF Answered
<1>2. CASE TimesOut(t) /\ call[t].content # None
  BY <1>2, ServerWaits, SendsRetry DEF TimesOut
<1>3. CASE Transient(t)
  BY <1>3, ServerQuiet, SendsRetry DEF Transient
<1>4. CASE Refused(t)
  BY <1>4, ServerQuiet, SendsEnd DEF Refused
<1> QED  BY <1>1, <1>2, <1>3, <1>4

LEMMA SendsDownload ==
  ASSUME SendsFit, NEW t \in Tasks, Open(t) \/ Complete(t) \/ BreakOff(t)
  PROVE  SendsFit'
<1>1. ServerGoes
  BY ServerQuiet DEF Open, Complete, BreakOff
<1>2. CASE Open(t)
  <2>1. /\ pc[t] = "open" /\ pc' = [pc EXCEPT ![t] = "stream"] /\ UNCHANGED <<call, found>>
    BY <1>2 DEF Open, Goto
  <2>2. SendsTyped' /\ Aside(t) /\ pc'[t] = "stream"
    BY <2>1 DEF SendsFit, SendsTyped, Aside
  <2>3. Sends(t)'
    BY <2>1, <2>2 DEF SendsFit, Sends, Resting
  <2> QED  BY <1>1, <2>2, <2>3, SendsKept
<1>3. CASE Complete(t) \/ BreakOff(t)
  BY <1>1, <1>3, SendsEnd DEF Complete, BreakOff
<1> QED  BY <1>2, <1>3

LEMMA SendsLate == ASSUME SendsFit, FilesStay, ApplyLate PROVE SendsFit'
<1>1. PICK q \in inAir : /\ inAir' = inAir \ {q}
                         /\ Apply(q) \/ UNCHANGED <<file, sessions>>
  BY DEF ApplyLate
<1>2. UNCHANGED <<lost, pc, call, found>> /\ RequestOK(q) /\ q.op = "upload"
  BY DEF ApplyLate, task, SendsFit, ServerOK
<1>3. CASE Apply(q)
  BY <1>1, <1>2, <1>3, ServerPuts, SendsSame
<1>4. CASE UNCHANGED <<file, sessions>>
  <2>1. Grows /\ Known' = Known /\ SessionsStay
    BY <1>4 DEF Grows, Known, SessionsStay
  <2>2. \A p \in inAir : RequestOK(p)'
    BY <2>1, Lasting DEF SendsFit, ServerOK
  <2>3. ServerOK'
    BY <1>1, <1>2, <1>4, <2>1, <2>2 DEF SendsFit, ServerOK
  <2>4. ServerGoes
    BY <1>1, <2>1, <2>3 DEF SendsFit, ServerGoes
  <2> QED  BY <1>2, <2>4, SendsSame
<1> QED  BY <1>1, <1>3, <1>4

LEMMA SendsDies == ASSUME SendsFit, Dies PROVE SendsFit'
<1>1. /\ pc' = [t \in Tasks |-> "idle"] /\ call' = [t \in Tasks |-> None]
      /\ found' = [t \in Tasks |-> None]
  BY DEF Dies, Crash
<1>2. ASSUME NEW t \in Tasks, GiveUp(t) PROVE call[t].content # None
  <2>1. pc[t] = "put" /\ call[t].op = "upload" /\ Request(t) \in inAir'
    BY <1>2 DEF GiveUp, SendsFit, Sends, Changing
  <2> QED  BY <2>1 DEF Dies, Request
<1>3. ServerGoes
  BY <1>2, ServerQuiet, ServerWaits DEF Dies, Crash
<1>4. \A t \in Tasks : Sends(t)' /\ pc'[t] = "idle"
  BY <1>1 DEF Sends, Resting
<1>5. SendsTyped'
  BY <1>1 DEF SendsTyped, Resting
<1> QED  BY <1>3, <1>4, <1>5 DEF SendsFit, SendsTyped, ServerGoes

LEMMA SendsCalling ==
  ASSUME SendsFit, UNCHANGED server, UNCHANGED found, NEW s \in Syncers,
         NEW op \in {"lookup", "upload"}, NEW p \in Places,
         NEW content \in Contents \union {None}, Calling(s, op, p, content)
  PROVE  SendsFit'
<1>1. s \in Tasks
  BY SyncAssumption
<1>2. /\ call' = [call EXCEPT ![s] = [op |-> op, place |-> p, dst |-> None,
                                      content |-> content]]
      /\ pc' = [pc EXCEPT ![s] = "find"]
  BY DEF Calling
<1>3. [op |-> op, place |-> p, dst |-> None, content |-> content] \in SyncRequests
  BY DEF SyncRequests
<1>4. SendsTyped' /\ Aside(s) /\ pc'[s] = "find" /\ call'[s] \in SyncRequests
      /\ call'[s].op = op
  BY <1>1, <1>2, <1>3 DEF SendsFit, SendsTyped, Aside
<1>5. Sends(s)'
  BY <1>4 DEF Sends
<1> QED  BY <1>1, <1>4, <1>5, ServerQuiet, SendsKept

LEMMA SendsTakes ==
  ASSUME SyncTypeOK, SendsFit, NEW s \in Syncers, SyncTakes(s)
  PROVE  SendsFit'
<1>1. PICK p \in todo[s] :
        \/ UNCHANGED <<pc, call>>
        \/ Calling(s, "lookup", p, None)
  BY DEF SyncTakes
<1>2. UNCHANGED server /\ UNCHANGED found /\ p \in Places
  BY DEF SyncTakes, SyncTypeOK
<1>3. CASE UNCHANGED <<pc, call>>
  BY <1>2, <1>3, ServerQuiet, SendsSame
<1>4. CASE Calling(s, "lookup", p, None)
  BY <1>2, <1>4, SendsCalling
<1> QED  BY <1>1, <1>3, <1>4

LEMMA SendsCompares ==
  ASSUME ReportFits, SendsFit, NEW s \in Syncers, SyncCompares(s)
  PROVE  SendsFit'
<1>1. UNCHANGED server /\ s \in Tasks
  BY SyncAssumption DEF SyncCompares
<1>2. current[s] \in Places /\ localFile[current[s]] \in Contents \union {None}
  BY DEF SyncCompares, ReportFits, FilesAccounted, Current, SyncTypeOK
<1>3. \/ End(s, "done") \/ End(s, "failed")
      \/ Calling(s, "upload", current[s], localFile[current[s]]) /\ UNCHANGED found
  BY DEF SyncCompares, Skip, UploadBegins
<1> QED  BY <1>1, <1>2, <1>3, ServerQuiet, SendsEnd, SendsCalling

LEMMA SendsCalls ==
  ASSUME SendsFit, FilesStay, NEW s \in Syncers, SyncCalls(s)
  PROVE  SendsFit'
BY SyncAssumption, SendsFind, SendsInitiate, SendsCall DEF SyncCalls, Readable

LEMMA SendsReturns ==
  ASSUME SendsFit, NEW s \in Syncers, SyncEnds(s)
  PROVE  SendsFit'
<1>1. /\ pc' = [pc EXCEPT ![s] = "idle"] /\ UNCHANGED <<call, found>>
      /\ UNCHANGED server /\ s \in Tasks
  BY SyncAssumption DEF SyncEnds
<1>2. SendsTyped' /\ Aside(s) /\ pc'[s] = "idle"
  BY <1>1 DEF SendsFit, SendsTyped, Aside, Resting
<1>3. Sends(s)'
  BY <1>2 DEF Sends, Resting
<1> QED  BY <1>1, <1>2, <1>3, ServerQuiet, SendsKept

LEMMA SendsEdit == ASSUME SendsFit, Edit PROVE SendsFit'
<1>1. PICK p \in Places, c \in Contents \union {None} :
        call' = [t \in Tasks |->
                  IF t \in Syncers /\ pc[t] \notin Resting /\ stage[t] = "upload"
                     /\ current[t] = p
                  THEN [call[t] EXCEPT !.content = c] ELSE call[t]]
  BY DEF Edit
<1>2. UNCHANGED <<pc, found>> /\ UNCHANGED server
  BY DEF Edit
<1>3. ServerGoes
  BY <1>2, ServerQuiet
<1>4. ASSUME NEW t \in Tasks
      PROVE  /\ call'[t] \in Calls \union SyncRequests \union {None}
             /\ Sends(t)'
  <2>1. CASE call'[t] = call[t]
    BY <1>2, <1>3, <2>1 DEF SendsFit, Sends, ServerGoes, SessionsStay
  <2>2. CASE call'[t] # call[t]
    <3>1. /\ t \in Syncers /\ pc[t] \notin Resting
          /\ call'[t] = [call[t] EXCEPT !.content = c]
      BY <1>1, <2>2
    <3>2. call[t] \in SyncRequests
      BY <3>1 DEF SendsFit, Sends
    <3>3. /\ call'[t] \in SyncRequests /\ call'[t].op = call[t].op
          /\ call'[t].place = call[t].place
      BY <3>1, <3>2 DEF SyncRequests
    <3>4. Sends(t)'
      BY <1>2, <1>3, <3>1, <3>3 DEF SendsFit, Sends, ServerGoes, SessionsStay
    <3> QED  BY <3>3, <3>4
  <2> QED  BY <2>1, <2>2
<1>5. SendsTyped'
  BY <1>1, <1>2, <1>4 DEF SendsFit, SendsTyped
<1> QED  BY <1>2, <1>3, <1>4, <1>5 DEF SendsFit, SendsTyped, ServerGoes

LEMMA SendsOthers ==
  ASSUME TransfersOnly, SendsFit, FilesStay, Others
  PROVE  SendsFit'
<1>1. CASE ApplyLate
  BY <1>1, SendsLate
<1>2. ASSUME NEW t \in Tasks \ Syncers, pc[t] \in Changing
      PROVE  call[t].content # None
  BY <1>2, Asked, FileAssumption DEF SendsFit, Sends, Changing, Resting
<1>3. ASSUME NEW t \in Tasks \ Syncers,
             \/ Begin(t) \/ Find(t) \/ Initiate(t) \/ Answered(t)
             \/ Transient(t) \/ TimesOut(t) \/ Refused(t)
             \/ Open(t) \/ Complete(t) \/ BreakOff(t)
      PROVE  SendsFit'
  <2>1. Answered(t) \/ TimesOut(t) => call[t].content # None
    BY <1>2, <1>3 DEF Answered, TimesOut, GiveUp
  <2> QED  BY <1>3, <2>1, SendsBegin, SendsFind, SendsInitiate, SendsCall, SendsDownload
<1> QED  BY <1>1, <1>3 DEF Others

LEMMA SendsNext ==
  ASSUME TransfersOnly, ReportFits, SendsFit, FilesStay, [SyncNext]_allVars
  PROVE  SendsFit'
<1>1. CASE UNCHANGED vars
  BY <1>1, ServerQuiet, SendsSame DEF vars, server
<1>2. ASSUME NEW s \in Syncers, SyncBegins(s) PROVE UNCHANGED vars
  BY <1>2 DEF SyncBegins
<1>3. UNCHANGED allVars => UNCHANGED vars
  BY DEF allVars
<1> QED  BY <1>1, <1>2, <1>3, SendsTakes, SendsCompares, SendsCalls, SendsReturns,
            SendsEdit, SendsOthers, SendsDies
         DEF SyncNext, Sync, ReportFits

-----------------------------------------------------------------------------
(* A sync() and the calls it awaits *)

\* A call of sync() is answered for good, or it goes on with the same file.
LEMMA CallsHow ==
  ASSUME SendsFit, SyncAsks, SyncTypeOK, NEW s \in Syncers, SyncCalls(s)
  PROVE  /\ Aside(s)
         /\ \A q \in Syncers \ {s} : stage'[q] = stage[q] /\ report'[q] = report[q]
         /\ \/ /\ pc'[s] = "done" /\ Answered(s) /\ pc[s] = "put" /\ Readable(s)
               /\ Reports(s, current[s], "uploaded")
            \/ pc'[s] = "failed" /\ Reports(s, current[s], "failed")
            \/ /\ call'[s] = call[s] /\ UNCHANGED <<stage, report>>
               /\ \/ Find(s) /\ stage[s] = "upload" /\ pc'[s] = "initiate"
                  \/ Initiate(s) /\ pc'[s] = "put"
                  \/ pc'[s] = pc[s] /\ found'[s] = found[s]
<1>1. s \in Tasks /\ stage[s] \in {"lookup", "upload"}
  BY SyncAssumption DEF SyncCalls
<1>2. /\ pc[s] \in {"find", "initiate", "put"}
      /\ stage[s] = "upload" => call[s].op = "upload"
  BY <1>1 DEF SyncAsks
<1>3. Aside(s)
  BY <1>1 DEF SyncCalls, Find, Initiate, Answered, TimesOut, Transient, Refused, End, Goto,
              RetryOrFail, Aside, SendsFit
<1>4. CASE stage[s] = "upload" /\ Find(s)
  <2>1. PICK f \in Matches(s) : found' = [found EXCEPT ![s] = f] /\ Goto(s, "initiate")
    BY <1>2, <1>4 DEF Find, NextCall
  <2>2. pc[s] = "find" /\ pc'[s] = "initiate" /\ call' = call
    BY <1>1, <1>4, <2>1 DEF Find, Goto, SendsFit
  <2>3. UNCHANGED <<stage, report>>
    BY <2>2 DEF SyncCalls, Follows
  <2> QED  BY <1>3, <1>4, <2>2, <2>3
<1>5. CASE stage[s] = "upload" /\ Initiate(s)
  <2>1. pc'[s] = "put" /\ call' = call
    BY <1>1, <1>5 DEF Initiate, Goto, SendsFit
  <2>2. UNCHANGED <<stage, report>>
    BY <2>1 DEF SyncCalls, Follows
  <2> QED  BY <1>3, <1>5, <2>1, <2>2
<1>6. CASE Readable(s) /\ Answered(s)
  <2>1. pc'[s] = "done" /\ pc[s] = "put"
    BY <1>1, <1>2, <1>6 DEF Answered, Changing, End, SendsFit
  <2>2. Reports(s, current[s], "uploaded")
    BY <2>1 DEF SyncCalls, Follows
  <2> QED  BY <1>3, <1>6, <2>1, <2>2 DEF Reports, SyncTypeOK
<1>7. CASE TimesOut(s) \/ Transient(s) \/ Refused(s)
  <2>1. \/ pc'[s] = "failed"
        \/ pc'[s] = pc[s] /\ found'[s] = found[s] /\ call'[s] = call[s]
    BY <1>1, <1>7 DEF TimesOut, Transient, Refused, RetryOrFail, End, SendsFit
  <2>2. CASE pc'[s] = "failed"
    <3>1. Reports(s, current[s], "failed")
      BY <2>2 DEF SyncCalls, Follows, FileFails
    <3> QED  BY <1>3, <2>2, <3>1 DEF Reports, SyncTypeOK
  <2>3. CASE pc'[s] = pc[s] /\ found'[s] = found[s] /\ call'[s] = call[s]
    <3>1. UNCHANGED <<stage, report>>
      BY <1>2, <2>3 DEF SyncCalls, Follows
    <3> QED  BY <1>3, <2>3, <3>1
  <2> QED  BY <2>1, <2>2, <2>3
<1> QED  BY <1>4, <1>5, <1>6, <1>7 DEF SyncCalls

\* What a step of anyone else leaves of a file whose turn has come.
LEMMA Untouched ==
  ASSUME SyncTypeOK, NEW own, OthersTouch(own), NEW s \in Syncers \ own,
         NEW p \in listed[s] \ todo[s], p \notin touched'[s]
  PROVE  /\ p \notin touched[s] /\ localFile'[p] = localFile[p]
         /\ Seen(file, p) \subseteq Seen(file', p)
<1>1. touched'[s] = touched[s] \union
        {r \in listed[s] \ todo[s] : \/ localFile'[r] # localFile[r]
                                     \/ ~ Seen(file, r) \subseteq Seen(file', r)}
  BY DEF OthersTouch
<1> QED  BY <1>1

\* Its current file is one of them.
LEMMA CurrentListed ==
  ASSUME ReportFits, NEW s \in Syncers, stage[s] \in {"lookup", "upload"}
  PROVE  current[s] \in listed[s] \ todo[s] /\ current[s] \in Places
                        /\ current[s] \notin Named(s)
BY DEF ReportFits, FilesAccounted, Current, SyncTypeOK

\* One syncer: what SyncAsks says of it.
Asks(s) ==
  LET p == current[s] IN
  /\ stage[s] \notin {"lookup", "upload"} => pc[s] \in Resting
  /\ stage[s] \in {"lookup", "upload"} =>
       pc[s] \in {"find", "initiate", "put"} /\ call[s].place = p
  /\ stage[s] = "lookup" =>
       /\ pc[s] = "find" /\ call[s].op = "lookup"
       /\ digest[s] = localFile[p] \/ p \in touched[s]
  /\ stage[s] = "upload" => call[s].op = "upload" /\ call[s].content = localFile[p]

LEMMA AsksAll == SyncAsks <=> \A s \in Syncers : Asks(s)
BY DEF SyncAsks, Asks

\* The steps that do not concern it.
LEMMA AsksKept ==
  ASSUME NEW s \in Syncers, Asks(s), UNCHANGED localFile,
         UNCHANGED <<pc[s], call[s], stage[s], current[s], digest[s]>>,
         touched[s] \subseteq touched'[s]
  PROVE  Asks(s)'
BY DEF Asks

LEMMA AsksNext ==
  ASSUME ReportFits, SendsFit, SyncAsks, [SyncNext]_allVars
  PROVE  SyncAsks'
<1> USE SyncAssumption DEF ReportFits, SyncTypeOK
<1>0. \A s \in Syncers : Asks(s)
  BY AsksAll
<1>1. ASSUME NEW s \in Syncers, SyncBegins(s), NEW q \in Syncers PROVE Asks(q)'
  BY <1>0, <1>1 DEF SyncBegins, Asks, vars
<1>2. ASSUME NEW s \in Syncers, SyncTakes(s), NEW q \in Syncers PROVE Asks(q)'
  <2>1. CASE q # s
    BY <1>0, <1>2, <2>1, AsksKept DEF SyncTakes, Reports, FileFails, Calling, SendsFit
  <2>2. CASE q = s
    <3>1. PICK p \in todo[s] :
            /\ current' = [current EXCEPT ![s] = p]
            /\ \/ stage' = [stage EXCEPT ![s] = "next"] /\ UNCHANGED pc
               \/ /\ digest' = [digest EXCEPT ![s] = localFile[p]]
                  /\ stage' = [stage EXCEPT ![s] = "lookup"]
                  /\ Calling(s, "lookup", p, None)
      BY <1>2 DEF SyncTakes, Reports, FileFails
    <3>2. stage[s] = "next" /\ UNCHANGED localFile
      BY <1>2 DEF SyncTakes
    <3> QED  BY <1>0, <2>2, <3>1, <3>2 DEF Asks, Calling, SendsFit
  <2> QED  BY <2>1, <2>2
<1>3. ASSUME NEW s \in Syncers, SyncCompares(s), NEW q \in Syncers PROVE Asks(q)'
  <2>1. CASE q # s
    BY <1>0, <1>3, <2>1, AsksKept
       DEF SyncCompares, Skip, UploadBegins, Reports, FileFails, Calling, End, SendsFit
  <2>2. CASE q = s
    <3>1. \/ stage'[s] = "next" /\ pc'[s] \in Resting
          \/ UploadBegins(s)
      BY <1>3 DEF SyncCompares, Skip, Reports, FileFails, End, SendsFit, Resting
    <3>2. UNCHANGED <<localFile, current>>
      BY <1>3 DEF SyncCompares
    <3>3. CASE UploadBegins(s)
      BY <2>2, <3>2, <3>3 DEF UploadBegins, Calling, Asks, SendsFit
    <3> QED  BY <2>2, <3>1, <3>3 DEF Asks
  <2> QED  BY <2>1, <2>2
<1>4. ASSUME NEW s \in Syncers, SyncCalls(s), NEW q \in Syncers PROVE Asks(q)'
  <2>1. UNCHANGED <<localFile, current, digest>> /\ touched[q] \subseteq touched'[q]
    BY <1>4 DEF SyncCalls, OthersTouch
  <2>2. CASE q # s
    BY <1>0, <1>4, <2>1, <2>2, CallsHow, AsksKept DEF Aside
  <2>3. CASE q = s
    <3>1. CASE pc'[s] \in {"done", "failed"} /\ stage'[s] = "next"
      BY <2>3, <3>1 DEF Asks, Resting
    <3>2. CASE call'[s] = call[s] /\ stage' = stage /\ pc'[s] \in {"find", "initiate", "put"}
               /\ (stage[s] = "lookup" => pc'[s] = pc[s])
      <4>1. stage[s] \in {"lookup", "upload"}
        BY <1>4 DEF SyncCalls
      <4> QED  BY <1>0, <2>1, <2>3, <3>2, <4>1 DEF Asks
    <3>3. stage[s] \in {"lookup", "upload"} /\ Asks(s)
      BY <1>0, <1>4 DEF SyncCalls
    <3>4. \/ pc'[s] \in {"done", "failed"} /\ stage'[s] = "next"
          \/ /\ call'[s] = call[s] /\ stage' = stage
             /\ \/ stage[s] = "upload" /\ pc'[s] = "initiate"
                \/ pc[s] = "initiate" /\ pc'[s] = "put"
                \/ pc'[s] = pc[s]
      BY <1>4, CallsHow DEF Reports, Initiate
    <3> QED  BY <3>1, <3>2, <3>3, <3>4 DEF Asks
  <2> QED  BY <2>2, <2>3
<1>5. ASSUME NEW s \in Syncers, SyncEnds(s), NEW q \in Syncers PROVE Asks(q)'
  BY <1>0, <1>5, AsksKept DEF SyncEnds, Asks, SendsFit, Resting
<1>6. ASSUME Edit, NEW q \in Syncers PROVE Asks(q)'
  <2>1. PICK p \in Places, c \in Contents \union {None} :
          /\ localFile' = [localFile EXCEPT ![p] = c]
          /\ call' = [t \in Tasks |->
                       IF t \in Syncers /\ pc[t] \notin Resting /\ stage[t] = "upload"
                          /\ current[t] = p
                       THEN [call[t] EXCEPT !.content = c] ELSE call[t]]
    BY <1>6 DEF Edit
  <2>2. UNCHANGED <<pc, stage, listed, todo, current, digest>> /\ OthersTouch({})
    BY <1>6 DEF Edit
  <2>3. CASE stage[q] = "upload"
    <3>1. pc[q] \notin Resting /\ call[q].place = current[q] /\ call[q].op = "upload"
          /\ call[q].content = localFile[current[q]]
          /\ pc[q] \in {"find", "initiate", "put"}
      BY <1>0, <2>3 DEF Asks, Resting
    <3>2. call[q] \in SyncRequests
      BY <3>1 DEF SendsFit, Sends
    <3>3. current[q] \in Places
      BY <2>3, CurrentListed
    <3>4. CASE current[q] = p
      <4>1. call'[q] = [call[q] EXCEPT !.content = c] /\ localFile'[current[q]] = c
        BY <2>1, <2>3, <3>1, <3>4
      <4>2. call'[q].content = c /\ call'[q].op = "upload" /\ call'[q].place = current[q]
        BY <3>1, <3>2, <4>1 DEF SyncRequests
      <4> QED  BY <2>2, <2>3, <3>1, <4>1, <4>2 DEF Asks
    <3>5. CASE current[q] # p
      <4>1. call'[q] = call[q] /\ localFile'[current[q]] = localFile[current[q]]
        BY <2>1, <3>3, <3>5
      <4> QED  BY <2>2, <2>3, <3>1, <4>1 DEF Asks
    <3> QED  BY <3>4, <3>5
  <2>4. CASE stage[q] = "lookup"
    <3>1. call'[q] = call[q]
      BY <2>1, <2>4
    <3>2. current[q] \in touched'[q] \/
          (current[q] \notin touched[q] /\ localFile'[current[q]] = localFile[current[q]])
      BY <2>2, <2>4, CurrentListed, Untouched
    <3> QED  BY <1>0, <2>2, <2>4, <3>1, <3>2 DEF Asks
  <2>5. CASE stage[q] \notin {"lookup", "upload"}
    BY <1>0, <2>2, <2>5 DEF Asks
  <2> QED  BY <2>3, <2>4, <2>5
<1>7. ASSUME Others, NEW q \in Syncers PROVE Asks(q)'
  <2>1. UNCHANGED <<localFile, stage, current, digest>> /\ touched[q] \subseteq touched'[q]
    BY <1>7 DEF Others, OthersTouch
  <2>2. UNCHANGED <<pc[q], call[q]>>
    BY <1>7 DEF Others, Begin, Find, Initiate, Answered, Transient, TimesOut, Refused, Open,
                Complete, BreakOff, ApplyLate, task, Goto, End, RetryOrFail, SendsFit
  <2> QED  BY <1>0, <2>1, <2>2, AsksKept
<1>8. ASSUME Dies, NEW q \in Syncers PROVE Asks(q)'
  BY <1>8 DEF Dies, Crash, Asks, Resting
<1>9. ASSUME UNCHANGED allVars, NEW q \in Syncers PROVE Asks(q)'
  BY <1>0, <1>9, AsksKept DEF allVars, vars, syncVars
<1>10. \A q \in Syncers : Asks(q)'
  BY <1>1, <1>2, <1>3, <1>4, <1>5, <1>6, <1>7, <1>8, <1>9 DEF SyncNext, Sync
<1> QED  BY <1>10 DEF SyncAsks, Asks

-----------------------------------------------------------------------------
(* What any step does to Drive and to a task *)

\* What is applied is late, or is answered to its task.
Applied(q) ==
  /\ RequestOK(q) /\ q.op = "upload" /\ Apply(q)
  /\ UNCHANGED localFile
  /\ q \in inAir \/ \E t \in Tasks : Answered(t) /\ q = Request(t)

LEMMA SyncServer ==
  ASSUME SendsFit, [SyncNext]_allVars
  PROVE  \/ UNCHANGED <<file, sessions>>
         \/ \E t \in Tasks : Initiate(t)
         \/ \E q : Applied(q)
<1>1. ASSUME NEW t \in Tasks, Answered(t), call[t].content # None, UNCHANGED localFile
      PROVE  Applied(Request(t))
  BY <1>1, PutRequest DEF Answered, Applied
<1>2. ASSUME NEW t \in Tasks,
             \/ Begin(t) \/ Find(t) \/ Transient(t) \/ TimesOut(t)
             \/ Refused(t) \/ Open(t) \/ Complete(t) \/ BreakOff(t)
      PROVE  UNCHANGED <<file, sessions>>
  BY <1>2 DEF Begin, Find, Transient, TimesOut, GiveUp, Refused, Open, Complete, BreakOff,
              server
<1>3. ASSUME NEW s \in Syncers, SyncBegins(s) \/ Sync(s)
      PROVE  \/ UNCHANGED <<file, sessions>>
             \/ \E t \in Tasks : Initiate(t)
             \/ \E q : Applied(q)
  <2>1. CASE SyncCalls(s)
    <3>1. s \in Tasks /\ UNCHANGED localFile
      BY <2>1, SyncAssumption DEF SyncCalls
    <3> QED  BY <1>1, <1>2, <2>1, <3>1 DEF SyncCalls, Readable
  <2>2. CASE SyncBegins(s) \/ SyncTakes(s) \/ SyncCompares(s) \/ SyncEnds(s)
    BY <2>2 DEF SyncBegins, SyncTakes, SyncCompares, SyncEnds, vars, server
  <2> QED  BY <1>3, <2>1, <2>2 DEF Sync
<1>4. CASE Others
  <2>1. UNCHANGED localFile
    BY <1>4 DEF Others
  <2>2. CASE ApplyLate
    BY <2>1, <2>2 DEF ApplyLate, SendsFit, ServerOK, Applied
  <2>3. ASSUME NEW t \in Tasks \ Syncers, Answered(t) PROVE call[t].content # None
    BY <2>3, Asked, FileAssumption DEF Answered, SendsFit, Sends, Changing, Resting
  <2> QED  BY <1>1, <1>2, <1>4, <2>1, <2>2, <2>3 DEF Others
<1>5. CASE Edit
  BY <1>5 DEF Edit, server
<1>6. CASE Dies
  BY <1>6 DEF Dies, Crash, GiveUp, server
<1>7. CASE UNCHANGED allVars
  BY <1>7 DEF allVars, vars
<1> QED  BY <1>3, <1>4, <1>5, <1>6, <1>7 DEF SyncNext

LEMMA SyncAir ==
  ASSUME SendsFit, [SyncNext]_allVars
  PROVE  \/ inAir' \subseteq inAir
         \/ \E t \in Tasks : /\ GiveUp(t) /\ inAir' = inAir \union {Request(t)}
                             /\ pc[t] = "put" /\ UNCHANGED <<localFile, file, sessions>>
<1>1. ASSUME NEW t \in Tasks, GiveUp(t), UNCHANGED localFile
      PROVE  /\ inAir' = inAir \union {Request(t)}
             /\ pc[t] = "put" /\ UNCHANGED <<localFile, file, sessions>>
  BY <1>1 DEF GiveUp, SendsFit, Sends, Changing
<1>2. ASSUME NEW t \in Tasks,
             \/ Begin(t) \/ Find(t) \/ Initiate(t) \/ Answered(t) \/ Transient(t)
             \/ Refused(t) \/ Open(t) \/ Complete(t) \/ BreakOff(t)
      PROVE  inAir' = inAir
  BY <1>2 DEF Begin, Find, Initiate, Answered, Transient, Refused, Open, Complete,
              BreakOff, server
<1>3. ASSUME NEW s \in Syncers, SyncCalls(s)
      PROVE  inAir' \subseteq inAir \/ \E t \in Tasks : GiveUp(t) /\ UNCHANGED localFile
  BY <1>2, <1>3, SyncAssumption DEF SyncCalls, TimesOut
<1>4. ASSUME NEW s \in Syncers,
             SyncBegins(s) \/ SyncTakes(s) \/ SyncCompares(s) \/ SyncEnds(s)
      PROVE  inAir' = inAir
  BY <1>4 DEF SyncBegins, SyncTakes, SyncCompares, SyncEnds, vars, server
<1>5. CASE Others
  BY <1>1, <1>2, <1>5 DEF Others, TimesOut, ApplyLate
<1>6. CASE Edit
  BY <1>6 DEF Edit, server
<1>7. CASE Dies
  BY <1>1, <1>7 DEF Dies, Crash, server
<1>8. CASE UNCHANGED allVars
  BY <1>8 DEF allVars, vars
<1> QED  BY <1>1, <1>3, <1>4, <1>5, <1>6, <1>7, <1>8 DEF SyncNext, Sync

LEMMA SyncTask ==
  ASSUME SendsFit, [SyncNext]_allVars, NEW t \in Tasks
  PROVE  /\ pc'[t] = "initiate" =>
              \/ /\ pc[t] = "initiate" /\ found'[t] = found[t]
                 /\ call'[t].place = call[t].place
              \/ /\ found'[t] \in Matches(t) /\ call'[t].place = call[t].place
                 /\ UNCHANGED <<file, sessions>>
         /\ pc'[t] = "put" =>
              \/ pc[t] = "put" /\ found'[t] = found[t] 
              \/ Initiate(t) /\ found'[t] = Len(sessions')
<1> DEFINE Goal == 
         /\ pc'[t] = "initiate" =>
              \/ /\ pc[t] = "initiate" /\ found'[t] = found[t]
                 /\ call'[t].place = call[t].place
              \/ /\ found'[t] \in Matches(t) /\ call'[t].place = call[t].place
                 /\ UNCHANGED <<file, sessions>>
         /\ pc'[t] = "put" =>
              \/ pc[t] = "put" /\ found'[t] = found[t] 
              \/ Initiate(t) /\ found'[t] = Len(sessions')
<1>1. ASSUME pc'[t] \notin {"initiate", "put"} PROVE Goal
  BY <1>1
<1>2. ASSUME pc'[t] = pc[t], call'[t] = call[t], found'[t] = found[t] PROVE Goal
  BY <1>2
<1>3. ASSUME NEW u \in Tasks,
             \/ Begin(u) \/ Answered(u) \/ Transient(u) \/ TimesOut(u) \/ Refused(u)
             \/ Open(u) \/ Complete(u) \/ BreakOff(u)
      PROVE  \/ pc'[t] \notin {"initiate", "put"}
             \/ pc'[t] = pc[t] /\ call'[t] = call[t] /\ found'[t] = found[t]
  BY <1>3 DEF Begin, Answered, Transient, TimesOut, Refused, Open, Complete, BreakOff,
              End, Goto, RetryOrFail, SendsFit
<1>4. ASSUME NEW u \in Tasks, Find(u) PROVE Goal
  <2>1. \/ End(u, "done") \/ End(u, "failed")
        \/ \E f \in Matches(u) : /\ found' = [found EXCEPT ![u] = f]
                                 /\ Goto(u, NextCall(call[u].op))
    BY <1>4 DEF Find
  <2>2. UNCHANGED <<file, sessions>> /\ NextCall(call[u].op) # "put"
    BY <1>4 DEF Find, server, NextCall
  <2>3. CASE End(u, "done") \/ End(u, "failed")
    BY <2>3 DEF End, SendsFit
  <2>4. CASE \E f \in Matches(u) : /\ found' = [found EXCEPT ![u] = f]
                                   /\ Goto(u, NextCall(call[u].op))
    BY <2>2, <2>4 DEF Goto, SendsFit
  <2> QED  BY <2>1, <2>3, <2>4
<1>5. ASSUME NEW u \in Tasks, Initiate(u) PROVE Goal
  BY <1>5 DEF Initiate, Goto, SendsFit
<1>6. ASSUME NEW s \in Syncers, SyncBegins(s) \/ Sync(s) PROVE Goal
  <2> s \in Tasks
    BY SyncAssumption
  <2>1. CASE SyncCalls(s)
    BY <1>1, <1>2, <1>3, <1>4, <1>5, <2>1 DEF SyncCalls
  <2>2. CASE SyncBegins(s)
    BY <1>2, <2>2 DEF SyncBegins, vars
  <2>3. CASE SyncTakes(s) \/ SyncEnds(s)
    BY <2>3 DEF SyncTakes, SyncEnds, Calling, SendsFit
  <2>4. CASE SyncCompares(s)
    BY <2>4 DEF SyncCompares, Skip, UploadBegins, Calling, End, SendsFit
  <2> QED  BY <1>6, <2>1, <2>2, <2>3, <2>4 DEF Sync
<1>7. CASE Others
  BY <1>1, <1>2, <1>3, <1>4, <1>5, <1>7 DEF Others, ApplyLate, task
<1>8. CASE Edit
  <2>1. PICK p \in Places, c \in Contents \union {None} :
          call' = [v \in Tasks |->
                       IF v \in Syncers /\ pc[v] \notin Resting /\ stage[v] = "upload"
                          /\ current[v] = p
                       THEN [call[v] EXCEPT !.content = c] ELSE call[v]]
    BY <1>8 DEF Edit
  <2>2. UNCHANGED <<pc, found>>
    BY <1>8 DEF Edit
  <2>3. CASE call'[t] # call[t]
    <3>1. call[t] \in SyncRequests /\ call'[t] = [call[t] EXCEPT !.content = c]
      BY <2>1, <2>3 DEF SendsFit, Sends
    <3>2. call'[t].place = call[t].place
      BY <3>1 DEF SyncRequests
    <3> QED  BY <2>2, <3>2
  <2> QED  BY <1>2, <2>2, <2>3
<1>9. CASE Dies
  BY <1>9 DEF Dies, Crash
<1>10. CASE UNCHANGED allVars
  BY <1>10 DEF allVars, vars
<1> QED  BY <1>6, <1>7, <1>8, <1>9, <1>10 DEF SyncNext

LEMMA FilesStayNext ==
  ASSUME SendsFit, FilesStay, [SyncNext]_allVars
  PROVE  FilesStay'
<1>0. ServerOK
  BY DEF SendsFit
<1>1. ASSUME NEW t \in Tasks, pc[t] = "initiate"
      PROVE  found[t] \in Known \union {None} /\ call[t].place \in Places
  BY <1>1, Asked DEF SendsFit, Sends, Resting
<1>2. \A i \in 1..Len(sessions) : sessions[i].target \in Known \union {None}
  BY <1>0, Held DEF SessionType
<1>3. /\ \A f \in Known' : file'[f].state = "live"
      /\ \A f \in Known : f \in Known' /\ file'[f].place = file[f].place
      /\ \A i \in 1..Len(sessions') :
           sessions'[i].target # None =>
             file'[sessions'[i].target].place = sessions'[i].place
  <2>1. CASE UNCHANGED <<file, sessions>>
    BY <2>1 DEF FilesStay, Known
  <2>2. ASSUME NEW t \in Tasks, Initiate(t) PROVE <1>3!:
    <3>1. /\ Len(sessions') = Len(sessions) + 1
          /\ sessions'[Len(sessions')].target = found[t]
          /\ sessions'[Len(sessions')].place = call[t].place
          /\ \A i \in 1..Len(sessions) : sessions'[i] = sessions[i]
      BY <1>0, <1>1, <2>2, Appended DEF Initiate
    <3>2. UNCHANGED file /\ pc[t] = "initiate" /\ Len(sessions) \in Nat
      BY <1>0, <2>2, Held DEF Initiate
    <3> QED  BY <3>1, <3>2 DEF FilesStay, Known
  <2>3. ASSUME NEW q, Applied(q) PROVE <1>3!:
    <3>0. RequestOK(q) /\ q.op = "upload" /\ Apply(q)
      BY <2>3 DEF Applied
    <3>1. /\ SessionsStay
          /\ \A f \in Known' : file'[f].state = "live"
          /\ \A f \in Known : f \in Known' /\ file'[f].place = file[f].place
      BY <1>0, <3>0, PutShows
    <3>2. Len(sessions') = Len(sessions)
      BY <1>0, <3>0, PutDoes
    <3> QED  BY <1>2, <3>1, <3>2, FileAssumption DEF FilesStay, SessionsStay
  <2> QED  BY <2>1, <2>2, <2>3, SyncServer
<1>4. ASSUME NEW t \in Tasks, pc'[t] = "initiate", found'[t] # None
      PROVE  file'[found'[t]].place = call'[t].place
  <2>1. CASE /\ pc[t] = "initiate" /\ found'[t] = found[t]
             /\ call'[t].place = call[t].place
    BY <1>1, <1>3, <1>4, <2>1 DEF FilesStay
  <2>2. CASE /\ found'[t] \in Matches(t) /\ call'[t].place = call[t].place
             /\ UNCHANGED <<file, sessions>>
    BY <1>4, <2>2 DEF Matches, At
  <2> QED  BY <1>4, <2>1, <2>2, SyncTask
<1> QED  BY <1>3, <1>4 DEF FilesStay

-----------------------------------------------------------------------------
(* What is reported is there *)

\* The lists after a report.
LEMMA ReportsWhat ==
  ASSUME SyncTypeOK, NEW s \in Syncers, NEW p,
         NEW list \in {"uploaded", "skipped", "failed", "gone"}, Reports(s, p, list)
  PROVE  /\ \A q \in Syncers \ {s} : report'[q] = report[q]
         /\ report'[s].uploaded =
              report[s].uploaded \union (IF list = "uploaded" THEN {p} ELSE {})
         /\ report'[s].skipped =
              report[s].skipped \union (IF list = "skipped" THEN {p} ELSE {})
<1>1. report' = [report EXCEPT ![s][list] = @ \union {p}]
  BY DEF Reports
<1>2. CASE list = "uploaded"
  BY <1>1, <1>2 DEF SyncTypeOK
<1>3. CASE list = "skipped"
  BY <1>1, <1>3 DEF SyncTypeOK
<1>4. CASE list = "failed"
  BY <1>1, <1>4 DEF SyncTypeOK
<1>5. CASE list = "gone"
  BY <1>1, <1>5 DEF SyncTypeOK
<1> QED  BY <1>2, <1>3, <1>4, <1>5

\* A sync() that goes on sending a PUT is where it was, whoever acts.
LEMMA PutGoesOn ==
  ASSUME ReportFits, SendsFit, SyncAsks, [SyncNext]_allVars,
         NEW s \in Syncers, pc[s] = "put", pc'[s] = "put",
         current'[s] \notin touched'[s]
  PROVE  /\ stage[s] = "upload" /\ current'[s] = current[s]
         /\ current[s] \notin touched[s]
         /\ localFile'[current[s]] = localFile[current[s]]
         /\ \/ UNCHANGED <<file, sessions>>
            \/ Seen(file, current[s]) \subseteq Seen(file', current[s]) /\ ~Answered(s)
<1> USE SyncAssumption
<1>1. stage[s] = "upload"
  BY DEF SyncAsks, Resting
<1>2. SyncTypeOK /\ current[s] \in listed[s] \ todo[s]
  BY <1>1, CurrentListed DEF ReportFits
<1>3. ~Answered(s)
  BY DEF Answered, End, SendsFit
<1>4. ASSUME NEW own, OthersTouch(own), s \notin own, current'[s] = current[s]
      PROVE  /\ current[s] \notin touched[s]
             /\ localFile'[current[s]] = localFile[current[s]]
             /\ Seen(file, current[s]) \subseteq Seen(file', current[s])
  BY <1>2, <1>4, Untouched
<1>5. ASSUME NEW q \in Syncers, SyncBegins(q) \/ SyncTakes(q) \/ SyncCompares(q)
                                \/ SyncEnds(q)
      PROVE  /\ q # s
             /\ current'[s] = current[s] /\ touched'[s] = touched[s]
             /\ UNCHANGED <<localFile, file, sessions>>
  <2>1. q # s
    BY <1>1, <1>5 DEF SyncBegins, SyncTakes, SyncCompares, SyncEnds
  <2> QED  BY <1>2, <1>5, <2>1
           DEF SyncBegins, SyncTakes, SyncCompares, SyncEnds, SyncTypeOK, vars, server
<1>6. ASSUME SyncCalls(s)
      PROVE  /\ current'[s] = current[s] /\ touched'[s] = touched[s]
             /\ UNCHANGED <<localFile, file, sessions>>
  <2>1. UNCHANGED <<localFile, current>> /\ touched'[s] = touched[s]
    BY <1>6 DEF SyncCalls, OthersTouch
  <2>2. TimesOut(s) \/ Transient(s)
    BY <1>3, <1>6 DEF SyncCalls, Find, Initiate, Refused, End, SendsFit
  <2> QED  BY <2>1, <2>2 DEF TimesOut, Transient, GiveUp, server
<1>7. ASSUME NEW q \in Syncers \ {s}, SyncCalls(q)
      PROVE  OthersTouch({q}) /\ current'[s] = current[s]
  BY <1>7 DEF SyncCalls
<1>8. ASSUME Edit \/ Others PROVE OthersTouch({}) /\ current'[s] = current[s]
  BY <1>8 DEF Edit, Others
<1>9. ~Dies
  BY DEF Dies, Crash
<1>10. CASE UNCHANGED allVars
  BY <1>1, <1>10 DEF allVars, vars, syncVars
<1>11. CASE SyncNext
  <2>1. ASSUME NEW q \in Syncers, SyncBegins(q) \/ SyncTakes(q) \/ SyncCompares(q)
                                  \/ SyncEnds(q)
        PROVE  /\ current'[s] = current[s] /\ current[s] \notin touched[s]
               /\ localFile'[current[s]] = localFile[current[s]]
               /\ UNCHANGED <<file, sessions>>
    BY <1>5, <2>1
  <2>2. ASSUME SyncCalls(s)
        PROVE  /\ current'[s] = current[s] /\ current[s] \notin touched[s]
               /\ localFile'[current[s]] = localFile[current[s]]
               /\ UNCHANGED <<file, sessions>>
    BY <1>6, <2>2
  <2>3. ASSUME NEW own, OthersTouch(own), s \notin own, current'[s] = current[s]
        PROVE  /\ current[s] \notin touched[s]
               /\ localFile'[current[s]] = localFile[current[s]]
               /\ Seen(file, current[s]) \subseteq Seen(file', current[s])
    BY <1>4, <2>3
  <2>4. ASSUME NEW q \in Syncers \ {s}, SyncCalls(q)
        PROVE  /\ current'[s] = current[s] /\ current[s] \notin touched[s]
               /\ localFile'[current[s]] = localFile[current[s]]
               /\ Seen(file, current[s]) \subseteq Seen(file', current[s])
    <3>1. OthersTouch({q}) /\ s \notin {q} /\ current'[s] = current[s]
      BY <1>7, <2>4
    <3> QED  BY <2>3, <3>1
  <2>5. ASSUME Edit \/ Others
        PROVE  /\ current'[s] = current[s] /\ current[s] \notin touched[s]
               /\ localFile'[current[s]] = localFile[current[s]]
               /\ Seen(file, current[s]) \subseteq Seen(file', current[s])
    <3>1. OthersTouch({}) /\ current'[s] = current[s]
      BY <1>8, <2>5
    <3> QED  BY <2>3, <3>1
  <2> QED  BY <1>1, <1>3, <1>9, <1>11, <2>1, <2>2, <2>4, <2>5 DEF SyncNext, Sync
<1> QED  BY <1>10, <1>11

LEMMA PutsMirrorNext ==
  ASSUME ReportFits, SendsFit, SyncAsks, FilesStay, PutsMirror, [SyncNext]_allVars
  PROVE  PutsMirror'
<1> SUFFICES ASSUME NEW s \in Syncers, pc'[s] = "put", current'[s] \notin touched'[s]
             PROVE  /\ \A q \in inAir' : q.file = found'[s] =>
                                           q.content = localFile'[current'[s]]
                    /\ sessions'[found'[s]].made # None =>
                         localFile'[current'[s]] \in Seen(file', current'[s])
  BY DEF PutsMirror
<1>0. ServerOK /\ s \in Tasks
  BY SyncAssumption DEF SendsFit
<1>1. CASE Initiate(s) /\ found'[s] = Len(sessions')
  <2>1. pc[s] = "initiate" /\ found[s] \in Known \union {None} /\ call[s].place \in Places
    BY <1>0, <1>1, Asked DEF Initiate, SendsFit, Sends, Resting
  <2>2. /\ Len(sessions') = Len(sessions) + 1 /\ Len(sessions) \in Nat
        /\ sessions'[Len(sessions')].made = None
    BY <1>0, <1>1, <2>1, Appended, Held
  <2>3. \A q \in inAir' : q.file \in 1..Len(sessions)
    BY <1>0, <1>1, Held DEF Initiate, SendsFit, RequestOK
  <2> QED  BY <1>1, <2>2, <2>3
<1>2. CASE pc[s] = "put" /\ found'[s] = found[s]
  <2> DEFINE p == current[s]
  <2>1. /\ stage[s] = "upload" /\ current'[s] = p /\ p \notin touched[s]
        /\ localFile'[p] = localFile[p]
        /\ \/ UNCHANGED <<file, sessions>>
           \/ Seen(file, p) \subseteq Seen(file', p) /\ ~Answered(s)
    BY <1>2, PutGoesOn
  <2>2. /\ found[s] \in 1..Len(sessions)
        /\ sessions[found[s]].place = p /\ call[s].content = localFile[p]
    BY <1>0, <1>2, <2>1 DEF SendsFit, Sends, SyncAsks
  <2>3. /\ \A q \in inAir : q.file = found[s] => q.content = localFile[p]
        /\ sessions[found[s]].made # None => localFile[p] \in Seen(file, p)
    BY <1>2, <2>1 DEF PutsMirror
  <2> HIDE DEF p
  <2>4. ASSUME NEW q \in inAir', q.file = found[s] PROVE q.content = localFile[p]
    <3>1. CASE q \in inAir
      BY <2>3, <2>4, <3>1
    <3>2. CASE q \notin inAir
      <4>1. PICK t \in Tasks : /\ inAir' = inAir \union {Request(t)} /\ pc[t] = "put"
        BY <2>4, <3>2, SyncAir
      <4>2. q = Request(t)
        BY <3>2, <4>1, <2>4
      <4>3. t = s
        BY <1>0, <1>2, <2>4, <4>1, <4>2 DEF SendsFit, Request
      <4> QED  BY <2>2, <4>2, <4>3 DEF Request
    <3> QED  BY <3>1, <3>2
  <2>5. ASSUME sessions'[found[s]].made # None
        PROVE  localFile[p] \in Seen(file', p)
    <3>1. CASE sessions[found[s]].made # None
      BY <2>1, <2>3, <3>1
    <3>2. CASE sessions[found[s]].made = None
      <4>1. sessions' # sessions
        BY <2>5, <3>2
      <4>2. ~Answered(s)
        BY <2>1, <4>1
      <4>3. ASSUME NEW t \in Tasks, Initiate(t) PROVE FALSE
        <5>1. pc[t] = "initiate" /\ found[t] \in Known \union {None}
              /\ call[t].place \in Places
          BY <4>3, Asked DEF Initiate, SendsFit, Sends, Resting
        <5>2. sessions'[found[s]] = sessions[found[s]]
          BY <1>0, <2>2, <4>3, <5>1, Appended
        <5> QED  BY <2>5, <3>2, <5>2
      <4>4. PICK q : Applied(q)
        BY <4>1, <4>3, SyncServer
      <4>5. RequestOK(q) /\ q.op = "upload" /\ Apply(q)
        BY <4>4 DEF Applied
      <4>6. q.file = found[s]
        <5>1. q.file # found[s] => sessions'[found[s]] = sessions[found[s]]
          BY <1>0, <2>2, <4>5, PutShows
        <5> QED  BY <2>5, <3>2, <5>1
      <4>7. q \in inAir
        <5>1. ASSUME NEW t \in Tasks, Answered(t), q = Request(t) PROVE FALSE
          <6>1. pc[t] = "put" /\ found[t] = found[s]
            BY <4>6, <5>1 DEF Answered, SendsFit, Sends, Changing, Request
          <6>2. t = s
            BY <1>0, <1>2, <6>1 DEF SendsFit
          <6> QED  BY <4>2, <5>1, <6>2
        <5> QED  BY <4>4, <5>1 DEF Applied
      <4>8. q.content = localFile[p]
        BY <2>3, <4>6, <4>7
      <4>9. q.content \in Seen(file', p)
        BY <1>0, <2>2, <3>2, <4>5, <4>6, PutShows
      <4> QED  BY <4>8, <4>9
    <3> QED  BY <3>1, <3>2
  <2> QED  BY <1>2, <2>1, <2>4, <2>5
<1> QED  BY <1>0, <1>1, <1>2, SyncTask

\* One syncer: what ReportedIsMirrored says of it.
Mirrored(s) == \A p \in (report[s].uploaded \union report[s].skipped) \ touched[s] :
  localFile[p] \in Seen(file, p)

\* The files it reported before are as they were, whoever else acts.
LEMMA MirroredBesides ==
  ASSUME ReportFits, NEW own, OthersTouch(own), NEW s \in Syncers \ own, Mirrored(s),
         report'[s] = report[s]
  PROVE  Mirrored(s)'
<1>1. ASSUME NEW p \in (report[s].uploaded \union report[s].skipped) \ touched'[s]
      PROVE  localFile'[p] \in Seen(file', p)
  <2>1. p \in listed[s] \ todo[s]
    BY <1>1 DEF ReportFits, FilesAccounted, Named
  <2>2. /\ p \notin touched[s] /\ localFile'[p] = localFile[p]
        /\ Seen(file, p) \subseteq Seen(file', p)
    BY <1>1, <2>1, Untouched DEF ReportFits
  <2> QED  BY <1>1, <2>2 DEF Mirrored
<1> QED  BY <1>1 DEF Mirrored

\* Nothing is touched, and nothing more is said to be in Drive.
LEMMA MirroredSame ==
  ASSUME NEW s \in Syncers, Mirrored(s), UNCHANGED <<file, localFile, touched[s]>>,
         report'[s].uploaded \union report'[s].skipped
           \subseteq report[s].uploaded \union report[s].skipped
  PROVE  Mirrored(s)'
BY DEF Mirrored

LEMMA MirroredCompares ==
  ASSUME ReportFits, SyncAsks, NEW s \in Syncers, SyncCompares(s), Mirrored(s)
  PROVE  Mirrored(s)'
<1> DEFINE p == current[s]
<1>0. UNCHANGED <<file, localFile, touched>> /\ SyncTypeOK /\ stage[s] = "lookup"
  BY DEF SyncCompares, server, ReportFits
<1>1. PICK f \in Matches(s) :
        \/ SameContent(s, f) /\ Skip(s)
        \/ UploadBegins(s)
        \/ FileFails(s, current[s])
  BY DEF SyncCompares
<1>2. CASE SameContent(s, f) /\ Skip(s)
  <2>1. /\ report'[s].uploaded = report[s].uploaded
        /\ report'[s].skipped = report[s].skipped \union {p}
    BY <1>0, <1>2, ReportsWhat DEF Skip
  <2>2. ASSUME p \notin touched[s] PROVE localFile[p] \in Seen(file, p)
    <3>1. digest[s] = localFile[p] /\ call[s].place = p
      BY <1>0, <2>2 DEF SyncAsks
    <3>2. f \in At(p) /\ file[f].content = digest[s]
      BY <1>2, <3>1 DEF SameContent, Matches
    <3> QED  BY <3>1, <3>2 DEF At, Known, Seen
  <2> QED  BY <1>0, <2>1, <2>2 DEF Mirrored
<1>3. CASE UploadBegins(s)
  BY <1>0, <1>3, MirroredSame DEF UploadBegins
<1>4. CASE FileFails(s, current[s])
  BY <1>0, <1>4, ReportsWhat, MirroredSame DEF FileFails
<1> QED  BY <1>1, <1>2, <1>3, <1>4

LEMMA MirroredCalls ==
  ASSUME ReportFits, SendsFit, SyncAsks, FilesStay, PutsMirror,
         NEW s \in Syncers, SyncCalls(s), Mirrored(s)
  PROVE  Mirrored(s)'
<1> DEFINE p == current[s]
<1>0. /\ SyncTypeOK /\ ServerOK /\ s \in Tasks
      /\ stage[s] \in {"lookup", "upload"}
      /\ UNCHANGED localFile /\ touched'[s] = touched[s]
  BY SyncAssumption DEF ReportFits, SendsFit, SyncCalls, OthersTouch
<1>1. ASSUME NEW r \in report[s].uploaded \union report[s].skipped PROVE r # p
  BY <1>0, <1>1, CurrentListed DEF Named
<1>2. CASE Answered(s) /\ pc[s] = "put" /\ Readable(s) /\ Reports(s, current[s], "uploaded")
  <2> DEFINE q == Request(s)
  <2>1. /\ report'[s].uploaded = report[s].uploaded \union {p}
        /\ report'[s].skipped = report[s].skipped
    BY <1>0, <1>2, ReportsWhat
  <2>2. /\ RequestOK(q) /\ q.op = "upload" /\ q.file = found[s]
        /\ q.content = call[s].content /\ sessions[found[s]].place = call[s].place
        /\ Apply(q)
    BY <1>0, <1>2, PutRequest DEF Answered, Readable
  <2>3. stage[s] = "upload" /\ call[s].place = p /\ call[s].content = localFile[p]
    BY <1>0, <1>2 DEF SyncAsks
  <2> HIDE DEF q
  <2>4. /\ \A r : r # p => Seen(file, r) \subseteq Seen(file', r)
        /\ sessions[found[s]].made = None => localFile[p] \in Seen(file', p)
        /\ sessions[found[s]].made # None => UNCHANGED file
    BY <1>0, <2>2, <2>3, PutShows
  <2>5. ASSUME p \notin touched[s], sessions[found[s]].made # None
        PROVE  localFile[p] \in Seen(file, p)
    BY <1>2, <2>5 DEF PutsMirror
  <2>6. ASSUME p \notin touched[s] PROVE localFile[p] \in Seen(file', p)
    BY <2>4, <2>5, <2>6
  <2> HIDE DEF p
  <2> QED  BY <1>0, <1>1, <2>1, <2>4, <2>6 DEF Mirrored
<1>3. CASE \/ Reports(s, current[s], "failed")
           \/ UNCHANGED <<stage, report>>
  <2>1. report'[s].uploaded \union report'[s].skipped
           \subseteq report[s].uploaded \union report[s].skipped
    BY <1>0, <1>3, ReportsWhat
  <2>2. UNCHANGED file
    <3>1. ~Answered(s)
      <4>1. Answered(s) => pc'[s] = "done"
        BY <1>0 DEF Answered, End, SendsFit
      <4>2. pc'[s] = "done" => Reports(s, current[s], "uploaded")
        BY DEF SyncCalls, Follows
      <4>3. Reports(s, current[s], "uploaded") =>
              report'[s].uploaded = report[s].uploaded \union {p}
        BY <1>0, ReportsWhat
      <4>4. p \notin report[s].uploaded
        BY <1>1
      <4> QED  BY <2>1, <1>1, <4>1, <4>2, <4>3, <4>4
    <3> QED  BY <3>1 DEF SyncCalls, Find, Initiate, TimesOut, GiveUp, Transient, Refused,
                         server
  <2> QED  BY <1>0, <2>1, <2>2, MirroredSame
<1> QED  BY <1>0, <1>2, <1>3, CallsHow

LEMMA MirroredNext ==
  ASSUME ReportFits, SendsFit, SyncAsks, FilesStay, PutsMirror, ReportedIsMirrored,
         [SyncNext]_allVars
  PROVE  ReportedIsMirrored'
<1> SUFFICES ASSUME NEW q \in Syncers PROVE Mirrored(q)'
  BY DEF ReportedIsMirrored, Mirrored
<1>0. Mirrored(q) /\ SyncTypeOK
  BY DEF ReportedIsMirrored, Mirrored, ReportFits
<1>1. ASSUME NEW s \in Syncers, SyncBegins(s) PROVE Mirrored(q)'
  <2>1. UNCHANGED <<file, localFile>>
    BY <1>1 DEF SyncBegins, vars
  <2>2. CASE q = s
    BY <1>0, <1>1, <2>2 DEF SyncBegins, SyncTypeOK, EmptyReport, Mirrored
  <2>3. CASE q # s
    <3>1. report'[q] = report[q] /\ touched'[q] = touched[q]
      BY <1>0, <1>1, <2>3 DEF SyncBegins, SyncTypeOK
    <3> QED  BY <1>0, <2>1, <3>1, MirroredSame
  <2> QED  BY <2>2, <2>3
<1>2. ASSUME NEW s \in Syncers, SyncTakes(s) PROVE Mirrored(q)'
  <2>1. UNCHANGED <<file, localFile, touched>>
    BY <1>2 DEF SyncTakes, server
  <2>2. \E p : \E list \in {"gone", "failed"} : Reports(s, p, list) \/ UNCHANGED report
    BY <1>2 DEF SyncTakes, FileFails
  <2>3. report'[q].uploaded \union report'[q].skipped
           \subseteq report[q].uploaded \union report[q].skipped
    BY <1>0, <2>2, ReportsWhat
  <2> QED  BY <1>0, <2>1, <2>3, MirroredSame
<1>3. ASSUME NEW s \in Syncers, SyncCompares(s) PROVE Mirrored(q)'
  <2>1. CASE q = s
    BY <1>0, <1>3, <2>1, MirroredCompares
  <2>2. CASE q # s
    <3>1. UNCHANGED <<file, localFile, touched>>
      BY <1>3 DEF SyncCompares, server
    <3>2. \/ UNCHANGED report
          \/ Reports(s, current[s], "skipped") \/ Reports(s, current[s], "failed")
      BY <1>3 DEF SyncCompares, Skip, UploadBegins, FileFails
    <3>3. report'[q] = report[q]
      BY <1>0, <2>2, <3>2, ReportsWhat
    <3> QED  BY <1>0, <3>1, <3>3, MirroredSame
  <2> QED  BY <2>1, <2>2
<1>4. ASSUME NEW s \in Syncers, SyncCalls(s) PROVE Mirrored(q)'
  <2>1. CASE q = s
    BY <1>0, <1>4, <2>1, MirroredCalls
  <2>2. CASE q # s
    <3>1. OthersTouch({s}) /\ q \notin {s}
      BY <1>4, <2>2 DEF SyncCalls
    <3>2. report'[q] = report[q]
      BY <1>0, <1>4, <2>2, CallsHow
    <3> QED  BY <1>0, <3>1, <3>2, MirroredBesides
  <2> QED  BY <2>1, <2>2
<1>5. ASSUME NEW s \in Syncers, SyncEnds(s) PROVE Mirrored(q)'
  BY <1>0, <1>5, MirroredSame DEF SyncEnds, server
<1>6. ASSUME Edit \/ Others PROVE Mirrored(q)'
  <2>1. OthersTouch({}) /\ report' = report
    BY <1>6 DEF Edit, Others
  <2> QED  BY <1>0, <2>1, MirroredBesides
<1>7. ASSUME Dies PROVE Mirrored(q)'
  BY <1>7 DEF Dies, EmptyReport, Mirrored
<1>8. ASSUME UNCHANGED allVars PROVE Mirrored(q)'
  BY <1>0, <1>8, MirroredSame DEF allVars, vars, syncVars
<1> QED  BY <1>1, <1>2, <1>3, <1>4, <1>5, <1>6, <1>7, <1>8 DEF SyncNext, Sync

-----------------------------------------------------------------------------

LEMMA MirrorInit == SyncInit => SyncIInv
<1> SUFFICES ASSUME SyncInit PROVE SyncIInv
  OBVIOUS
<1>1. ReportFits
  BY ReportInit
<1>2. ServerOK
  BY InitFits, FitsServer DEF SyncInit
<1>3. /\ pc = [t \in Tasks |-> "idle"] /\ call = [t \in Tasks |-> None]
      /\ found = [t \in Tasks |-> None] /\ inAir = {} /\ sessions = <<>>
      /\ file = [f \in Files |-> None]
  BY DEF SyncInit, Init
<1>4. SendsFit
  BY <1>2, <1>3 DEF SendsFit, Sends, Resting
<1>5. SyncAsks
  BY <1>3, SyncAssumption DEF SyncInit, SyncAsks, Resting
<1>6. FilesStay
  BY <1>3 DEF FilesStay, Known
<1>7. PutsMirror
  BY <1>3, SyncAssumption DEF PutsMirror
<1>8. ReportedIsMirrored
  BY DEF SyncInit, EmptyReport, ReportedIsMirrored
<1> QED  BY <1>1, <1>4, <1>5, <1>6, <1>7, <1>8 DEF SyncIInv

LEMMA MirrorNext ==
  ASSUME TransfersOnly
  PROVE  SyncIInv /\ [SyncNext]_allVars => SyncIInv'
BY ReportNext, SendsNext, AsksNext, FilesStayNext, PutsMirrorNext, MirroredNext DEF SyncIInv

\* Where tasks transfer files and nobody deletes, copies or moves them, a file
\* that is reported as uploaded or unchanged is in Drive with the content it
\* has in the directory, unless somebody else touched it since its turn
\* (google_drive.py:512-525).
THEOREM ReportedFilesAreMirrored ==
  ASSUME TransfersOnly
  PROVE  SyncSpec => []ReportedIsMirrored
<1>1. SyncIInv /\ [SyncNext]_allVars => SyncIInv'
  BY MirrorNext
<1>2. SyncIInv => ReportedIsMirrored
  BY DEF SyncIInv
<1> QED  BY MirrorInit, <1>1, <1>2, PTL DEF SyncSpec

-----------------------------------------------------------------------------
(* Each step of a sync() spends one of finitely many attempts *)

LEMMA AttemptsInit == SyncInit => AttemptsFit
<1> SUFFICES ASSUME SyncInit PROVE AttemptsFit
  OBVIOUS
<1>1. /\ pc = [t \in Tasks |-> "idle"] /\ call = [t \in Tasks |-> None]
      /\ attempt = [t \in Tasks |-> 0] /\ stage = [s \in Syncers |-> "idle"]
  BY DEF SyncInit, Init
<1> QED  BY <1>1, SyncAssumption, FileAssumption DEF AttemptsFit, Resting

\* Steps of one task: the end of an operation, its next call, another attempt.
AttemptsTyped ==
  /\ pc \in [Tasks -> Resting \union Changing \union
                      {"find", "initiate", "open", "stream"}]
  /\ call \in [Tasks -> Calls \union SyncRequests \union {None}]
  /\ attempt \in [Tasks -> 0..MaxRetries]

LEMMA TaskTyped ==
  ASSUME AttemptsTyped, NEW t \in Tasks,
         \/ Begin(t) \/ Find(t) \/ Initiate(t) \/ Answered(t)
         \/ Transient(t) \/ TimesOut(t) \/ Refused(t)
         \/ Open(t) \/ Complete(t) \/ BreakOff(t)
  PROVE  /\ AttemptsTyped'
         /\ \A u \in Tasks \ {t} : pc'[u] = pc[u] /\ call'[u] = call[u]
                                   /\ attempt'[u] = attempt[u]
<1> USE FileAssumption DEF AttemptsTyped
<1>1. CASE Begin(t)
  BY <1>1 DEF Begin
<1>2. ASSUME NEW o \in {"done", "failed"}, End(t, o)
      PROVE  /\ AttemptsTyped'
             /\ \A u \in Tasks \ {t} : pc'[u] = pc[u] /\ call'[u] = call[u]
                                       /\ attempt'[u] = attempt[u]
  BY <1>2 DEF End, Resting
<1>3. ASSUME NEW step \in Changing \union {"initiate", "open", "stream"}, Goto(t, step)
      PROVE  /\ AttemptsTyped'
             /\ \A u \in Tasks \ {t} : pc'[u] = pc[u] /\ call'[u] = call[u]
                                       /\ attempt'[u] = attempt[u]
  BY <1>3 DEF Goto
<1>4. ASSUME RetryOrFail(t)
      PROVE  /\ AttemptsTyped'
             /\ \A u \in Tasks \ {t} : pc'[u] = pc[u] /\ call'[u] = call[u]
                                       /\ attempt'[u] = attempt[u]
  <2>1. CASE End(t, "failed")
    BY <1>2, <2>1
  <2>2. CASE ~End(t, "failed")
    BY <1>4, <2>2 DEF RetryOrFail
  <2> QED  BY <2>1, <2>2
<1>5. CASE Find(t)
  <2>1. NextCall(call[t].op) \in {"initiate", "open", "change"}
    BY DEF NextCall
  <2>2. \/ \E o \in {"done", "failed"} : End(t, o)
        \/ Goto(t, NextCall(call[t].op))
    BY <1>5 DEF Find
  <2>3. CASE \E o \in {"done", "failed"} : End(t, o)
    BY <1>2, <2>3
  <2>4. CASE \E step \in {"initiate", "open", "change"} : Goto(t, step)
    BY <1>3, <2>4 DEF Changing
  <2> QED  BY <2>1, <2>2, <2>3, <2>4
<1>6. CASE Initiate(t) \/ Open(t)
  <2>1. \E step \in {"put", "stream"} : Goto(t, step)
    BY <1>6 DEF Initiate, Open
  <2> QED  BY <1>3, <2>1 DEF Changing
<1>7. CASE Answered(t) \/ Refused(t) \/ Complete(t) \/ BreakOff(t)
  <2>1. \E o \in {"done", "failed"} : End(t, o)
    BY <1>7 DEF Answered, Refused, Complete, BreakOff
  <2> QED  BY <1>2, <2>1
<1>8. CASE Transient(t) \/ TimesOut(t)
  BY <1>4, <1>8 DEF Transient, TimesOut
<1> QED  BY <1>1, <1>5, <1>6, <1>7, <1>8

\* One syncer: what AttemptsFit says of it.
Tried(s) ==
  /\ stage[s] \notin {"lookup", "upload"} => attempt[s] = 0
  /\ stage[s] = "lookup" =>
       pc[s] = "find" /\ call[s] \in SyncRequests /\ call[s].op = "lookup"
  /\ stage[s] = "upload" =>
       /\ pc[s] \in {"find", "initiate", "put"}
       /\ call[s] \in SyncRequests /\ call[s].op = "upload"

LEMMA AttemptsParts == AttemptsFit <=> AttemptsTyped /\ \A s \in Syncers : Tried(s)
BY DEF AttemptsFit, AttemptsTyped, Tried

\* A call of sync() ends its turn, or is followed by the next one, or tried again.
LEMMA CallSpends ==
  ASSUME SyncTypeOK, AttemptsFit, NEW s \in Syncers, SyncCalls(s)
  PROVE  /\ \/ stage'[s] = "next" /\ pc'[s] \in Resting /\ attempt'[s] = 0
            \/ /\ UNCHANGED stage /\ call'[s] = call[s]
               /\ \/ /\ stage[s] = "upload" /\ attempt'[s] = 0
                     /\ \/ pc[s] = "find" /\ pc'[s] = "initiate"
                        \/ pc[s] = "initiate" /\ pc'[s] = "put"
                  \/ /\ pc'[s] = pc[s] /\ attempt[s] < MaxRetries
                     /\ attempt'[s] = attempt[s] + 1
         /\ \A q \in Syncers \ {s} : stage'[q] = stage[q]
<1>1. /\ s \in Tasks /\ Tried(s) /\ AttemptsTyped
      /\ stage \in [Syncers -> {"idle", "next", "lookup", "upload", "returned", "aborted"}]
      /\ stage[s] \in {"lookup", "upload"}
  BY SyncAssumption, AttemptsParts DEF SyncCalls, SyncTypeOK
<1>2. ASSUME NEW o \in {"done", "failed"}, End(s, o)
      PROVE  /\ stage'[s] = "next" /\ pc'[s] \in Resting /\ attempt'[s] = 0
             /\ \A q \in Syncers \ {s} : stage'[q] = stage[q]
  <2>1. pc'[s] = o /\ attempt'[s] = 0
    BY <1>1, <1>2 DEF End, AttemptsTyped
  <2>2. stage' = [stage EXCEPT ![s] = "next"]
    BY <2>1 DEF SyncCalls, Follows, FileFails, Reports
  <2> QED  BY <1>1, <2>1, <2>2 DEF Resting
<1>3. ASSUME pc'[s] \notin {"done", "failed"} PROVE UNCHANGED stage
  BY <1>3 DEF SyncCalls, Follows
<1>4. CASE stage[s] = "upload" /\ Find(s)
  <2>1. Goto(s, "initiate") /\ pc[s] = "find"
    BY <1>1, <1>4 DEF Find, NextCall, Tried
  <2> QED  BY <1>1, <1>3, <1>4, <2>1 DEF Goto, AttemptsTyped
<1>5. CASE stage[s] = "upload" /\ Initiate(s)
  BY <1>1, <1>3, <1>5 DEF Initiate, Goto, AttemptsTyped
<1>6. CASE Answered(s) \/ Refused(s)
  <2>1. \E o \in {"done", "failed"} : End(s, o)
    BY <1>6 DEF Answered, Refused
  <2> QED  BY <1>2, <2>1
<1>7. CASE Transient(s) \/ TimesOut(s)
  <2>1. CASE End(s, "failed")
    BY <1>2, <2>1
  <2>2. CASE /\ attempt[s] < MaxRetries
             /\ attempt' = [attempt EXCEPT ![s] = @ + 1]
             /\ UNCHANGED <<pc, call, found>>
    <3>1. pc[s] \notin {"done", "failed"}
      BY <1>1 DEF Tried
    <3> QED  BY <1>1, <1>3, <2>2, <3>1 DEF AttemptsTyped
  <2> QED  BY <1>7, <2>1, <2>2 DEF Transient, TimesOut, RetryOrFail
<1> QED  BY <1>4, <1>5, <1>6, <1>7 DEF SyncCalls

LEMMA AttemptsNext ==
  ASSUME ReportFits, AttemptsFit, [SyncNext]_allVars
  PROVE  AttemptsFit'
<1> USE SyncAssumption DEF ReportFits, SyncTypeOK
<1>0. AttemptsTyped /\ \A s \in Syncers : Tried(s)
  BY AttemptsParts
<1>1. ASSUME NEW q \in Syncers, UNCHANGED <<stage[q], pc[q], call[q], attempt[q]>>
      PROVE  Tried(q)'
  BY <1>0, <1>1 DEF Tried
<1>2. ASSUME NEW s \in Syncers, SyncBegins(s) PROVE AttemptsFit'
  <2>1. /\ UNCHANGED <<pc, call, attempt>> /\ stage' = [stage EXCEPT ![s] = "next"]
        /\ stage[s] \in {"idle", "returned", "aborted"}
    BY <1>2 DEF SyncBegins, vars
  <2> QED  BY <1>0, <2>1 DEF AttemptsFit, AttemptsTyped, Tried
<1>3. ASSUME NEW s \in Syncers, NEW op \in {"lookup", "upload"}, NEW p \in Places,
             NEW content \in Contents \union {None}, Calling(s, op, p, content),
             stage' = [stage EXCEPT ![s] = op]
      PROVE  AttemptsFit'
  <2>1. [op |-> op, place |-> p, dst |-> None, content |-> content] \in SyncRequests
    BY DEF SyncRequests
  <2>2. AttemptsTyped'
    BY <1>0, <1>3, <2>1, FileAssumption DEF Calling, AttemptsTyped
  <2>3. Tried(s)'
    BY <1>0, <1>3, <2>1 DEF Calling, AttemptsTyped, Tried
  <2>4. \A q \in Syncers \ {s} : UNCHANGED <<stage[q], pc[q], call[q], attempt[q]>>
    BY <1>0, <1>3 DEF Calling, AttemptsTyped
  <2> QED  BY <1>1, <2>2, <2>3, <2>4 DEF AttemptsFit, AttemptsTyped, Tried
<1>4. ASSUME NEW s \in Syncers, SyncTakes(s) PROVE AttemptsFit'
  <2>1. PICK p \in todo[s] :
          \/ /\ stage' = [stage EXCEPT ![s] = "next"] /\ UNCHANGED <<pc, call, attempt>>
          \/ Calling(s, "lookup", p, None) /\ stage' = [stage EXCEPT ![s] = "lookup"]
    BY <1>4 DEF SyncTakes, Reports, FileFails
  <2>2. p \in Places /\ stage[s] = "next"
    BY <1>4 DEF SyncTakes
  <2>3. CASE stage' = [stage EXCEPT ![s] = "next"] /\ UNCHANGED <<pc, call, attempt>>
    BY <1>0, <2>2, <2>3 DEF AttemptsFit, AttemptsTyped, Tried
  <2> QED  BY <1>3, <2>1, <2>2, <2>3
<1>5. ASSUME NEW s \in Syncers, SyncCompares(s) PROVE AttemptsFit'
  <2>1. current[s] \in Places /\ localFile[current[s]] \in Contents \union {None}
    BY <1>5, CurrentListed DEF SyncCompares
  <2>2. \/ /\ Calling(s, "upload", current[s], localFile[current[s]])
           /\ stage' = [stage EXCEPT ![s] = "upload"]
        \/ /\ End(s, "done") \/ End(s, "failed")
           /\ stage' = [stage EXCEPT ![s] = "next"]
    BY <1>5 DEF SyncCompares, Skip, UploadBegins, FileFails, Reports
  <2>3. CASE /\ End(s, "done") \/ End(s, "failed")
             /\ stage' = [stage EXCEPT ![s] = "next"]
    <3> s \in Tasks /\ 0 \in 0..MaxRetries
      BY FileAssumption
    <3>0. PICK o \in {"done", "failed"} : End(s, o)
      BY <2>3
    <3>1. AttemptsTyped'
      BY <1>0, <3>0 DEF End, AttemptsTyped, Resting
    <3>2. Tried(s)'
      BY <1>0, <2>3 DEF End, AttemptsTyped, Tried
    <3>3. \A q \in Syncers \ {s} : UNCHANGED <<stage[q], pc[q], call[q], attempt[q]>>
      BY <1>0, <2>3 DEF End, AttemptsTyped
    <3> QED  BY <1>1, <3>1, <3>2, <3>3 DEF AttemptsFit, AttemptsTyped, Tried
  <2> QED  BY <1>3, <2>1, <2>2, <2>3
<1>6. ASSUME NEW s \in Syncers, SyncCalls(s) PROVE AttemptsFit'
  <2>1. /\ AttemptsTyped'
        /\ \A u \in Tasks \ {s} : pc'[u] = pc[u] /\ call'[u] = call[u]
                                  /\ attempt'[u] = attempt[u]
    BY <1>0, <1>6, TaskTyped DEF SyncCalls
  <2>2. Tried(s)'
    <3>1. Tried(s) /\ stage[s] \in {"lookup", "upload"}
      BY <1>0, <1>6 DEF SyncCalls
    <3> QED  BY <1>6, <3>1, CallSpends DEF Tried
  <2>3. \A q \in Syncers \ {s} : UNCHANGED <<stage[q], pc[q], call[q], attempt[q]>>
    BY <1>6, <2>1, CallSpends
  <2> QED  BY <1>1, <2>1, <2>2, <2>3 DEF AttemptsFit, AttemptsTyped, Tried
<1>7. ASSUME NEW s \in Syncers, SyncEnds(s) PROVE AttemptsFit'
  <2>1. /\ stage[s] = "next"
        /\ \E how \in {"returned", "aborted"} : stage' = [stage EXCEPT ![s] = how]
        /\ pc' = [pc EXCEPT ![s] = "idle"] /\ UNCHANGED <<call, attempt>>
    BY <1>7 DEF SyncEnds
  <2> QED  BY <1>0, <2>1 DEF AttemptsFit, AttemptsTyped, Tried, Resting
<1>8. CASE Edit
  <2>1. PICK p \in Places, c \in Contents \union {None} :
          call' = [v \in Tasks |->
                       IF v \in Syncers /\ pc[v] \notin Resting /\ stage[v] = "upload"
                          /\ current[v] = p
                       THEN [call[v] EXCEPT !.content = c] ELSE call[v]]
    BY <1>8 DEF Edit
  <2>2. UNCHANGED <<pc, attempt, stage>>
    BY <1>8 DEF Edit
  <2>3. ASSUME NEW v \in Tasks
        PROVE  /\ call'[v] \in Calls \union SyncRequests \union {None}
               /\ \/ call'[v] = call[v]
                  \/ /\ call[v] \in SyncRequests /\ call'[v] \in SyncRequests
                     /\ call'[v].op = call[v].op
    <3>1. CASE call'[v] # call[v]
      <4>1. call[v] \in SyncRequests /\ call'[v] = [call[v] EXCEPT !.content = c]
        BY <1>0, <2>1, <3>1 DEF Tried
      <4> QED  BY <4>1 DEF SyncRequests
    <3> QED  BY <1>0, <3>1 DEF AttemptsTyped
  <2>4. AttemptsTyped'
    BY <1>0, <2>1, <2>2, <2>3 DEF AttemptsTyped
  <2>5. \A q \in Syncers : Tried(q)'
    BY <1>0, <2>2, <2>3 DEF Tried
  <2> QED  BY <2>4, <2>5 DEF AttemptsFit, AttemptsTyped, Tried
<1>9. CASE Others
  <2>1. UNCHANGED stage
    BY <1>9 DEF Others
  <2>2. /\ AttemptsTyped'
        /\ \A q \in Syncers : UNCHANGED <<pc[q], call[q], attempt[q]>>
    <3>1. CASE ApplyLate
      BY <1>0, <3>1 DEF ApplyLate, task, AttemptsTyped
    <3> QED  BY <1>0, <1>9, <3>1, TaskTyped DEF Others
  <2> QED  BY <1>1, <2>1, <2>2 DEF AttemptsFit, AttemptsTyped, Tried
<1>10. CASE Dies
  <2>1. /\ pc' = [t \in Tasks |-> "idle"] /\ call' = [t \in Tasks |-> None]
        /\ attempt' = [t \in Tasks |-> 0] /\ stage' = [s \in Syncers |-> "idle"]
    BY <1>10 DEF Dies, Crash
  <2> QED  BY <2>1, FileAssumption DEF AttemptsFit, Resting
<1>11. CASE UNCHANGED allVars
  BY <1>0, <1>1, <1>11 DEF AttemptsFit, allVars, vars, syncVars, AttemptsTyped, Tried
<1> QED  BY <1>2, <1>4, <1>5, <1>6, <1>7, <1>8, <1>9, <1>10, <1>11 DEF SyncNext, Sync

\* With fewer calls to make, or the same and one attempt more made of them.
LEMMA Fewer ==
  ASSUME NEW r \in Nat, NEW m \in Nat, NEW n \in Nat, NEW a \in 0..r, NEW b \in 0..r,
         NEW g \in {0, 1}, NEW h \in {0, 1},
         \/ m < n /\ h =< g
         \/ m = n /\ a < b /\ h = g
         \/ m = n /\ a = b /\ h < g
  PROVE  m * (r + 1) - b + h < n * (r + 1) - a + g
<1>1. CASE m < n /\ h =< g
  <2>1. PICK k \in Nat : n = m + 1 + k
    <3>1. n - m - 1 \in Nat /\ n = m + 1 + (n - m - 1)
      BY <1>1
    <3> QED  BY <3>1
  <2>2. n * (r + 1) = m * (r + 1) + (r + 1) + k * (r + 1)
    BY <2>1
  <2>3. k * (r + 1) \in Nat /\ m * (r + 1) \in Nat
    BY <2>1
  <2> QED  BY <1>1, <2>2, <2>3
<1>2. CASE m = n /\ ((a < b /\ h = g) \/ (a = b /\ h < g))
  <2>1. m * (r + 1) \in Nat
    OBVIOUS
  <2> QED  BY <1>2, <2>1
<1> QED  BY <1>1, <1>2

Turns(s) == 5 * Cardinality(todo[s]) + CallsLeft(s)

LEMMA TurnsCount ==
  ASSUME IsFiniteSet(Places), ReportFits, AttemptsFit, NEW s \in Syncers
  PROVE  /\ Cardinality(todo[s]) \in Nat /\ IsFiniteSet(todo[s])
         /\ CallsLeft(s) \in 0..4
         /\ Turns(s) \in Nat /\ attempt[s] \in 0..MaxRetries
         /\ stage[s] \notin {"lookup", "upload"} => CallsLeft(s) = 0 /\ attempt[s] = 0
         /\ stage[s] \in {"lookup", "upload"} => CallsLeft(s) > 0
<1>1. IsFiniteSet(todo[s])
  BY FS_Subset DEF ReportFits, SyncTypeOK
<1>2. Cardinality(todo[s]) \in Nat
  BY <1>1, FS_CardinalityType
<1>3. CallsLeft(s) \in 0..4
  BY DEF CallsLeft
<1>4. Turns(s) \in Nat
  BY <1>2, <1>3 DEF Turns
<1>5. s \in Tasks
  BY SyncAssumption
<1> QED  BY <1>1, <1>2, <1>3, <1>4, <1>5 DEF AttemptsFit, CallsLeft

LEMMA LeftCount ==
  ASSUME IsFiniteSet(Places), ReportFits, AttemptsFit, NEW s \in Syncers
  PROVE  AttemptsLeft(s) \in Nat
<1>1. /\ Turns(s) \in Nat /\ attempt[s] \in 0..MaxRetries /\ MaxRetries \in Nat
      /\ attempt[s] > 0 => Turns(s) > 0
  <2>1. /\ Cardinality(todo[s]) \in Nat /\ CallsLeft(s) \in 0..4
        /\ Turns(s) \in Nat /\ attempt[s] \in 0..MaxRetries
        /\ attempt[s] > 0 => CallsLeft(s) > 0
    BY TurnsCount
  <2>2. CallsLeft(s) > 0 => Turns(s) > 0
    BY <2>1 DEF Turns
  <2> QED  BY <2>1, <2>2, FileAssumption
<1>2. Turns(s) * (MaxRetries + 1) \in Nat
  BY <1>1
<1>3. attempt[s] > 0 => Turns(s) * (MaxRetries + 1) >= MaxRetries + 1
  <2>1. CASE Turns(s) > 0
    <3>1. PICK k \in Nat : Turns(s) = k + 1
      <4>1. Turns(s) - 1 \in Nat
        BY <1>1, <2>1
      <4> QED  BY <1>1, <4>1
    <3>2. Turns(s) * (MaxRetries + 1) = k * (MaxRetries + 1) + (MaxRetries + 1)
      BY <1>1, <3>1
    <3>3. k * (MaxRetries + 1) \in Nat
      BY <1>1
    <3> QED  BY <1>1, <3>2, <3>3
  <2> QED  BY <1>1, <2>1
<1>4. AttemptsLeft(s) =
        Turns(s) * (MaxRetries + 1) - attempt[s] + (IF Going(s) THEN 1 ELSE 0)
  BY DEF AttemptsLeft, Turns
<1> HIDE DEF Turns
<1> QED  BY <1>1, <1>2, <1>3, <1>4

LEMMA StepSpends ==
  ASSUME IsFiniteSet(Places), ReportFits, AttemptsFit, NEW s \in Syncers, Sync(s),
         ReportFits', AttemptsFit'
  PROVE  AttemptsLeft(s)' < AttemptsLeft(s)
<1> DEFINE g == IF Going(s) THEN 1 ELSE 0
           h == IF Going(s)' THEN 1 ELSE 0
<1>1. /\ Cardinality(todo[s]) \in Nat /\ IsFiniteSet(todo[s])
      /\ CallsLeft(s) \in 0..4
      /\ Turns(s) \in Nat /\ attempt[s] \in 0..MaxRetries
      /\ stage[s] \notin {"lookup", "upload"} => CallsLeft(s) = 0 /\ attempt[s] = 0
      /\ stage[s] \in {"lookup", "upload"} => CallsLeft(s) > 0
  BY TurnsCount
<1>2. /\ Cardinality(todo'[s]) \in Nat
      /\ CallsLeft(s)' \in 0..4
      /\ Turns(s)' \in Nat /\ attempt'[s] \in 0..MaxRetries
      /\ stage'[s] \notin {"lookup", "upload"} => CallsLeft(s)' = 0 /\ attempt'[s] = 0
  <2>1. /\ IsFiniteSet(todo'[s]) /\ CallsLeft(s)' \in 0..4
    BY FS_Subset DEF ReportFits, SyncTypeOK, CallsLeft
  <2>2. Cardinality(todo'[s]) \in Nat
    BY <2>1, FS_CardinalityType
  <2>3. Turns(s)' \in Nat
    BY <2>1, <2>2 DEF Turns
  <2>4. s \in Tasks
    BY SyncAssumption
  <2> QED  BY <2>1, <2>2, <2>3, <2>4 DEF AttemptsFit, CallsLeft
<1>3. /\ Turns(s) = 5 * Cardinality(todo[s]) + CallsLeft(s)
      /\ Turns(s)' = 5 * Cardinality(todo'[s]) + CallsLeft(s)'
      /\ AttemptsLeft(s) = Turns(s) * (MaxRetries + 1) - attempt[s] + g
      /\ AttemptsLeft(s)' = Turns(s)' * (MaxRetries + 1) - attempt'[s] + h
  BY DEF AttemptsLeft, Turns
<1>4. MaxRetries \in Nat /\ g \in {0, 1} /\ h \in {0, 1} /\ g = 1
  BY FileAssumption
     DEF Going, Sync, SyncTakes, SyncCompares, SyncCalls, SyncEnds
<1>5. ReportFits /\ SyncTypeOK
  BY DEF ReportFits
<1> SUFFICES \/ Turns(s)' < Turns(s)
             \/ Turns(s)' = Turns(s) /\ attempt[s] < attempt'[s] /\ h = g
             \/ Turns(s)' = Turns(s) /\ attempt[s] = attempt'[s] /\ h < g
  <2> DEFINE m == Turns(s)'
             n == Turns(s)
  <2> HIDE DEF m, n, g, h
  <2>1. /\ m \in Nat /\ n \in Nat
        /\ AttemptsLeft(s) = n * (MaxRetries + 1) - attempt[s] + g
        /\ AttemptsLeft(s)' = m * (MaxRetries + 1) - attempt'[s] + h
    BY <1>1, <1>2, <1>3 DEF m, n
  <2>2. ASSUME \/ m < n
               \/ m = n /\ attempt[s] < attempt'[s] /\ h = g
               \/ m = n /\ attempt[s] = attempt'[s] /\ h < g
        PROVE  m * (MaxRetries + 1) - attempt'[s] + h
                 < n * (MaxRetries + 1) - attempt[s] + g
    BY <1>1, <1>2, <1>4, <2>1, <2>2, Fewer
  <2> QED  BY <2>1, <2>2 DEF m, n
<1>6. CASE SyncTakes(s)
  <2>1. PICK p \in todo[s] : todo' = [todo EXCEPT ![s] = @ \ {p}]
    BY <1>6 DEF SyncTakes
  <2>2. todo'[s] = todo[s] \ {p}
    BY <1>5, <2>1 DEF SyncTypeOK
  <2>3. Cardinality(todo'[s]) = Cardinality(todo[s]) - 1
    BY <1>1, <2>1, <2>2, FS_RemoveElement
  <2> QED  BY <1>1, <1>2, <1>3, <2>3
<1>7. CASE SyncCompares(s)
  <2>1. todo' = todo /\ stage[s] = "lookup"
    BY <1>7 DEF SyncCompares
  <2>2. \/ stage'[s] = "next"
        \/ stage'[s] = "upload" /\ pc'[s] = "find"
    <3>1. s \in Tasks /\ pc \in [Tasks -> Resting \union Changing \union
                                {"find", "initiate", "open", "stream"}]
      BY SyncAssumption DEF AttemptsFit
    <3> QED  BY <1>5, <1>7, <3>1 DEF SyncCompares, Skip, UploadBegins, FileFails, Reports,
                                     Calling, SyncTypeOK
  <2>3. CallsLeft(s) = 4 /\ CallsLeft(s)' < 4
    BY <2>1, <2>2 DEF CallsLeft
  <2> QED  BY <1>1, <1>2, <1>3, <2>1, <2>3
<1>8. CASE SyncCalls(s)
  <2>1. todo' = todo /\ stage[s] \in {"lookup", "upload"}
    BY <1>8 DEF SyncCalls
  <2>2. \/ stage'[s] = "next"
        \/ /\ UNCHANGED stage
           /\ \/ /\ stage[s] = "upload"
                 /\ \/ pc[s] = "find" /\ pc'[s] = "initiate"
                    \/ pc[s] = "initiate" /\ pc'[s] = "put"
              \/ /\ pc'[s] = pc[s] /\ attempt'[s] = attempt[s] + 1
    BY <1>5, <1>8, CallSpends
  <2>3. CASE stage'[s] = "next"
    BY <1>1, <1>2, <1>3, <2>1, <2>3
  <2>4. CASE /\ UNCHANGED stage /\ stage[s] = "upload"
             /\ \/ pc[s] = "find" /\ pc'[s] = "initiate"
                \/ pc[s] = "initiate" /\ pc'[s] = "put"
    <3>1. CallsLeft(s)' < CallsLeft(s)
      BY <2>4 DEF CallsLeft
    <3> QED  BY <1>1, <1>2, <1>3, <2>1, <3>1
  <2>5. CASE UNCHANGED stage /\ pc'[s] = pc[s] /\ attempt'[s] = attempt[s] + 1
    <3>1. CallsLeft(s)' = CallsLeft(s) /\ h = g
      BY <2>5 DEF CallsLeft, Going
    <3> QED  BY <1>1, <1>2, <1>3, <2>1, <2>5, <3>1
  <2> QED  BY <2>2, <2>3, <2>4, <2>5
<1>9. CASE SyncEnds(s)
  <2>1. /\ todo' = todo /\ attempt' = attempt
        /\ stage[s] = "next" /\ stage'[s] \in {"returned", "aborted"}
    BY <1>5, <1>9 DEF SyncEnds, SyncTypeOK
  <2>2. h = 0 /\ CallsLeft(s)' = 0 /\ CallsLeft(s) = 0
    BY <2>1 DEF Going, CallsLeft
  <2> QED  BY <1>3, <1>4, <2>1, <2>2
<1> QED  BY <1>6, <1>7, <1>8, <1>9 DEF Sync

\* Among finitely many places, whatever happens to its lookups and uploads and
\* whoever acts beside it, each step of a sync() leaves it fewer of its attempts,
\* which are never less than none: it does not go on for ever
\* (google_drive.py:506-531, retry.py:34-59).
THEOREM SyncSpendsAttempts ==
  ASSUME IsFiniteSet(Places)
  PROVE  SyncSpec => /\ [](\A s \in Syncers : AttemptsLeft(s) \in Nat)
                     /\ [][\A s \in Syncers : Spends(s)]_allVars
<1>1. SyncInit => ReportFits /\ AttemptsFit
  BY ReportInit, AttemptsInit
<1>2. ReportFits /\ AttemptsFit /\ [SyncNext]_allVars => ReportFits' /\ AttemptsFit'
  BY ReportNext, AttemptsNext
<1>3. ReportFits /\ AttemptsFit => \A s \in Syncers : AttemptsLeft(s) \in Nat
  BY LeftCount
<1>4. /\ ReportFits /\ AttemptsFit /\ ReportFits' /\ AttemptsFit' /\ [SyncNext]_allVars
      => [\A s \in Syncers : Spends(s)]_allVars
  BY StepSpends DEF Spends
<1> QED  BY <1>1, <1>2, <1>3, <1>4, PTL DEF SyncSpec
=============================================================================
