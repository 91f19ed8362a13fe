---------------------------- MODULE RecordsProofs ----------------------------
(***************************************************************************)
(* Records, for any numbers of requests, rows and objects: evidence and    *)
(* documents with their objects, a tool with its image and its checkouts,  *)
(* PDF reports, drawn signatures, the cached lists and the copies at       *)
(* HubSpot and Stripe.  For each component an inductive invariant, one     *)
(* lemma a step and what follows.  The invariants say of every request on  *)
(* its way what makes its next statement right; where the code cannot know *)
(* that, because two requests met or one was cut, a history variable says  *)
(* so and the invariant asks for nothing.                                  *)
(***************************************************************************)
EXTENDS Files, Tools, Reports, Signatures, Lists, Twins, TLAPS, FiniteSetTheorems

-----------------------------------------------------------------------------
(***************************************************************************)
(* Evidence and documents.  A row that is still to be made has an id of    *)
(* its own, so the path made of it is nobody else's, and its object is     *)
(* stored by then or the app has registered it bare; a removal takes the   *)
(* path its row names, and RowsAreNamed says that no other row names it,   *)
(* unless the file of the app was recorded twice.                          *)
(***************************************************************************)

\* Where a request may stand.
FileStands == {"idle", "store", "record", "unstore", "delete"}
FilePaths  == {OwnPath(i) : i \in FCopies} \cup {FixedPath, FreePath}
FilePhases == {"in_progress", "under_review", "completed"}
FileLocals == [id : FCopies \cup {0}, path : FilePaths \cup {NoPath}, key : BOOLEAN,
               bare : BOOLEAN, crossed : BOOLEAN]
FileRows   == [path : FilePaths \cup {NoPath}, text : BOOLEAN, bare : BOOLEAN]

\* A row names no path but its own or the app's, and one that names none is no row.
RowsAreNamed ==
  \A i \in FCopies : /\ files[i].path \in {NoPath, FixedPath, FreePath, OwnPath(i)}
                     /\ files[i].path = NoPath => files[i] = NoRecord

\* What a request knows of the row it is about: no row has the key it looked for, unless one
\* has been made since.
RequestIsAbout(r) ==
  /\ floc[r].key => floc[r].path = FixedPath
  /\ Recording(r) /\ floc[r].key /\ ~floc[r].crossed => \A i \in Recorded : files[i].path # FixedPath
  /\ fpc[r] # "idle" => floc[r].id \in FCopies
  /\ Recording(r) => floc[r].path \in {FixedPath, FreePath, OwnPath(floc[r].id)}

\* A row that is still to be made has an id nobody else has, and its object is stored by then
\* or was never.
RowIsNew(r) ==
  /\ fpc[r] \in {"store", "record"} =>
       /\ floc[r].id \notin Recorded
       /\ \A q \in FRequests \ {r} : floc[q].id # floc[r].id
  /\ fpc[r] = "record" /\ ~floc[r].bare => floc[r].path \in objects \/ doubled

\* Who removes a row that is there takes the path the row names.
RowIsKnown(r) ==
  fpc[r] \in {"unstore", "delete"} /\ floc[r].id \in Recorded => files[floc[r].id].path = floc[r].path

\* Unless it was recorded twice, a path is named by one row at most.
RowsAreOne ==
  ~doubled => \A i, j \in Recorded : files[i].path = files[j].path => i = j

\* The inductive invariant.
FileIInv ==
  /\ FileTypeOK /\ floc \in [FRequests -> FileLocals]
  /\ files \in [FCopies -> FileRows]
  /\ kind = "document" => ~keyed
  /\ RowsAreNamed /\ RowsAreOne /\ RecordHasObject
  /\ \A r \in FRequests : RequestIsAbout(r) /\ RowIsNew(r) /\ RowIsKnown(r)

\* Two rows with ids of their own name two objects, and neither the app's.
LEMMA PathsDiffer ==
  /\ NoPath # FixedPath /\ NoPath # FreePath /\ FixedPath # FreePath
  /\ \A i \in FCopies : OwnPath(i) # NoPath /\ OwnPath(i) # FixedPath /\ OwnPath(i) # FreePath /\ OwnPath(i) \in FilePaths
  /\ FixedPath \in FilePaths /\ FreePath \in FilePaths
  /\ \A i, j \in FCopies : OwnPath(i) = OwnPath(j) => i = j
BY FilesAssumption DEF NoPath, FixedPath, FreePath, OwnPath, FilePaths

\* What an idle request holds.
LEMMA NoFileIsLocal == NoFile \in FileLocals /\ NoFile.id = 0 /\ ~NoFile.key
BY DEF NoFile, FileLocals

\* A row that is not there names nothing.
LEMMA NoRecordIsNone == NoRecord.path = NoPath /\ NoRecord \in FileRows
BY DEF NoRecord, FileRows

\* No row, no object.
LEMMA FileInitial == FileInit => FileIInv
<1> SUFFICES ASSUME FileInit PROVE FileIInv
  OBVIOUS
<1>1. Recorded = {}
  BY DEF FileInit, Recorded
<1>2. FileTypeOK
  BY NoRecordIsNone DEF FileInit, FileTypeOK
<1>3. floc \in [FRequests -> FileLocals]
  BY NoFileIsLocal DEF FileInit
<1>4. files \in [FCopies -> FileRows] /\ RowsAreNamed
  BY NoRecordIsNone DEF FileInit, RowsAreNamed
<1>5. \A r \in FRequests : RequestIsAbout(r) /\ RowIsNew(r) /\ RowIsKnown(r)
  BY NoFileIsLocal DEF FileInit, RequestIsAbout, RowIsNew, RowIsKnown, Recording
<1> QED BY <1>1, <1>2, <1>3, <1>4, <1>5 DEF FileInit, FileIInv, RowsAreOne, RecordHasObject

\* A request goes to another await; the others stay.
LEMMA FileGoes ==
  ASSUME FileIInv, NEW r \in FRequests, NEW at \in FileStands, NEW l \in FileLocals, FGo(r, at, l)
  PROVE  /\ fpc' \in [FRequests -> FileStands] /\ floc' \in [FRequests -> FileLocals]
         /\ fpc'[r] = at /\ floc'[r] = l
         /\ \A q \in FRequests \ {r} : fpc'[q] = fpc[q] /\ floc'[q] = floc[q]
BY DEF FileIInv, FileTypeOK, FGo, FileStands

\* Recording a row: who begins has looked for a row with its key and takes a free id.
LEMMA RecordKeeps ==
  ASSUME FileIInv, NEW r \in FRequests, NEW i \in FCopies, NEW path \in {FixedPath, FreePath, OwnPath(i)},
         NEW key \in BOOLEAN, NEW at \in {"store", "record"}, Record(r, i, path, key, at),
         key => ~Answered /\ keyed
  PROVE  FileIInv'
<1> DEFINE l == [id |-> i, path |-> path, key |-> key /\ path = FixedPath,
                 bare |-> at = "record" /\ path \notin objects, crossed |-> FALSE]
<1>1. /\ l \in FileLocals /\ l.id = i /\ l.path = path /\ ~l.crossed
      /\ l.key => key /\ path = FixedPath
      /\ at = "record" /\ ~l.bare => path \in objects
  BY PathsDiffer DEF FileLocals
<1>1a. l.key => \A j \in Recorded : files[j].path # FixedPath
  BY <1>1 DEF Answered
<1>2. FGo(r, at, l) /\ FUnchanged /\ i \notin Recorded /\ \A q \in FRequests : floc[q].id # i
  BY DEF Record, FreeRecords
<1> HIDE DEF l
<1>3. /\ fpc' \in [FRequests -> FileStands] /\ floc' \in [FRequests -> FileLocals]
      /\ fpc'[r] = at /\ floc'[r] = l
      /\ \A q \in FRequests \ {r} : fpc'[q] = fpc[q] /\ floc'[q] = floc[q]
  BY <1>1, <1>2, FileGoes DEF FileStands
<1>4. /\ kind' = kind /\ keyed' = keyed /\ phase' = phase /\ files' = files
      /\ objects' = objects /\ textJobs' = textJobs /\ working' = working /\ fileCut' = fileCut /\ doubled' = doubled
  BY <1>2 DEF FUnchanged, same
<1>5. Recorded' = Recorded
  BY <1>4 DEF Recorded
<1>6. FileTypeOK'
  BY <1>3, <1>4 DEF FileIInv, FileTypeOK, FileStands
<1>7. RowsAreNamed' /\ RowsAreOne'
  BY <1>4, <1>5 DEF FileIInv, RowsAreNamed, RowsAreOne
<1>8. \A q \in FRequests : RequestIsAbout(q)'
  BY <1>1, <1>1a, <1>3, <1>4, <1>5 DEF FileIInv, RequestIsAbout, Recording
<1>9. \A q \in FRequests : RowIsNew(q)'
  BY <1>1, <1>2, <1>3, <1>4, <1>5 DEF FileIInv, RowIsNew
<1>10. \A q \in FRequests : RowIsKnown(q)'
  BY <1>1, <1>3, <1>4, <1>5 DEF FileIInv, RowIsKnown
<1>11. fpc[r] = "idle"
  BY DEF Record
<1>12. \A j \in FCopies : Removing(j) => Removing(j)'
  BY <1>3, <1>11 DEF Removing
<1>13. RecordHasObject'
  BY <1>4, <1>5, <1>12 DEF FileIInv, RecordHasObject, Recorded
<1> QED BY <1>3, <1>4, <1>6, <1>7, <1>8, <1>9, <1>10, <1>13 DEF FileIInv

\* EvidenceService and DocumentsService begin to record a file, which may not be stored.
LEMMA RecordingKeeps ==
  ASSUME FileIInv, NEW r \in FRequests, NEW i \in FCopies,
         \/ UploadEvidence(r, i) \/ RegisterEvidence(r, i)
         \/ UploadProjectEvidence(r, i) \/ RegisterProjectEvidence(r, i)
         \/ UploadDocument(r, i) \/ RegisterDocument(r, i)
  PROVE  FileIInv'
<1>1. keyed \in BOOLEAN /\ (kind = "document" => ~keyed)
  BY DEF FileIInv, FileTypeOK
<1>2. CASE UploadEvidence(r, i)
  BY <1>1, <1>2, RecordKeeps DEF UploadEvidence
<1>3. CASE RegisterEvidence(r, i)
  BY <1>1, <1>3, RecordKeeps DEF RegisterEvidence
<1>4. CASE UploadProjectEvidence(r, i)
  BY <1>1, <1>4, RecordKeeps DEF UploadProjectEvidence
<1>5. CASE RegisterProjectEvidence(r, i)
  BY <1>1, <1>5, RecordKeeps DEF RegisterProjectEvidence
<1>6. CASE UploadDocument(r, i)
  BY <1>1, <1>6, RecordKeeps DEF UploadDocument
<1>7. CASE RegisterDocument(r, i)
  BY <1>1, <1>7, RecordKeeps DEF RegisterDocument
<1> QED BY <1>2, <1>3, <1>4, <1>5, <1>6, <1>7

\* The object is stored under a path that is the request's own.
LEMMA StoreObjectKeeps ==
  ASSUME FileIInv, NEW r \in FRequests, StoreObject(r)
  PROVE  FileIInv'
<1>1. /\ FGo(r, "record", floc[r]) /\ fpc[r] = "store" /\ objects' = objects \cup {floc[r].path}
      /\ kind' = kind /\ keyed' = keyed /\ phase' = phase /\ files' = files
      /\ textJobs' = textJobs /\ working' = working /\ fileCut' = fileCut /\ doubled' = doubled
  BY DEF StoreObject, same
<1>2. /\ floc[r].id \in FCopies /\ floc[r].path \in {FixedPath, FreePath, OwnPath(floc[r].id)}
  BY <1>1 DEF FileIInv, RequestIsAbout, Recording
<1>3. /\ fpc' \in [FRequests -> FileStands] /\ floc' = floc
      /\ fpc'[r] = "record"
      /\ \A q \in FRequests \ {r} : fpc'[q] = fpc[q]
  BY <1>1 DEF FileIInv, FileTypeOK, FGo, FileStands
<1>5. Recorded' = Recorded
  BY <1>1 DEF Recorded
<1>6. FileTypeOK'
  BY <1>1, <1>2, <1>3 DEF FileIInv, FileTypeOK, FileStands
<1>7. RowsAreNamed' /\ RowsAreOne'
  BY <1>1, <1>5 DEF FileIInv, RowsAreNamed, RowsAreOne
<1>8. \A q \in FRequests : RequestIsAbout(q)'
  BY <1>1, <1>3, <1>5 DEF FileIInv, RequestIsAbout, Recording
<1>9. \A q \in FRequests : RowIsNew(q)'
  BY <1>1, <1>2, <1>3, <1>5 DEF FileIInv, RowIsNew
<1>10. \A q \in FRequests : RowIsKnown(q)'
  BY <1>1, <1>3, <1>5 DEF FileIInv, RowIsKnown
<1>12. \A j \in FCopies : Removing(j) => Removing(j)'
  BY <1>1, <1>3 DEF Removing
<1>13. RecordHasObject'
  BY <1>1, <1>5, <1>12 DEF FileIInv, RecordHasObject, Recorded
<1> QED BY <1>1, <1>3, <1>6, <1>7, <1>8, <1>9, <1>10, <1>13 DEF FileIInv

\* Who ends, and what is left to the others.
LEMMA FileEnds ==
  ASSUME FileIInv, NEW r \in FRequests, FDone(r)
  PROVE  /\ fpc' \in [FRequests -> FileStands] /\ floc' \in [FRequests -> FileLocals]
         /\ fpc'[r] = "idle" /\ floc'[r] = NoFile
         /\ \A q \in FRequests \ {r} : fpc'[q] = fpc[q] /\ floc'[q] = floc[q]
BY NoFileIsLocal, FileGoes DEF FDone, FileStands

\* Others that are recording know that a row has been made, and nothing else changes for them.
LEMMA OthersAreCrossed ==
  ASSUME FileIInv, NEW r \in FRequests, CreateRecord(r)
  PROVE  /\ fpc' \in [FRequests -> FileStands] /\ floc' \in [FRequests -> FileLocals]
         /\ fpc'[r] = "idle" /\ floc'[r] = NoFile
         /\ \A q \in FRequests \ {r} :
              /\ fpc'[q] = fpc[q] /\ floc'[q].id = floc[q].id /\ floc'[q].path = floc[q].path
              /\ floc'[q].key = floc[q].key /\ floc'[q].bare = floc[q].bare
              /\ Recording(q) => floc'[q].crossed
<1>1. /\ fpc' = [fpc EXCEPT ![r] = "idle"]
      /\ floc' = [q \in FRequests |-> IF q = r THEN NoFile
                                     ELSE IF Recording(q) THEN [floc[q] EXCEPT !.crossed = TRUE]
                                     ELSE floc[q]]
  BY DEF CreateRecord
<1>2. fpc' \in [FRequests -> FileStands] /\ fpc'[r] = "idle" /\ \A q \in FRequests \ {r} : fpc'[q] = fpc[q]
  BY <1>1 DEF FileIInv, FileTypeOK, FileStands
<1>3. \A q \in FRequests : floc[q] \in FileLocals
  BY DEF FileIInv
<1>4. \A q \in FRequests :
        /\ [floc[q] EXCEPT !.crossed = TRUE] \in FileLocals
        /\ [floc[q] EXCEPT !.crossed = TRUE].id = floc[q].id
        /\ [floc[q] EXCEPT !.crossed = TRUE].path = floc[q].path
        /\ [floc[q] EXCEPT !.crossed = TRUE].key = floc[q].key
        /\ [floc[q] EXCEPT !.crossed = TRUE].bare = floc[q].bare
        /\ [floc[q] EXCEPT !.crossed = TRUE].crossed
  BY <1>3 DEF FileLocals
<1>5. floc' \in [FRequests -> FileLocals]
  BY <1>1, <1>3, <1>4, NoFileIsLocal
<1>6. floc'[r] = NoFile
  BY <1>1
<1>7. ASSUME NEW q \in FRequests \ {r}
      PROVE  floc'[q] = IF Recording(q) THEN [floc[q] EXCEPT !.crossed = TRUE] ELSE floc[q]
  BY <1>1
<1> QED BY <1>2, <1>4, <1>5, <1>6, <1>7

\* A second row of a path is one recorded twice, unless the key was looked for in between.
LEMMA CreateRecordKeeps ==
  ASSUME FileIInv, NEW r \in FRequests, CreateRecord(r)
  PROVE  FileIInv'
<1>1. PICK i \in FCopies : i = floc[r].id
  BY DEF FileIInv, RequestIsAbout, CreateRecord
<1>2. PICK path \in {FixedPath, FreePath, OwnPath(i)} : path = floc[r].path
  BY <1>1 DEF FileIInv, RequestIsAbout, CreateRecord, Recording
<1>3. /\ fpc[r] = "record" /\ objects' = objects
      /\ kind' = kind /\ keyed' = keyed /\ phase' = phase
      /\ working' = working /\ fileCut' = fileCut
      /\ textJobs' \in {textJobs, textJobs \cup {i}}
  BY <1>1 DEF CreateRecord, same
<1>4. /\ doubled' \in BOOLEAN /\ (doubled => doubled')
      /\ ~doubled' => \A j \in Recorded : files[j].path # path
  <2>1. doubled' = (doubled \/ (Shares(r) /\ (floc[r].crossed \/ ~floc[r].key)))
    BY DEF CreateRecord
  <2>2. doubled' \in BOOLEAN /\ (doubled => doubled')
    BY <2>1 DEF FileIInv, FileTypeOK, Shares
  <2>3. ASSUME ~doubled', NEW j \in Recorded, files[j].path = path PROVE FALSE
    <3>1. Shares(r)
      BY <1>2, <2>3 DEF Shares
    <3>2. floc[r].key /\ ~floc[r].crossed
      BY <2>1, <2>3, <3>1
    <3> QED BY <1>2, <1>3, <2>3, <3>2 DEF FileIInv, RequestIsAbout, Recording
  <2> QED BY <2>2, <2>3
<1> DEFINE row == [path |-> path, text |-> FALSE, bare |-> floc[r].bare]
<1>5. row \in FileRows /\ row.path = path /\ row.bare = floc[r].bare /\ path # NoPath
  BY <1>2, PathsDiffer DEF FileRows, FileIInv, FileLocals
<1>5a. row # NoRecord
  BY <1>5, NoRecordIsNone
<1>6. files' = [files EXCEPT ![i] = row]
  BY <1>1, <1>2 DEF CreateRecord
<1> HIDE DEF row
<1>7. /\ files' \in [FCopies -> FileRows]
      /\ files'[i] = row /\ \A j \in FCopies \ {i} : files'[j] = files[j]
  BY <1>5, <1>6 DEF FileIInv
<1>8. Recorded' = Recorded \cup {i} /\ i \notin Recorded
  <2>1. i \notin Recorded
    BY <1>1, <1>3 DEF FileIInv, RowIsNew
  <2>2. Recorded' = Recorded \cup {i}
    BY <1>5a, <1>7 DEF Recorded
  <2> QED BY <2>1, <2>2
<1>8a. \A j \in Recorded : j \in FCopies /\ j # i /\ files'[j] = files[j]
  BY <1>7, <1>8 DEF Recorded
<1>9. RowsAreNamed'
  BY <1>2, <1>5, <1>7, PathsDiffer DEF FileIInv, RowsAreNamed
<1>10. FileTypeOK'
  BY <1>3, <1>4, <1>9, OthersAreCrossed DEF FileIInv, FileTypeOK, FileStands, RowsAreNamed
<1>11. RowsAreOne'
  <2> SUFFICES ASSUME ~doubled', NEW j \in Recorded', NEW k \in Recorded', files'[j].path = files'[k].path
               PROVE  j = k
    BY DEF RowsAreOne
  <2>1. CASE j \in Recorded /\ k \in Recorded
    BY <1>4, <1>8a, <2>1 DEF FileIInv, RowsAreOne
  <2>2. CASE j = i \/ k = i
    BY <1>4, <1>5, <1>7, <1>8, <1>8a, <2>2
  <2> QED BY <1>8, <2>1, <2>2
<1>12. RecordHasObject'
  <2> SUFFICES ASSUME ~doubled', NEW j \in Recorded'
               PROVE  files'[j].path \in objects' \/ Removing(j)' \/ files'[j].bare \/ fileCut'
    BY DEF RecordHasObject
  <2>1. CASE j = i
    BY <1>2, <1>3, <1>4, <1>5, <1>7, <2>1 DEF FileIInv, RowIsNew
  <2>2. CASE j \in Recorded
    <3>1. Removing(j) => Removing(j)'
      BY <1>3, OthersAreCrossed DEF Removing
    <3> QED BY <1>3, <1>4, <1>8a, <2>2, <3>1 DEF FileIInv, RecordHasObject
  <2> QED BY <1>8, <2>1, <2>2
<1>13. \A q \in FRequests : RequestIsAbout(q)'
  <2> SUFFICES ASSUME NEW q \in FRequests \ {r} PROVE RequestIsAbout(q)'
    BY OthersAreCrossed, NoFileIsLocal DEF RequestIsAbout, Recording
  <2>1. /\ fpc'[q] = fpc[q] /\ floc'[q].id = floc[q].id /\ floc'[q].path = floc[q].path
        /\ floc'[q].key = floc[q].key
        /\ Recording(q) => floc'[q].crossed
    BY OthersAreCrossed
  <2>2. Recording(q)' <=> Recording(q)
    BY <2>1 DEF Recording
  <2>3. RequestIsAbout(q)
    BY DEF FileIInv
  <2> QED BY <2>1, <2>2, <2>3 DEF RequestIsAbout
<1>14. \A q \in FRequests : RowIsNew(q)'
  <2> SUFFICES ASSUME NEW q \in FRequests \ {r} PROVE RowIsNew(q)'
    BY OthersAreCrossed DEF RowIsNew
  <2>1. /\ fpc'[q] = fpc[q] /\ floc'[q].id = floc[q].id /\ floc'[q].path = floc[q].path
        /\ floc'[q].bare = floc[q].bare /\ floc'[r] = NoFile
        /\ \A p \in FRequests \ {r} : floc'[p].id = floc[p].id
    BY OthersAreCrossed
  <2>2. fpc[q] \in {"store", "record"} => floc[q].id # i /\ floc[q].id \in FCopies
    BY <1>1 DEF FileIInv, RowIsNew, RequestIsAbout
  <2>3. RowIsNew(q)
    BY DEF FileIInv
  <2>4. \A p \in FRequests \ {q} : floc'[p].id = floc[p].id \/ floc'[p].id = 0
    BY <2>1, NoFileIsLocal
  <2> QED BY <1>3, <1>4, <1>8, <2>1, <2>2, <2>3, <2>4, FilesAssumption DEF RowIsNew
<1>15. \A q \in FRequests : RowIsKnown(q)'
  <2> SUFFICES ASSUME NEW q \in FRequests \ {r}, fpc'[q] \in {"unstore", "delete"}, floc'[q].id \in Recorded'
               PROVE  files'[floc'[q].id].path = floc'[q].path
    BY OthersAreCrossed DEF RowIsKnown
  <2>1. fpc[q] = fpc'[q] /\ floc'[q].id = floc[q].id /\ floc'[q].path = floc[q].path
    BY OthersAreCrossed
  <2>2. floc[q].id # i
    BY <1>1, <1>3 DEF FileIInv, RowIsNew
  <2>3. floc[q].id \in Recorded /\ floc[q].id \in FCopies
    BY <1>8, <2>1, <2>2 DEF Recorded
  <2> QED BY <1>7, <2>1, <2>2, <2>3 DEF FileIInv, RowIsKnown
<1> QED BY <1>3, <1>7, <1>9, <1>10, <1>11, <1>12, <1>13, <1>14, <1>15, OthersAreCrossed DEF FileIInv

\* A removal begins with the path its row names.
LEMMA DropFileKeeps ==
  ASSUME FileIInv, NEW r \in FRequests, NEW i \in FCopies,
         RemoveEvidence(r, i) \/ RemoveProjectEvidence(r, i) \/ RemoveDocument(r, i)
  PROVE  FileIInv'
<1> DEFINE l == [NoFile EXCEPT !.id = i, !.path = files[i].path]
<1>1. /\ fpc[r] = "idle" /\ i \in Recorded /\ FGo(r, "unstore", l) /\ FUnchanged
  BY DEF RemoveEvidence, RemoveProjectEvidence, RemoveDocument, DropFile
<1>2. files[i].path \in FilePaths \cup {NoPath}
  BY DEF FileIInv, FileRows
<1>3. l \in FileLocals /\ l.id = i /\ l.path = files[i].path /\ ~l.key
  BY <1>2 DEF FileLocals, NoFile
<1> HIDE DEF l
<1>4. /\ fpc' \in [FRequests -> FileStands] /\ floc' \in [FRequests -> FileLocals]
      /\ fpc'[r] = "unstore" /\ floc'[r] = l
      /\ \A q \in FRequests \ {r} : fpc'[q] = fpc[q] /\ floc'[q] = floc[q]
  BY <1>1, <1>3, FileGoes DEF FileStands
<1>5. /\ kind' = kind /\ keyed' = keyed /\ phase' = phase /\ files' = files
      /\ objects' = objects /\ textJobs' = textJobs /\ working' = working /\ fileCut' = fileCut /\ doubled' = doubled
  BY <1>1 DEF FUnchanged, same
<1>6. Recorded' = Recorded
  BY <1>5 DEF Recorded
<1>7. FileTypeOK'
  BY <1>4, <1>5 DEF FileIInv, FileTypeOK, FileStands
<1>8. RowsAreNamed' /\ RowsAreOne'
  BY <1>5, <1>6 DEF FileIInv, RowsAreNamed, RowsAreOne
<1>9. \A q \in FRequests : RequestIsAbout(q)'
  BY <1>1, <1>3, <1>4, <1>5, <1>6 DEF FileIInv, RequestIsAbout, Recording
<1>10. \A q \in FRequests : RowIsNew(q)'
  BY <1>1, <1>3, <1>4, <1>5, <1>6 DEF FileIInv, RowIsNew
<1>11. \A q \in FRequests : RowIsKnown(q)'
  BY <1>1, <1>3, <1>4, <1>5, <1>6 DEF FileIInv, RowIsKnown
<1>12. \A j \in FCopies : Removing(j) => Removing(j)'
  BY <1>1, <1>4 DEF Removing
<1>13. RecordHasObject'
  BY <1>5, <1>6, <1>12 DEF FileIInv, RecordHasObject, Recorded
<1> QED BY <1>4, <1>5, <1>7, <1>8, <1>9, <1>10, <1>11, <1>13 DEF FileIInv

\* The object goes before the row, and the only row that names it is the one removed.
LEMMA UnstoreKeeps ==
  ASSUME FileIInv, NEW r \in FRequests, Unstore(r)
  PROVE  FileIInv'
<1>1. /\ FGo(r, "delete", floc[r]) /\ fpc[r] = "unstore"
      /\ objects' \in {objects, objects \ {floc[r].path}}
      /\ kind' = kind /\ keyed' = keyed /\ phase' = phase /\ files' = files
      /\ textJobs' = textJobs /\ working' = working /\ fileCut' = fileCut
  BY DEF Unstore, same
<1>2. doubled' \in BOOLEAN /\ (doubled => doubled') /\ (~doubled' => ~Overlapped(r))
  BY DEF Unstore, FileIInv, FileTypeOK, Overlapped
<1>3. /\ fpc' \in [FRequests -> FileStands] /\ floc' = floc /\ fpc'[r] = "delete"
      /\ \A q \in FRequests \ {r} : fpc'[q] = fpc[q]
  BY <1>1 DEF FileIInv, FileTypeOK, FGo, FileStands
<1>4. Recorded' = Recorded
  BY <1>1 DEF Recorded
<1>5. FileTypeOK'
  BY <1>1, <1>2, <1>3 DEF FileIInv, FileTypeOK, FileStands
<1>6. RowsAreNamed' /\ RowsAreOne'
  BY <1>1, <1>2, <1>4 DEF FileIInv, RowsAreNamed, RowsAreOne
<1>7. \A q \in FRequests : RequestIsAbout(q)'
  BY <1>1, <1>3, <1>4 DEF FileIInv, RequestIsAbout, Recording
<1>8. \A q \in FRequests : RowIsNew(q)'
  BY <1>1, <1>2, <1>3, <1>4 DEF FileIInv, RowIsNew, Overlapped
<1>9. \A q \in FRequests : RowIsKnown(q)'
  BY <1>1, <1>3, <1>4 DEF FileIInv, RowIsKnown
<1>10. RecordHasObject'
  <2> SUFFICES ASSUME ~doubled', NEW j \in Recorded'
               PROVE  files'[j].path \in objects' \/ Removing(j)' \/ files'[j].bare \/ fileCut'
    BY DEF RecordHasObject
  <2>1. floc[r].id \in Recorded /\ files[floc[r].id].path = floc[r].path
    BY <1>1, <1>2 DEF FileIInv, RowIsKnown, Overlapped
  <2>2. CASE files[j].path = floc[r].path
    <3>1. j = floc[r].id
      BY <1>2, <1>4, <2>1, <2>2 DEF FileIInv, RowsAreOne
    <3> QED BY <1>3, <3>1 DEF Removing
  <2>3. CASE files[j].path # floc[r].path
    <3>1. Removing(j) => Removing(j)'
      BY <1>1, <1>3 DEF Removing
    <3>2. files[j].path \in objects => files'[j].path \in objects'
      BY <1>1, <2>3
    <3> QED BY <1>1, <1>2, <1>4, <3>1, <3>2 DEF FileIInv, RecordHasObject
  <2> QED BY <2>2, <2>3
<1> QED BY <1>1, <1>3, <1>5, <1>6, <1>7, <1>8, <1>9, <1>10 DEF FileIInv

\* The row goes, after the object.
LEMMA DeleteRecordKeeps ==
  ASSUME FileIInv, NEW r \in FRequests, DeleteRecord(r)
  PROVE  FileIInv'
<1>1. PICK i \in FCopies : i = floc[r].id
  BY DEF DeleteRecord, Recorded
<1>2. /\ FDone(r) /\ fpc[r] = "delete" /\ i \in Recorded
      /\ files' = [files EXCEPT ![i] = NoRecord] /\ objects' = objects \ {OwnPath(i)}
      /\ kind' = kind /\ keyed' = keyed /\ phase' = phase
      /\ textJobs' = textJobs /\ working' = working /\ fileCut' = fileCut /\ doubled' = doubled
  BY <1>1 DEF DeleteRecord, same
<1>4. /\ files' \in [FCopies -> FileRows]
      /\ files'[i] = NoRecord /\ \A j \in FCopies \ {i} : files'[j] = files[j]
  BY <1>2, NoRecordIsNone DEF FileIInv
<1>5. Recorded' = Recorded \ {i}
  BY <1>4 DEF Recorded
<1>6. RowsAreNamed'
  BY <1>2, <1>4, NoRecordIsNone DEF FileIInv, RowsAreNamed
<1>7. \A j \in Recorded' : j \in Recorded /\ j # i /\ j \in FCopies /\ files'[j] = files[j]
  BY <1>4, <1>5 DEF Recorded
<1>7a. RowsAreOne'
  BY <1>2, <1>7 DEF FileIInv, RowsAreOne
<1>8. FileTypeOK'
  BY <1>2, <1>6, FileEnds DEF FileIInv, FileTypeOK, FileStands, RowsAreNamed
<1>9. \A q \in FRequests : RequestIsAbout(q)'
  BY <1>2, <1>7, FileEnds, NoFileIsLocal DEF FileIInv, RequestIsAbout, Recording
<1>10. \A q \in FRequests : RowIsNew(q)'
  <2> SUFFICES ASSUME NEW q \in FRequests \ {r}, fpc'[q] \in {"store", "record"} PROVE RowIsNew(q)'
    BY <1>2, FileEnds DEF RowIsNew
  <2>1. fpc'[q] = fpc[q] /\ floc'[q] = floc[q] /\ floc'[r] = NoFile
    BY <1>2, FileEnds
  <2>2. floc[q].id \notin Recorded /\ floc[q].id \in FCopies /\ floc[q].path \in {FixedPath, FreePath, OwnPath(floc[q].id)}
    BY <2>1 DEF FileIInv, RowIsNew, RequestIsAbout, Recording
  <2>3. floc[q].path # OwnPath(i)
    BY <1>2, <2>2, PathsDiffer
  <2> QED BY <1>2, <1>5, <2>1, <2>2, <2>3, FileEnds, NoFileIsLocal, FilesAssumption DEF FileIInv, RowIsNew
<1>11. \A q \in FRequests : RowIsKnown(q)'
  <2> SUFFICES ASSUME NEW q \in FRequests \ {r} PROVE RowIsKnown(q)'
    BY <1>2, FileEnds DEF RowIsKnown
  <2>1. fpc'[q] = fpc[q] /\ floc'[q] = floc[q]
    BY <1>2, FileEnds
  <2> QED BY <1>4, <1>5, <2>1 DEF FileIInv, RowIsKnown, Recorded
<1>12. RecordHasObject'
  <2> SUFFICES ASSUME NEW j \in Recorded', ~(fileCut \/ doubled)
               PROVE  files'[j].path \in objects' \/ Removing(j)' \/ files'[j].bare
    BY <1>2 DEF RecordHasObject
  <2>1. j \in Recorded /\ j # i /\ j \in FCopies /\ files'[j] = files[j]
    BY <1>4, <1>5 DEF Recorded
  <2>2. files[j].path # OwnPath(i)
    BY <2>1, PathsDiffer DEF FileIInv, RowsAreNamed
  <2>3. CASE files[j].path \in objects
    BY <1>2, <2>1, <2>2, <2>3
  <2>4. CASE Removing(j)
    BY <1>1, <1>2, <2>1, <2>4, FileEnds DEF Removing
  <2> QED BY <2>1, <2>3, <2>4 DEF FileIInv, RecordHasObject
<1> QED BY <1>2, <1>4, <1>6, <1>7a, <1>8, <1>9, <1>10, <1>11, <1>12, FileEnds DEF FileIInv

\* A request fails; what it has stored may stay behind without a row.
LEMMA FFailKeeps ==
  ASSUME FileIInv, NEW r \in FRequests, FFail(r)
  PROVE  FileIInv'
<1>1. PICK i \in FCopies : i = floc[r].id
  BY DEF FFail, FileIInv, RequestIsAbout
<1>2. /\ FDone(r) /\ fileCut' = (fileCut \/ fpc[r] = "delete")
      /\ objects' = IF fpc[r] = "record" THEN objects \ {OwnPath(i)} ELSE objects
      /\ kind' = kind /\ keyed' = keyed /\ phase' = phase /\ files' = files
      /\ textJobs' = textJobs /\ working' = working /\ doubled' = doubled
  BY <1>1 DEF FFail, same
<1>3. Recorded' = Recorded
  BY <1>2 DEF Recorded
<1>4. FileTypeOK'
  BY <1>2, FileEnds DEF FileIInv, FileTypeOK, FileStands
<1>5. RowsAreNamed' /\ RowsAreOne'
  BY <1>2, <1>3 DEF FileIInv, RowsAreNamed, RowsAreOne
<1>6. \A q \in FRequests : RequestIsAbout(q)'
  BY <1>2, <1>3, FileEnds, NoFileIsLocal DEF FileIInv, RequestIsAbout, Recording
<1>7. \A q \in FRequests : RowIsNew(q)'
  <2> SUFFICES ASSUME NEW q \in FRequests \ {r}, fpc'[q] \in {"store", "record"} PROVE RowIsNew(q)'
    BY <1>2, FileEnds DEF RowIsNew
  <2>1. fpc'[q] = fpc[q] /\ floc'[q] = floc[q] /\ floc'[r] = NoFile
    BY <1>2, FileEnds
  <2>2. /\ floc[q].id # i /\ floc[q].id \in FCopies
        /\ floc[q].path \in {FixedPath, FreePath, OwnPath(floc[q].id)}
    BY <1>1, <2>1 DEF FileIInv, RowIsNew, RequestIsAbout, Recording
  <2>3. floc[q].path # OwnPath(i)
    BY <2>2, PathsDiffer
  <2> QED BY <1>2, <1>3, <2>1, <2>2, <2>3, FileEnds, NoFileIsLocal, FilesAssumption DEF FileIInv, RowIsNew
<1>8. \A q \in FRequests : RowIsKnown(q)'
  BY <1>2, <1>3, FileEnds DEF FileIInv, RowIsKnown
<1>9. RecordHasObject'
  <2> SUFFICES ASSUME NEW j \in Recorded, ~(fileCut' \/ doubled)
               PROVE  files[j].path \in objects' \/ Removing(j)' \/ files[j].bare
    BY <1>2, <1>3 DEF RecordHasObject
  <2>1. j \in FCopies /\ fpc[r] # "delete" /\ ~fileCut
    BY <1>2 DEF Recorded
  <2>2. CASE Removing(j)
    BY <1>2, <2>1, <2>2, FileEnds DEF Removing
  <2>3. CASE files[j].path \in objects
    <3>1. CASE fpc[r] # "record"
      BY <1>2, <2>3, <3>1
    <3>2. CASE fpc[r] = "record"
      <4>1. i # j
        BY <1>1, <3>2 DEF FileIInv, RowIsNew
      <4>2. files[j].path # OwnPath(i)
        BY <2>1, <4>1, PathsDiffer DEF FileIInv, RowsAreNamed
      <4> QED BY <1>2, <2>3, <3>2, <4>2
    <3> QED BY <3>1, <3>2
  <2> QED BY <2>1, <2>2, <2>3 DEF FileIInv, RecordHasObject
<1> QED BY <1>2, <1>4, <1>5, <1>6, <1>7, <1>8, <1>9, FileEnds DEF FileIInv

\* The jobs, the app's store and the phase move no request.
LEMMA FilesAside ==
  ASSUME FileIInv, fpc' = fpc, floc' = floc, kind' = kind, keyed' = keyed,
         phase' \in FilePhases, objects \subseteq objects', objects' \subseteq FilePaths,
         textJobs' \cup working' \subseteq FCopies, fileCut' = fileCut, doubled' = doubled,
         files' \in [FCopies -> FileRows],
         Recorded' = Recorded, \A i \in FCopies : /\ files'[i].path = files[i].path /\ files'[i].bare = files[i].bare
                              /\ (i \notin Recorded => files'[i] = files[i])
  PROVE  FileIInv'
<1>1. FileTypeOK'
  BY DEF FileIInv, FileTypeOK, FilePaths, FilePhases
<1>2. RowsAreNamed' /\ RowsAreOne'
  <2>1. RowsAreNamed'
    BY DEF FileIInv, RowsAreNamed, Recorded
  <2>2. RowsAreOne'
    BY DEF FileIInv, RowsAreOne, Recorded
  <2> QED BY <2>1, <2>2
<1>3. \A q \in FRequests : RequestIsAbout(q)'
  BY DEF FileIInv, RequestIsAbout, Recording, Recorded
<1>4. \A q \in FRequests : RowIsNew(q)'
  BY DEF FileIInv, RowIsNew
<1>5. \A q \in FRequests : RowIsKnown(q)'
  BY DEF FileIInv, RowIsKnown, Recorded
<1>6. RecordHasObject'
  BY DEF FileIInv, RecordHasObject, Removing, Recorded
<1> QED BY <1>1, <1>2, <1>3, <1>4, <1>5, <1>6 DEF FileIInv

\* The steps of others: captions, the app's own upload, the course of the phase.
LEMMA FilesMoveAside ==
  ASSUME FileIInv,
         \/ AppStores \/ PhaseMoves \/ UNCHANGED fileVars
         \/ \E i \in FCopies : TakeCaption(i) \/ TakeOcr(i)
  PROVE  FileIInv'
<1>1. /\ fpc' = fpc /\ floc' = floc /\ kind' = kind /\ keyed' = keyed
      /\ fileCut' = fileCut /\ doubled' = doubled /\ files' = files
  BY DEF AppStores, PhaseMoves, fileVars, TakeCaption, TakeOcr, same
<1>2. phase' \in FilePhases
  BY DEF AppStores, PhaseMoves, fileVars, TakeCaption, TakeOcr, same, FileIInv, FileTypeOK, FilePhases
<1>3. objects \subseteq objects' /\ objects' \subseteq FilePaths
  BY DEF AppStores, PhaseMoves, fileVars, TakeCaption, TakeOcr, FileIInv, FileTypeOK, FilePaths
<1>4. textJobs' \cup working' \subseteq FCopies
  BY DEF AppStores, PhaseMoves, fileVars, TakeCaption, TakeOcr, FileIInv, FileTypeOK
<1>5. Recorded' = Recorded
  BY <1>1 DEF Recorded
<1> QED BY <1>1, <1>2, <1>3, <1>4, <1>5, FilesAside DEF FileIInv

\* A caption or a comment is written to a row that is there.
LEMMA SaveTextKeeps ==
  ASSUME FileIInv, NEW i \in FCopies, SaveText(i)
  PROVE  FileIInv'
<1>1. /\ fpc' = fpc /\ floc' = floc /\ kind' = kind /\ keyed' = keyed
      /\ fileCut' = fileCut /\ doubled' = doubled /\ phase' = phase /\ objects' = objects
      /\ textJobs' = textJobs /\ working' \subseteq working
  BY DEF SaveText, same
<1> DEFINE row == [files[i] EXCEPT !.text = TRUE]
<1>2. files[i] \in FileRows
  BY DEF FileIInv
<1>3. row \in FileRows /\ row.path = files[i].path /\ row.bare = files[i].bare
  BY <1>2 DEF FileRows
<1>4. files' = files \/ (i \in Recorded /\ files' = [files EXCEPT ![i] = row])
  BY DEF SaveText
<1> HIDE DEF row
<1>5. /\ files' \in [FCopies -> FileRows]
      /\ \A j \in FCopies : /\ files'[j].path = files[j].path /\ files'[j].bare = files[j].bare
                         /\ (j \notin Recorded => files'[j] = files[j])
  BY <1>3, <1>4 DEF FileIInv
<1>6. Recorded' = Recorded
  <2> SUFFICES ASSUME NEW j \in FCopies PROVE files'[j] # NoRecord <=> files[j] # NoRecord
    BY DEF Recorded
  <2>1. CASE j \in Recorded
    BY <1>5, <2>1, NoRecordIsNone DEF FileIInv, RowsAreNamed, Recorded
  <2>2. CASE j \notin Recorded
    BY <1>5, <2>2 DEF Recorded
  <2> QED BY <2>1, <2>2
<1>7. phase' \in FilePhases /\ objects' \subseteq FilePaths /\ textJobs' \cup working' \subseteq FCopies
  BY <1>1 DEF FileIInv, FileTypeOK, FilePaths, FilePhases
<1> QED BY <1>1, <1>5, <1>6, <1>7, FilesAside

\* Rows that go all at once leave nobody who could miss them.
LEMMA RowsGoKeeps ==
  ASSUME FileIInv, RowsGo
  PROVE  FileIInv'
<1>1. /\ kind' = kind /\ keyed' = keyed /\ phase' = phase /\ textJobs' = textJobs /\ working' = working
      /\ fileCut' = fileCut /\ doubled' = doubled /\ objects' \subseteq objects
      /\ \A i \in FCopies : files'[i] = NoRecord
  BY DEF RowsGo, same
<1>2. files' \in [FCopies -> FileRows]
  BY NoRecordIsNone DEF RowsGo
<1>3. /\ fpc' \in [FRequests -> FileStands] /\ floc' \in [FRequests -> FileLocals]
      /\ \A q \in FRequests : \/ fpc'[q] = "idle" /\ floc'[q] = NoFile
                              \/ ~Recording(q) /\ fpc'[q] = fpc[q] /\ floc'[q] = floc[q]
  BY NoFileIsLocal DEF RowsGo, FileIInv, FileTypeOK, FileStands
<1>4. Recorded' = {}
  BY <1>1 DEF Recorded
<1>5. RowsAreNamed'
  BY <1>1, NoRecordIsNone DEF RowsAreNamed
<1>6. FileTypeOK'
  BY <1>1, <1>3, <1>5 DEF FileIInv, FileTypeOK, FileStands, RowsAreNamed
<1>7. RowsAreOne' /\ RecordHasObject'
  BY <1>4 DEF RowsAreOne, RecordHasObject
<1>8. \A q \in FRequests : ~Recording(q)'
  BY <1>3 DEF Recording
<1>9. \A q \in FRequests : RequestIsAbout(q)'
  BY <1>3, <1>8, NoFileIsLocal DEF FileIInv, RequestIsAbout
<1>10. \A q \in FRequests : RowIsNew(q)' /\ RowIsKnown(q)'
  BY <1>4, <1>8 DEF RowIsNew, RowIsKnown, Recording
<1> QED BY <1>1, <1>2, <1>3, <1>5, <1>6, <1>7, <1>9, <1>10 DEF FileIInv

\* Every step keeps the invariant.
LEMMA FileStepKeeps == FileIInv /\ [FileNext]_fileVars => FileIInv'
BY RecordingKeeps, StoreObjectKeeps, CreateRecordKeeps, DropFileKeeps, UnstoreKeeps, DeleteRecordKeeps,
   FFailKeeps, FilesMoveAside, SaveTextKeeps, RowsGoKeeps DEF FileNext, DeleteUploader, DeleteProject

\* The invariant holds of every behaviour.
LEMMA FilesHold == FileSpec => []FileIInv
BY FileInitial, FileStepKeeps, PTL DEF FileSpec

\* The invariant is more than the types and the two agreements of rows and objects.
LEMMA FilesFollow == FileIInv => FileTypeOK /\ RecordHasObject /\ OneRecordPerKey
<1> DEFINE S == {i \in Recorded : files[i].path = FixedPath}
<1> SUFFICES ASSUME FileIInv, ~doubled PROVE Cardinality(S) <= 1
  BY DEF FileIInv, OneRecordPerKey
<1>1. CASE S = {}
  BY <1>1, FS_EmptySet
<1>2. CASE S # {}
  <2>1. PICK i \in S : TRUE
    BY <1>2
  <2>2. \A j \in S : j = i
    BY <2>1 DEF FileIInv, RowsAreOne
  <2> HIDE DEF S
  <2>4. S = {i}
    BY <2>1, <2>2
  <2>3. Cardinality({i}) = 1
    BY FS_Singleton
  <2> QED BY <2>3, <2>4
<1> QED BY <1>1, <1>2

-----------------------------------------------------------------------------
(***************************************************************************)
(* A tool.  Replacing an image removes the old one before the row is       *)
(* saved, so in between the row names an object that is gone: ImageIsThere *)
(* says who is about to write it, and ImageIsFresh that nobody removes the *)
(* image that is to be saved.                                              *)
(***************************************************************************)

\* Where a request may stand.
ToolStands == {"idle", "remove", "upload", "save", "purge", "delete", "lend", "return", "end"}
LoanIds    == {<<>>} \cup {<<w>> : w \in TWorkers} \cup CheckoutIds
ToolLocals == [id : LoanIds, image : TImages \cup {NoImage}, old : TImages \cup {NoImage},
               seen : SUBSET CheckoutIds]

\* Who lends has seen no open checkout, and who ends one knows which.
LoanIsKnown(r) ==
  /\ tpc[r] = "lend" => tloc[r].seen = {}
  /\ tpc[r] \in {"return", "end"} => tloc[r].id \in CheckoutIds

\* Unless it was lent twice, a tool has one open checkout at most.
OpenLoansAreOne == ~lentTwice => \A i, j \in OpenLoans : i = j

\* An image that is stored and not yet saved is nobody else's: the row does not name it, no
\* request is to remove it and no other request is to save it.
ImageIsFresh(r) ==
  tpc[r] = "save" =>
    /\ tloc[r].image \in images /\ tloc[r].image # tool.image
    /\ \A q \in TRequests : tloc[q].old # tloc[r].image
    /\ \A q \in TRequests \ {r} : tpc[q] = "save" => tloc[q].image # tloc[r].image

\* A row's image that is not stored was removed by a request that has yet to write the row.
ImageIsThere ==
  \/ tool.image \in images \cup {NoImage}
  \/ toolCut
  \/ \E r \in TRequests : tloc[r].old = tool.image /\ tpc[r] \in {"upload", "save", "delete"}

\* The inductive invariant.
ToolIInv ==
  /\ ToolTypeOK /\ tloc \in [TRequests -> ToolLocals]
  /\ \A r \in TRequests : LoanIsKnown(r) /\ ImageIsFresh(r)
  /\ OpenLoansAreOne /\ ImageIsThere

\* What an idle request holds.
LEMMA NoLoanIsLocal ==
  NoLoan \in ToolLocals /\ NoLoan.seen = {} /\ NoLoan.old = NoImage /\ NoLoan.image = NoImage
BY DEF NoLoan, ToolLocals, LoanIds

\* The tool has no image and nobody has it.
LEMMA ToolInitial == ToolInit => ToolIInv
<1> SUFFICES ASSUME ToolInit PROVE ToolIInv
  OBVIOUS
<1>1. ToolTypeOK
  BY DEF ToolInit, ToolTypeOK, NewTool
<1>2. tloc \in [TRequests -> ToolLocals]
  BY NoLoanIsLocal DEF ToolInit
<1>3. OpenLoansAreOne
  BY DEF ToolInit, OpenLoansAreOne, OpenLoans, Open
<1>4. ImageIsThere
  BY DEF ToolInit, ImageIsThere, NewTool
<1> QED BY <1>1, <1>2, <1>3, <1>4 DEF ToolInit, ToolIInv, LoanIsKnown, ImageIsFresh

\* A request goes to another await; the others stay.
LEMMA ToolGoes ==
  ASSUME ToolIInv, NEW r \in TRequests, NEW at \in ToolStands, NEW l \in ToolLocals, TGo(r, at, l)
  PROVE  /\ tpc' \in [TRequests -> ToolStands] /\ tloc' \in [TRequests -> ToolLocals]
         /\ tpc'[r] = at /\ tloc'[r] = l
         /\ \A q \in TRequests \ {r} : tpc'[q] = tpc[q] /\ tloc'[q] = tloc[q]
BY DEF ToolIInv, ToolTypeOK, TGo, ToolStands

\* The types, of the requests' places and of what they hold too.
LEMMA ToolTypes ==
  ASSUME ToolIInv
  PROVE  /\ tool.image \in TImages \cup {NoImage} /\ tool.is \in {"new", "there", "gone"}
         /\ images \subseteq TImages /\ OpenLoans \subseteq CheckoutIds
         /\ checkouts \in [CheckoutIds -> Open \cup {"none", "RETURNED"}]
         /\ \A r \in TRequests : tloc[r] \in ToolLocals /\ tloc[r].old \in TImages \cup {NoImage}
BY DEF ToolIInv, ToolTypeOK, ToolLocals, OpenLoans

\* A step that stores and saves nothing: who goes on may take the row's image to be replaced
\* or purged, and the objects it has removed, if any, are those.
LEMMA NothingSaved ==
  ASSUME ToolIInv, NEW r \in TRequests, NEW at \in ToolStands \ {"save"}, NEW l \in ToolLocals,
         TGo(r, at, l), tool' = tool, category' = category,
         checkouts' = checkouts, lentTwice' = lentTwice,
         at = "lend" => l.seen = {}, at \in {"return", "end"} => l.id \in CheckoutIds,
         l.old \in {NoImage, tool.image, tloc[r].old},
         images' \in {images, images \ {l.old}} /\ (images' # images => at \in {"upload", "delete"} /\ tloc[r].old = l.old),
         toolCut' = toolCut,
         tpc[r] \in {"idle", "remove", "purge", "lend", "return", "end"}
  PROVE  ToolIInv'
<1>1. /\ tpc' \in [TRequests -> ToolStands] /\ tloc' \in [TRequests -> ToolLocals]
      /\ tpc'[r] = at /\ tloc'[r] = l
      /\ \A q \in TRequests \ {r} : tpc'[q] = tpc[q] /\ tloc'[q] = tloc[q]
  BY ToolGoes
<1>2. ToolTypeOK'
  BY <1>1 DEF ToolIInv, ToolTypeOK, ToolStands
<1>3. \A q \in TRequests : LoanIsKnown(q)'
  BY <1>1 DEF ToolIInv, LoanIsKnown
<1>4. \A q \in TRequests : ImageIsFresh(q)'
  <2> SUFFICES ASSUME NEW q \in TRequests, tpc'[q] = "save" PROVE ImageIsFresh(q)'
    BY DEF ImageIsFresh
  <2>1. q # r /\ ImageIsFresh(q) /\ tpc[q] = "save" /\ tloc'[q] = tloc[q]
    BY <1>1 DEF ToolIInv
  <2>2. tloc[q].image # NoImage
    BY <2>1, ToolTypes, ToolsAssumption DEF ImageIsFresh
  <2>3. tloc[q].image # l.old /\ tloc[q].image \in images'
    BY <2>1, <2>2 DEF ImageIsFresh
  <2>4. \A p \in TRequests : tloc'[p].old # tloc'[q].image
    BY <1>1, <2>1, <2>3 DEF ImageIsFresh
  <2> QED BY <1>1, <2>1, <2>3, <2>4 DEF ImageIsFresh
<1>5. OpenLoansAreOne'
  BY DEF ToolIInv, OpenLoansAreOne, OpenLoans
<1>6. ImageIsThere'
  <2>1. CASE tool.image \in images \cup {NoImage}
    <3>1. CASE tool'.image \in images' \cup {NoImage}
      BY <3>1 DEF ImageIsThere
    <3>2. CASE tool'.image \notin images' \cup {NoImage}
      <4>1. tool.image = l.old /\ at \in {"upload", "delete"}
        BY <2>1, <3>2
      <4> QED BY <1>1, <4>1 DEF ImageIsThere
    <3> QED BY <3>1, <3>2
  <2>2. CASE toolCut
    BY <2>2 DEF ImageIsThere
  <2>3. CASE \E q \in TRequests : tloc[q].old = tool.image /\ tpc[q] \in {"upload", "save", "delete"}
    BY <1>1, <2>3 DEF ImageIsThere
  <2> QED BY <2>1, <2>2, <2>3 DEF ToolIInv, ImageIsThere
<1> QED BY <1>1, <1>2, <1>3, <1>4, <1>5, <1>6 DEF ToolIInv

\* The reads of ToolsService.
LEMMA ToolReadsKeep ==
  ASSUME ToolIInv, NEW r \in TRequests,
         \/ UpdateTool(r) \/ RemoveToolCheck(r)
         \/ \E w \in TWorkers : CheckoutCheck(r, w)
         \/ \E i \in CheckoutIds : ReturnRead(r, i) \/ ConfirmRead(r, i) \/ ForceRead(r, i)
  PROVE  ToolIInv'
<1>1. /\ tool' = tool /\ category' = category /\ checkouts' = checkouts /\ images' = images
      /\ toolCut' = toolCut /\ lentTwice' = lentTwice /\ tpc[r] = "idle"
  BY DEF UpdateTool, RemoveToolCheck, CheckoutCheck, ReturnRead, ConfirmRead, ForceRead
<1>2. CASE UpdateTool(r) \/ RemoveToolCheck(r)
  <2> DEFINE l == [NoLoan EXCEPT !.old = tool.image]
  <2>1. PICK at \in {"upload", "remove", "purge"} : TGo(r, at, l)
    BY <1>2 DEF UpdateTool, RemoveToolCheck
  <2>2. l \in ToolLocals /\ l.old = tool.image
    BY ToolTypes DEF NoLoan, ToolLocals, LoanIds
  <2> HIDE DEF l
  <2> QED BY <1>1, <2>1, <2>2, NothingSaved DEF ToolStands
<1>3. CASE \E w \in TWorkers : CheckoutCheck(r, w)
  <2>1. PICK w \in TWorkers : CheckoutCheck(r, w)
    BY <1>3
  <2> DEFINE l == [NoLoan EXCEPT !.id = <<w>>, !.seen = OpenLoans]
  <2>2. TGo(r, "lend", l) /\ OpenLoans = {}
    BY <2>1 DEF CheckoutCheck
  <2>3. l \in ToolLocals /\ l.seen = {} /\ l.old = NoImage
    BY <2>2, ToolTypes DEF NoLoan, ToolLocals, LoanIds
  <2> HIDE DEF l
  <2> QED BY <1>1, <2>2, <2>3, NothingSaved DEF ToolStands
<1>4. CASE \E i \in CheckoutIds : ReturnRead(r, i) \/ ConfirmRead(r, i) \/ ForceRead(r, i)
  <2>1. PICK i \in CheckoutIds : ReturnRead(r, i) \/ ConfirmRead(r, i) \/ ForceRead(r, i)
    BY <1>4
  <2> DEFINE l == [NoLoan EXCEPT !.id = i]
  <2>3. PICK at \in {"return", "end"} : TGo(r, at, l)
    BY <2>1 DEF ReturnRead, ConfirmRead, ForceRead
  <2>2. l \in ToolLocals /\ l.id = i /\ l.old = NoImage
    BY DEF NoLoan, ToolLocals, LoanIds
  <2> HIDE DEF l
  <2> QED BY <1>1, <2>2, <2>3, NothingSaved DEF ToolStands
<1> QED BY <1>2, <1>3, <1>4

\* The old image is removed before the new one is stored.
LEMMA RemoveImageKeeps ==
  ASSUME ToolIInv, NEW r \in TRequests, RemoveOldImage(r) \/ PurgeImage(r)
  PROVE  ToolIInv'
<1>1. PICK at \in {"upload", "delete"} : TGo(r, at, tloc[r])
  BY DEF RemoveOldImage, PurgeImage
<1>2. /\ tool' = tool /\ category' = category /\ checkouts' = checkouts
      /\ images' \in {images, images \ {tloc[r].old}}
      /\ toolCut' = toolCut /\ lentTwice' = lentTwice /\ tpc[r] \in {"remove", "purge"}
  BY DEF RemoveOldImage, PurgeImage
<1> QED BY <1>1, <1>2, ToolTypes, NothingSaved DEF ToolStands

\* A stored image is one nobody knew.
LEMMA UploadImageKeeps ==
  ASSUME ToolIInv, NEW r \in TRequests, UploadImage(r)
  PROVE  ToolIInv'
<1>1. PICK m \in FreeImages : m = Pick(FreeImages)
  BY DEF UploadImage, Pick
<1>2. /\ m \in TImages /\ m \notin images /\ m # tool.image
      /\ \A q \in TRequests : m # tloc[q].image /\ m # tloc[q].old
  BY <1>1 DEF FreeImages
<1> DEFINE l == [tloc[r] EXCEPT !.image = m]
<1>3. l \in ToolLocals /\ l.image = m /\ l.old = tloc[r].old
  BY <1>2, ToolTypes DEF ToolLocals
<1>4. /\ TGo(r, "save", l) /\ "save" \in ToolStands /\ tpc[r] = "upload" /\ images' = images \cup {m}
      /\ tool' = tool /\ category' = category /\ checkouts' = checkouts /\ toolCut' = toolCut /\ lentTwice' = lentTwice
  BY <1>1 DEF UploadImage, ToolStands
<1> HIDE DEF l
<1>5. /\ tpc' \in [TRequests -> ToolStands] /\ tloc' \in [TRequests -> ToolLocals]
      /\ tpc'[r] = "save" /\ tloc'[r] = l
      /\ \A q \in TRequests \ {r} : tpc'[q] = tpc[q] /\ tloc'[q] = tloc[q]
  BY <1>3, <1>4, ToolGoes
<1>6. ToolTypeOK'
  BY <1>2, <1>4, <1>5 DEF ToolIInv, ToolTypeOK, ToolStands
<1>7. \A q \in TRequests : LoanIsKnown(q)'
  BY <1>5 DEF ToolIInv, LoanIsKnown
<1>8. \A p \in TRequests : tloc'[p].old = tloc[p].old
  BY <1>3, <1>5
<1>9. \A q \in TRequests : ImageIsFresh(q)'
  <2> TAKE q \in TRequests
  <2>1. CASE q = r
    BY <1>2, <1>3, <1>4, <1>5, <1>8, <2>1 DEF ImageIsFresh
  <2>2. CASE q # r
    BY <1>2, <1>3, <1>4, <1>5, <1>8, <2>2 DEF ToolIInv, ImageIsFresh
  <2> QED BY <2>1, <2>2
<1>10. OpenLoansAreOne'
  BY <1>4 DEF ToolIInv, OpenLoansAreOne, OpenLoans
<1>11. ImageIsThere'
  BY <1>3, <1>4, <1>5 DEF ToolIInv, ImageIsThere
<1> QED BY <1>5, <1>6, <1>7, <1>9, <1>10, <1>11 DEF ToolIInv

\* A request that ends leaves behind what does not depend on it.
LEMMA ToolRequestEnds ==
  ASSUME ToolIInv, NEW r \in TRequests, TDone(r), images' = images,
         tool'.image = tool.image \/ tool'.image = NoImage \/ (tpc[r] = "save" /\ tool'.image = tloc[r].image),
         ToolTypeOK', OpenLoansAreOne', ImageIsThere'
  PROVE  ToolIInv'
<1>1. /\ tpc' \in [TRequests -> ToolStands] /\ tloc' \in [TRequests -> ToolLocals]
      /\ tpc'[r] = "idle" /\ tloc'[r] = NoLoan
      /\ \A q \in TRequests \ {r} : tpc'[q] = tpc[q] /\ tloc'[q] = tloc[q]
  BY NoLoanIsLocal, ToolGoes DEF TDone, ToolStands
<1>2. \A q \in TRequests : LoanIsKnown(q)'
  BY <1>1 DEF ToolIInv, LoanIsKnown
<1>3. \A q \in TRequests : ImageIsFresh(q)'
  <2> SUFFICES ASSUME NEW q \in TRequests, tpc'[q] = "save" PROVE ImageIsFresh(q)'
    BY DEF ImageIsFresh
  <2>1. q # r /\ ImageIsFresh(q) /\ tpc[q] = "save" /\ tloc'[q] = tloc[q]
    BY <1>1 DEF ToolIInv
  <2>2. tloc[q].image # NoImage
    BY <2>1, ToolTypes, ToolsAssumption DEF ImageIsFresh
  <2>3. tloc[q].image # tool'.image
    BY <2>1, <2>2 DEF ImageIsFresh
  <2>4. \A p \in TRequests : tloc'[p].old # tloc'[q].image
    BY <1>1, <2>1, <2>2, NoLoanIsLocal DEF ImageIsFresh
  <2> QED BY <1>1, <2>1, <2>3, <2>4 DEF ImageIsFresh
<1> QED BY <1>1, <1>2, <1>3 DEF ToolIInv

\* The types after a request has ended.
LEMMA EndedTypes ==
  ASSUME ToolIInv, NEW r \in TRequests, TDone(r)
  PROVE  /\ tpc' \in [TRequests -> ToolStands] /\ tpc'[r] = "idle"
         /\ \A q \in TRequests \ {r} : tpc'[q] = tpc[q] /\ tloc'[q] = tloc[q]
BY NoLoanIsLocal, ToolGoes DEF TDone, ToolStands

\* The row of a new tool, or the purge of its image.
LEMMA CreateToolKeeps ==
  ASSUME ToolIInv, NEW r \in TRequests, CreateTool(r)
  PROVE  ToolIInv'
<1>1. /\ tool' = [is |-> "there", image |-> NoImage] /\ category' = category /\ category
      /\ checkouts' = checkouts /\ images' = images /\ toolCut' = toolCut /\ lentTwice' = lentTwice
      /\ tpc[r] = "idle"
  BY DEF CreateTool
<1>2. /\ tpc' \in [TRequests -> ToolStands] /\ tloc' \in [TRequests -> ToolLocals]
      /\ tpc'[r] \in {"idle", "upload"} /\ tloc'[r] \in {NoLoan, tloc[r]}
      /\ \A q \in TRequests \ {r} : tpc'[q] = tpc[q] /\ tloc'[q] = tloc[q]
  <2>1. CASE TGo(r, "upload", NoLoan)
    BY <2>1, NoLoanIsLocal, ToolGoes DEF ToolStands
  <2>2. CASE UNCHANGED <<tpc, tloc>>
    BY <1>1, <2>2 DEF ToolIInv, ToolTypeOK, ToolStands
  <2> QED BY <2>1, <2>2 DEF CreateTool
<1>3. ToolTypeOK'
  BY <1>1, <1>2 DEF ToolIInv, ToolTypeOK, ToolStands
<1>4. \A q \in TRequests : LoanIsKnown(q)'
  BY <1>2 DEF ToolIInv, LoanIsKnown
<1>5. \A q \in TRequests : ImageIsFresh(q)'
  <2> SUFFICES ASSUME NEW q \in TRequests, tpc'[q] = "save" PROVE ImageIsFresh(q)'
    BY DEF ImageIsFresh
  <2>1. q # r /\ ImageIsFresh(q) /\ tpc[q] = "save" /\ tloc'[q] = tloc[q]
    BY <1>2 DEF ToolIInv
  <2>2. tloc[q].image # NoImage
    BY <2>1, ToolTypes, ToolsAssumption DEF ImageIsFresh
  <2> QED BY <1>1, <1>2, <2>1, <2>2, NoLoanIsLocal DEF ImageIsFresh
<1>6. OpenLoansAreOne'
  BY <1>1 DEF ToolIInv, OpenLoansAreOne, OpenLoans
<1> QED BY <1>1, <1>2, <1>3, <1>4, <1>5, <1>6 DEF ToolIInv, ImageIsThere

\* The row gets the new image.
LEMMA SaveImageKeeps ==
  ASSUME ToolIInv, NEW r \in TRequests, SaveImage(r)
  PROVE  ToolIInv'
<1>1. /\ TDone(r) /\ tpc[r] = "save" /\ tool.is = "there" /\ tool' = [tool EXCEPT !.image = tloc[r].image]
      /\ category' = category /\ checkouts' = checkouts /\ images' = images
      /\ toolCut' = toolCut /\ lentTwice' = lentTwice
  BY DEF SaveImage
<1>2. tloc[r].image \in images
  BY <1>1 DEF ToolIInv, ImageIsFresh
<1>3. tool'.image = tloc[r].image /\ tool'.is = "there" /\ tool' \in [is : {"new", "there", "gone"}, image : TImages \cup {NoImage}]
  BY <1>1, <1>2, ToolTypes DEF ToolIInv, ToolTypeOK
<1>4. ToolTypeOK'
  BY <1>1, <1>3, EndedTypes DEF ToolIInv, ToolTypeOK, ToolStands
<1>5. OpenLoansAreOne'
  BY <1>1 DEF ToolIInv, OpenLoansAreOne, OpenLoans
<1>6. ImageIsThere'
  BY <1>1, <1>2, <1>3 DEF ImageIsThere
<1> QED BY <1>1, <1>3, <1>4, <1>5, <1>6, ToolRequestEnds

\* The row goes, after its image.
LEMMA DeleteToolKeeps ==
  ASSUME ToolIInv, NEW r \in TRequests, DeleteTool(r)
  PROVE  ToolIInv'
<1>1. /\ TDone(r) /\ tool' = GoneTool /\ checkouts' = [i \in CheckoutIds |-> "none"]
      /\ category' = category /\ images' = images /\ toolCut' = toolCut /\ lentTwice' = lentTwice
  BY DEF DeleteTool
<1>2. tool'.image = NoImage /\ tool'.is = "gone"
  BY <1>1 DEF GoneTool
<1>3. ToolTypeOK'
  BY <1>1, <1>2, EndedTypes DEF ToolIInv, ToolTypeOK, ToolStands, GoneTool
<1>4. OpenLoansAreOne'
  BY <1>1 DEF OpenLoansAreOne, OpenLoans, Open
<1>5. ImageIsThere'
  BY <1>2 DEF ImageIsThere
<1> QED BY <1>1, <1>2, <1>3, <1>4, <1>5, ToolRequestEnds

\* Who lends, returns or ends was replacing no image.
LEMMA LoanRequestEnds ==
  ASSUME ToolIInv, NEW r \in TRequests, TDone(r), tpc[r] \in {"lend", "return", "end"},
         tool' = tool, category' = category, images' = images, toolCut' = toolCut,
         checkouts' \in [CheckoutIds -> Open \cup {"none", "RETURNED"}], lentTwice' \in BOOLEAN,
         OpenLoansAreOne'
  PROVE  ToolIInv'
<1>1. ToolTypeOK'
  BY EndedTypes DEF ToolIInv, ToolTypeOK, ToolStands
<1>2. ImageIsThere'
  BY EndedTypes DEF ToolIInv, ImageIsThere
<1> QED BY <1>1, <1>2, ToolRequestEnds

\* The tool is lent.
LEMMA CheckoutCreateKeeps ==
  ASSUME ToolIInv, NEW r \in TRequests, CheckoutCreate(r)
  PROVE  ToolIInv'
<1>1. PICK i \in CheckoutIds : i = Pick(FreeLoans(tloc[r].id[1]))
  BY DEF CheckoutCreate, Pick, FreeLoans
<1>2. /\ TDone(r) /\ tpc[r] = "lend" /\ checkouts' = [checkouts EXCEPT ![i] = "CHECKED_OUT"]
      /\ lentTwice' = (lentTwice \/ OpenLoans \ tloc[r].seen # {})
      /\ tool' = tool /\ category' = category /\ images' = images /\ toolCut' = toolCut
  BY <1>1 DEF CheckoutCreate
<1>3. tloc[r].seen = {}
  BY <1>2 DEF ToolIInv, LoanIsKnown
<1>4. checkouts' \in [CheckoutIds -> Open \cup {"none", "RETURNED"}] /\ lentTwice' \in BOOLEAN
  BY <1>2, ToolTypes DEF Open, ToolIInv, ToolTypeOK
<1>5. OpenLoansAreOne'
  <2>1. ~lentTwice' => OpenLoans = {}
    BY <1>2, <1>3
  <2>2. OpenLoans' \subseteq OpenLoans \cup {i}
    BY <1>2, ToolTypes DEF OpenLoans
  <2> QED BY <2>1, <2>2 DEF OpenLoansAreOne
<1> QED BY <1>2, <1>4, <1>5, LoanRequestEnds

\* The tool is returned.
LEMMA ReturnSaveKeeps ==
  ASSUME ToolIInv, NEW r \in TRequests, ReturnSave(r)
  PROVE  ToolIInv'
<1>1. PICK i \in CheckoutIds : i = tloc[r].id
  BY DEF ReturnSave, ToolIInv, LoanIsKnown
<1>2. /\ TDone(r) /\ tpc[r] = "return" /\ checkouts' = [checkouts EXCEPT ![i] = "RETURN_PENDING"]
      /\ lentTwice' = (lentTwice \/ checkouts[i] = "RETURNED") /\ checkouts[i] # "none"
      /\ tool' = tool /\ category' = category /\ images' = images /\ toolCut' = toolCut
  BY <1>1 DEF ReturnSave
<1>3. checkouts' \in [CheckoutIds -> Open \cup {"none", "RETURNED"}] /\ lentTwice' \in BOOLEAN
  BY <1>2, ToolTypes DEF Open, ToolIInv, ToolTypeOK
<1>4. OpenLoansAreOne'
  <2> SUFFICES ASSUME ~lentTwice' PROVE OpenLoans' \subseteq OpenLoans
    BY <1>2 DEF ToolIInv, OpenLoansAreOne
  <2>1. checkouts[i] \in Open
    BY <1>2, ToolTypes
  <2> QED BY <1>2, <2>1, ToolTypes DEF OpenLoans
<1> QED BY <1>2, <1>3, <1>4, LoanRequestEnds

\* A checkout is ended for the worker.
LEMMA EndSaveKeeps ==
  ASSUME ToolIInv, NEW r \in TRequests, EndSave(r)
  PROVE  ToolIInv'
<1>1. PICK i \in CheckoutIds : i = tloc[r].id
  BY DEF EndSave, ToolIInv, LoanIsKnown
<1>2. /\ TDone(r) /\ tpc[r] = "end" /\ checkouts' = [checkouts EXCEPT ![i] = "RETURNED"]
      /\ lentTwice' = lentTwice
      /\ tool' = tool /\ category' = category /\ images' = images /\ toolCut' = toolCut
  BY <1>1 DEF EndSave
<1>3. checkouts' \in [CheckoutIds -> Open \cup {"none", "RETURNED"}] /\ lentTwice' \in BOOLEAN
  BY <1>2, ToolTypes DEF ToolIInv, ToolTypeOK
<1>4. OpenLoans' \subseteq OpenLoans
  BY <1>2, ToolTypes DEF OpenLoans, Open
<1>5. OpenLoansAreOne'
  BY <1>2, <1>4 DEF ToolIInv, OpenLoansAreOne
<1> QED BY <1>2, <1>3, <1>5, LoanRequestEnds

\* A request that fails past the removal of an image its row still names writes it down.
LEMMA TFailKeeps ==
  ASSUME ToolIInv, NEW r \in TRequests, TFail(r)
  PROVE  ToolIInv'
<1>1. /\ TDone(r) /\ tool' = tool /\ category' = category /\ images' = images
      /\ checkouts' = checkouts /\ lentTwice' = lentTwice
      /\ toolCut' = \/ toolCut
                    \/ /\ tpc[r] \in {"upload", "save", "delete"}
                       /\ tool.image # NoImage /\ tool.image = tloc[r].old
  BY DEF TFail
<1>2. ToolTypeOK'
  BY <1>1, EndedTypes DEF ToolIInv, ToolTypeOK, ToolStands
<1>3. OpenLoansAreOne'
  BY <1>1 DEF ToolIInv, OpenLoansAreOne, OpenLoans
<1>4. ImageIsThere'
  BY <1>1, EndedTypes DEF ToolIInv, ImageIsThere
<1> QED BY <1>1, <1>2, <1>3, <1>4, ToolRequestEnds

\* Every step keeps the invariant.
LEMMA ToolStepKeeps == ToolIInv /\ [ToolNext]_toolVars => ToolIInv'
<1> SUFFICES ASSUME ToolIInv, [ToolNext]_toolVars PROVE ToolIInv'
  OBVIOUS
<1>1. CASE RemoveCategory \/ CreateCategory
  <2>1. /\ tool' = tool /\ checkouts' = checkouts /\ images' = images /\ toolCut' = toolCut
        /\ lentTwice' = lentTwice /\ tpc' = tpc /\ tloc' = tloc
        /\ category' \in BOOLEAN /\ (tool.is = "there" => category')
    BY <1>1 DEF RemoveCategory, CreateCategory
  <2>2. ToolTypeOK'
    BY <2>1 DEF ToolIInv, ToolTypeOK
  <2> QED BY <2>1, <2>2 DEF ToolIInv, LoanIsKnown, ImageIsFresh, ImageIsThere, OpenLoansAreOne, OpenLoans
<1>2. CASE UNCHANGED toolVars
  BY <1>2 DEF toolVars, ToolIInv, ToolTypeOK, LoanIsKnown, ImageIsFresh, ImageIsThere, OpenLoansAreOne, OpenLoans
<1> QED
  BY <1>1, <1>2, CreateToolKeeps, ToolReadsKeep, RemoveImageKeeps, UploadImageKeeps, SaveImageKeeps,
     DeleteToolKeeps, CheckoutCreateKeeps, ReturnSaveKeeps, EndSaveKeeps, TFailKeeps DEF ToolNext

\* The invariant holds of every behaviour.
LEMMA ToolsHold == ToolSpec => []ToolIInv
BY ToolInitial, ToolStepKeeps, PTL DEF ToolSpec

\* The invariant is more than the types and the two parts of ToolsAgree.
LEMMA ToolsFollow == ToolIInv => ToolTypeOK /\ OneOpenCheckout /\ ToolImageExists
<1> SUFFICES ASSUME ToolIInv PROVE OneOpenCheckout /\ ToolImageExists
  BY DEF ToolIInv
<1>1. OneOpenCheckout
  <2> SUFFICES ASSUME ~lentTwice PROVE Cardinality(OpenLoans) <= 1
    BY DEF OneOpenCheckout
  <2>1. CASE OpenLoans = {}
    BY <2>1, FS_EmptySet
  <2>2. CASE OpenLoans # {}
    <3>1. PICK i : OpenLoans = {i}
      BY <2>2 DEF ToolIInv, OpenLoansAreOne
    <3> QED BY <3>1, FS_Singleton
  <2> QED BY <2>1, <2>2
<1>2. ToolImageExists
  BY DEF ToolIInv, ImageIsThere, ToolImageExists
<1> QED BY <1>1, <1>2

-----------------------------------------------------------------------------
(***************************************************************************)
(* Reports.  Bull may run a job again while a handler of an earlier        *)
(* failure is still to write FAILED.  AttemptsAreLeft counts those         *)
(* handlers, and UndisturbedIsLast says that a row that has its file is    *)
(* only written again by a rerun, which the history notes.                 *)
(***************************************************************************)

\* The rows and the jobs there may be.
ReportRows == [status : {"none", "PENDING", "COMPLETED", "FAILED"},
               progress : {NoProgress, 5, 15, 40, 70, 100}, hasFile : BOOLEAN]
Jobs == [at : {"none", "enqueue", "queued", "run", "ended"}, failed : 0..Attempts,
         stage : {0, 5, 15, 40, 70, 90, 100}, stalled : BOOLEAN]

\* A job that may still run has an attempt left, and no more writes of FAILED are out than
\* its runs have failed, one more when Bull has failed it.
AttemptsAreLeft(i) ==
  /\ report[i].status = "none" <=> job[i].at = "none"
  /\ job[i].at = "none" => late[i] = 0
  /\ job[i].at \in {"none", "enqueue", "queued", "run"} => job[i].failed < Attempts
  /\ late[i] <= job[i].failed \/ (job[i].at = "ended" /\ late[i] <= 1)

\* Past the upload the file is stored; past the last write the row has an outcome.
FileIsStored(i) ==
  /\ job[i].stage \in {90, 100} \/ report[i].status = "COMPLETED" \/ report[i].hasFile => i \in stored
  /\ job[i].at = "run" /\ job[i].stage = 100 => report[i].status \in {"COMPLETED", "FAILED"}
  /\ job[i].at = "ended" /\ late[i] = 0 /\ i \notin untold => report[i].status \in {"COMPLETED", "FAILED"}

\* An undisturbed run meets no write of FAILED and is the last; before a rerun disturbs it,
\* nothing touches the row it has completed.
UndisturbedIsLast(i) ==
  /\ job[i].at = "run" /\ (late[i] > 0 \/ job[i].stalled) => i \in disturbed
  /\ report[i].hasFile /\ i \notin disturbed =>
       /\ report[i].status = "COMPLETED" /\ late[i] = 0
       /\ \/ job[i].at = "ended"
          \/ job[i].at = "run" /\ job[i].stage = 100
          \/ job[i].at = "queued" /\ job[i].stalled

\* The inductive invariant.
ReportIInv ==
  /\ ReportTypeOK
  /\ \A i \in ReportIds : AttemptsAreLeft(i) /\ FileIsStored(i) /\ UndisturbedIsLast(i)

\* No report was asked for.
LEMMA ReportInitial == ReportInit => ReportIInv
BY DEF ReportInit, ReportIInv, ReportTypeOK, NoReport, NewJob, NoProgress, Attempts, AttemptsAreLeft, FileIsStored,
       UndisturbedIsLast


\* A step on the report i whose row, job and late writes have their types again and keep
\* the invariant of i leaves the others as they were.
LEMMA OneReportMoves ==
  ASSUME ReportIInv, NEW i \in ReportIds,
         report' \in [ReportIds -> ReportRows], job' \in [ReportIds -> Jobs],
         late' \in [ReportIds -> 0 .. Attempts + 1],
         \A k \in ReportIds \ {i} : report'[k] = report[k] /\ job'[k] = job[k] /\ late'[k] = late[k],
         stored' \in {stored, stored \cup {i}}, disturbed' \in {disturbed, disturbed \cup {i}},
         untold' \in {untold, untold \cup {i}},
         AttemptsAreLeft(i)', FileIsStored(i)', UndisturbedIsLast(i)'
  PROVE  ReportIInv'
<1>1. ReportTypeOK'
  BY DEF ReportIInv, ReportTypeOK, ReportRows, Jobs
<1>2. ASSUME NEW k \in ReportIds, k # i
      PROVE  AttemptsAreLeft(k)' /\ FileIsStored(k)' /\ UndisturbedIsLast(k)'
  <2>1. report'[k] = report[k] /\ job'[k] = job[k] /\ late'[k] = late[k]
    BY <1>2
  <2>2. (k \in stored' <=> k \in stored) /\ (k \in disturbed' <=> k \in disturbed)
        /\ (k \in untold' <=> k \in untold)
    BY <1>2
  <2> QED BY <2>1, <2>2 DEF ReportIInv, AttemptsAreLeft, FileIsStored, UndisturbedIsLast
<1> QED BY <1>1, <1>2 DEF ReportIInv

\* The types of one report's row and job.
LEMMA ReportTypes ==
  ASSUME ReportIInv
  PROVE  /\ report \in [ReportIds -> ReportRows] /\ job \in [ReportIds -> Jobs]
         /\ late \in [ReportIds -> 0 .. Attempts + 1]
BY DEF ReportIInv, ReportTypeOK, ReportRows, Jobs

\* A row that is written is of the rows' type.
LEMMA RowWritten ==
  ASSUME NEW row \in ReportRows, NEW st \in {"none", "PENDING", "COMPLETED", "FAILED"},
         NEW pr \in {NoProgress, 5, 15, 40, 70, 100}
  PROVE  [row EXCEPT !.status = st, !.progress = pr] \in ReportRows
BY DEF ReportRows

\* A job that runs is of the jobs' type.
LEMMA JobStarted ==
  ASSUME NEW j \in Jobs
  PROVE  [j EXCEPT !.at = "run", !.stage = 0] \in Jobs
BY DEF Jobs

\* The row of a report is made before its job.
LEMMA CreateReportKeeps ==
  ASSUME ReportIInv, NEW i \in ReportIds, CreateReport(i)
  PROVE  ReportIInv'
<1>1. AttemptsAreLeft(i) /\ FileIsStored(i) /\ UndisturbedIsLast(i)
  BY DEF ReportIInv
<1>2. /\ report' \in [ReportIds -> ReportRows] /\ job' \in [ReportIds -> Jobs]
      /\ late' \in [ReportIds -> 0 .. Attempts + 1]
  <2>1. report' \in [ReportIds -> ReportRows]
    BY ReportTypes DEF CreateReport, ReportRows, NoProgress
  <2>2. job' \in [ReportIds -> Jobs]
    BY <1>1, ReportTypes DEF CreateReport, Jobs, AttemptsAreLeft, Attempts
  <2>3. late' \in [ReportIds -> 0 .. Attempts + 1]
    BY <1>1, ReportTypes DEF CreateReport, AttemptsAreLeft, Jobs, Attempts
  <2> QED BY <2>1, <2>2, <2>3
<1>3. \A k \in ReportIds \ {i} : report'[k] = report[k] /\ job'[k] = job[k] /\ late'[k] = late[k]
  BY ReportTypes DEF CreateReport
<1>4. report'[i].status = "PENDING" /\ report'[i].hasFile = report[i].hasFile
      /\ job'[i].at = "enqueue" /\ job'[i].failed = job[i].failed /\ job'[i].stage = job[i].stage
      /\ job'[i].stalled = job[i].stalled /\ late'[i] = late[i]
  BY ReportTypes DEF CreateReport, ReportRows, Jobs, NoProgress, Attempts
<1>5. AttemptsAreLeft(i)'
  BY <1>1, <1>4, ReportTypes DEF AttemptsAreLeft, Attempts, ReportRows, Jobs, CreateReport
<1>6. FileIsStored(i)'
  BY <1>1, <1>4, ReportTypes DEF AttemptsAreLeft, FileIsStored, ReportRows, Jobs, CreateReport
<1>7. UndisturbedIsLast(i)'
  BY <1>1, <1>4, ReportTypes DEF AttemptsAreLeft, FileIsStored, UndisturbedIsLast, ReportRows, Jobs, CreateReport
<1> QED BY <1>2, <1>3, <1>5, <1>6, <1>7, OneReportMoves DEF CreateReport

\* The job is put into the queue, or the row says that it could not be.
LEMMA EnqueueReportKeeps ==
  ASSUME ReportIInv, NEW i \in ReportIds, EnqueueReport(i)
  PROVE  ReportIInv'
<1>1. AttemptsAreLeft(i) /\ FileIsStored(i) /\ UndisturbedIsLast(i)
  BY DEF ReportIInv
<1>2. /\ report' \in [ReportIds -> ReportRows] /\ job' \in [ReportIds -> Jobs]
      /\ late' \in [ReportIds -> 0 .. Attempts + 1]
  <2>1. report' \in [ReportIds -> ReportRows]
    BY ReportTypes DEF EnqueueReport, ReportRows, NoProgress
  <2>2. job' \in [ReportIds -> Jobs]
    BY <1>1, ReportTypes DEF EnqueueReport, Jobs, AttemptsAreLeft, Attempts
  <2>3. late' \in [ReportIds -> 0 .. Attempts + 1]
    BY <1>1, ReportTypes DEF EnqueueReport, AttemptsAreLeft, Jobs, Attempts
  <2> QED BY <2>1, <2>2, <2>3
<1>3. \A k \in ReportIds \ {i} : report'[k] = report[k] /\ job'[k] = job[k] /\ late'[k] = late[k]
  BY ReportTypes DEF EnqueueReport
<1>4. report'[i] = report[i] /\ job'[i].failed = job[i].failed /\ job'[i].stage = job[i].stage
      /\ job'[i].stalled = job[i].stalled /\ late'[i] = late[i]
      /\ (job'[i].at = "queued" \/ (job'[i].at = "ended" /\ i \in untold'))
  BY ReportTypes DEF EnqueueReport, ReportRows, Jobs, NoProgress, Attempts
<1>5. AttemptsAreLeft(i)'
  BY <1>1, <1>4, ReportTypes DEF AttemptsAreLeft, Attempts, ReportRows, Jobs, EnqueueReport
<1>6. FileIsStored(i)'
  BY <1>1, <1>4, ReportTypes DEF AttemptsAreLeft, FileIsStored, ReportRows, Jobs, EnqueueReport
<1>7. UndisturbedIsLast(i)'
  BY <1>1, <1>4, ReportTypes DEF AttemptsAreLeft, FileIsStored, UndisturbedIsLast, ReportRows, Jobs, EnqueueReport
<1> QED BY <1>2, <1>3, <1>5, <1>6, <1>7, OneReportMoves DEF EnqueueReport

\* Bull begins a run.
LEMMA StartRunKeeps ==
  ASSUME ReportIInv, NEW i \in ReportIds, StartRun(i)
  PROVE  ReportIInv'
<1>1. AttemptsAreLeft(i) /\ FileIsStored(i) /\ UndisturbedIsLast(i)
  BY DEF ReportIInv
<1>2. /\ report' \in [ReportIds -> ReportRows] /\ job' \in [ReportIds -> Jobs]
      /\ late' \in [ReportIds -> 0 .. Attempts + 1]
  <2>1. report' \in [ReportIds -> ReportRows]
    BY ReportTypes DEF StartRun, ReportRows, NoProgress
  <2>2. job' \in [ReportIds -> Jobs]
    <3>1. [job[i] EXCEPT !.at = "run", !.stage = 0] \in Jobs
      BY ReportTypes, JobStarted
    <3>2. job' = [job EXCEPT ![i] = [job[i] EXCEPT !.at = "run", !.stage = 0]]
      BY ReportTypes DEF StartRun
    <3> QED BY <3>1, <3>2, ReportTypes
  <2>3. late' \in [ReportIds -> 0 .. Attempts + 1]
    BY <1>1, ReportTypes DEF StartRun, AttemptsAreLeft, Jobs, Attempts
  <2> QED BY <2>1, <2>2, <2>3
<1>3. \A k \in ReportIds \ {i} : report'[k] = report[k] /\ job'[k] = job[k] /\ late'[k] = late[k]
  BY ReportTypes DEF StartRun
<1>4. report'[i] = report[i] /\ job'[i].failed = job[i].failed /\ job'[i].stage = 0
      /\ job'[i].stalled = job[i].stalled /\ late'[i] = late[i] /\ job'[i].at = "run"
      /\ (late[i] > 0 \/ job[i].stalled => i \in disturbed')
  BY ReportTypes DEF StartRun, ReportRows, Jobs, NoProgress, Attempts
<1>5. AttemptsAreLeft(i)'
  BY <1>1, <1>4, ReportTypes DEF AttemptsAreLeft, Attempts, ReportRows, Jobs, StartRun
<1>6. FileIsStored(i)'
  BY <1>1, <1>4, ReportTypes DEF AttemptsAreLeft, FileIsStored, ReportRows, Jobs, StartRun
<1>7. UndisturbedIsLast(i)'
  BY <1>1, <1>4, ReportTypes DEF AttemptsAreLeft, FileIsStored, UndisturbedIsLast, ReportRows, Jobs, StartRun
<1> QED BY <1>2, <1>3, <1>5, <1>6, <1>7, OneReportMoves DEF StartRun

\* A run writes how far it is.
LEMMA WriteProgressKeeps ==
  ASSUME ReportIInv, NEW i \in ReportIds, WriteProgress(i)
  PROVE  ReportIInv'
<1>1. AttemptsAreLeft(i) /\ FileIsStored(i) /\ UndisturbedIsLast(i)
  BY DEF ReportIInv
<1>2. /\ report' \in [ReportIds -> ReportRows] /\ job' \in [ReportIds -> Jobs]
      /\ late' \in [ReportIds -> 0 .. Attempts + 1]
  <2>1. report' \in [ReportIds -> ReportRows]
    <3> DEFINE next == After(job[i].stage)
               st  == IF next = 5 THEN "PENDING" ELSE report[i].status
               row == [report[i] EXCEPT !.status = st, !.progress = next]
    <3>1. next \in {5, 15, 40, 70}
      BY DEF WriteProgress, After
    <3>2. row \in ReportRows
      <4>1. PICK old \in ReportRows, to \in {"none", "PENDING", "COMPLETED", "FAILED"},
                 pr \in {NoProgress, 5, 15, 40, 70, 100} : old = report[i] /\ to = st /\ pr = next
        BY <3>1, ReportTypes DEF ReportRows
      <4>2. row = [old EXCEPT !.status = to, !.progress = pr]
        BY <4>1
      <4> HIDE DEF row
      <4>3. [old EXCEPT !.status = to, !.progress = pr] \in ReportRows
        BY <4>1 DEF ReportRows
      <4> QED BY <4>2, <4>3
    <3>3. report' = [report EXCEPT ![i] = row]
      BY ReportTypes DEF WriteProgress
    <3> QED BY <3>2, <3>3, ReportTypes
  <2>2. job' \in [ReportIds -> Jobs]
    BY <1>1, ReportTypes DEF WriteProgress, Jobs, AttemptsAreLeft, Attempts, RunsOf, After
  <2>3. late' \in [ReportIds -> 0 .. Attempts + 1]
    BY <1>1, ReportTypes DEF WriteProgress, AttemptsAreLeft, Jobs, Attempts, RunsOf, After
  <2> QED BY <2>1, <2>2, <2>3
<1>3. \A k \in ReportIds \ {i} : report'[k] = report[k] /\ job'[k] = job[k] /\ late'[k] = late[k]
  BY ReportTypes DEF WriteProgress, RunsOf, After
<1>4. report'[i].hasFile = report[i].hasFile /\ report'[i].status \in {report[i].status, "PENDING"}
      /\ job'[i].at = "run" /\ job'[i].failed = job[i].failed /\ job'[i].stage \in {5, 15, 40, 70}
      /\ job'[i].stalled = job[i].stalled /\ late'[i] = late[i]
  BY ReportTypes DEF WriteProgress, ReportRows, Jobs, NoProgress, Attempts, RunsOf, After
<1>5. AttemptsAreLeft(i)'
  BY <1>1, <1>4, ReportTypes DEF AttemptsAreLeft, Attempts, ReportRows, Jobs, WriteProgress, RunsOf
<1>6. FileIsStored(i)'
  BY <1>1, <1>4, ReportTypes DEF AttemptsAreLeft, FileIsStored, ReportRows, Jobs, WriteProgress, RunsOf
<1>7. UndisturbedIsLast(i)'
  BY <1>1, <1>4, ReportTypes DEF AttemptsAreLeft, FileIsStored, UndisturbedIsLast, ReportRows, Jobs, WriteProgress, RunsOf
<1> QED BY <1>2, <1>3, <1>5, <1>6, <1>7, OneReportMoves DEF WriteProgress

\* A run whose project has gone, or whose file was refused, says so in the row and ends.
LEMMA GiveUpKeeps ==
  ASSUME ReportIInv, NEW i \in ReportIds, GiveUp(i)
  PROVE  ReportIInv'
<1>1. AttemptsAreLeft(i) /\ FileIsStored(i) /\ UndisturbedIsLast(i)
  BY DEF ReportIInv
<1>2. /\ report' \in [ReportIds -> ReportRows] /\ job' \in [ReportIds -> Jobs]
      /\ late' \in [ReportIds -> 0 .. Attempts + 1]
  <2>1. report' \in [ReportIds -> ReportRows]
    <3>1. [report[i] EXCEPT !.status = "FAILED", !.progress = NoProgress] \in ReportRows
      BY ReportTypes, RowWritten
    <3>2. report' = [report EXCEPT ![i] = [report[i] EXCEPT !.status = "FAILED", !.progress = NoProgress]]
      BY ReportTypes DEF GiveUp, failReport
    <3> QED BY <3>1, <3>2, ReportTypes
  <2>2. job' \in [ReportIds -> Jobs]
    BY <1>1, ReportTypes DEF GiveUp, Jobs, AttemptsAreLeft, Attempts, RunsOf, failReport
  <2>3. late' \in [ReportIds -> 0 .. Attempts + 1]
    BY <1>1, ReportTypes DEF GiveUp, AttemptsAreLeft, Jobs, Attempts, RunsOf, failReport
  <2> QED BY <2>1, <2>2, <2>3
<1>3. \A k \in ReportIds \ {i} : report'[k] = report[k] /\ job'[k] = job[k] /\ late'[k] = late[k]
  BY ReportTypes DEF GiveUp, RunsOf, failReport
<1>4. report'[i].hasFile = report[i].hasFile /\ report'[i].status = "FAILED"
      /\ job'[i].at = "ended" /\ job'[i].failed = job[i].failed /\ job'[i].stage = job[i].stage
      /\ job'[i].stalled = job[i].stalled /\ late'[i] = late[i]
  BY ReportTypes DEF GiveUp, ReportRows, Jobs, NoProgress, Attempts, RunsOf, failReport
<1>5. AttemptsAreLeft(i)'
  BY <1>1, <1>4, ReportTypes DEF AttemptsAreLeft, Attempts, ReportRows, Jobs, GiveUp, RunsOf
<1>6. FileIsStored(i)'
  BY <1>1, <1>4, ReportTypes DEF AttemptsAreLeft, FileIsStored, ReportRows, Jobs, GiveUp, RunsOf
<1>7. UndisturbedIsLast(i)'
  BY <1>1, <1>4, ReportTypes DEF AttemptsAreLeft, FileIsStored, UndisturbedIsLast, ReportRows, Jobs, GiveUp, RunsOf
<1> QED BY <1>2, <1>3, <1>5, <1>6, <1>7, OneReportMoves DEF GiveUp

\* A run stores the file.
LEMMA UploadReportKeeps ==
  ASSUME ReportIInv, NEW i \in ReportIds, UploadReport(i)
  PROVE  ReportIInv'
<1>1. AttemptsAreLeft(i) /\ FileIsStored(i) /\ UndisturbedIsLast(i)
  BY DEF ReportIInv
<1>2. /\ report' \in [ReportIds -> ReportRows] /\ job' \in [ReportIds -> Jobs]
      /\ late' \in [ReportIds -> 0 .. Attempts + 1]
  <2>1. report' \in [ReportIds -> ReportRows]
    BY ReportTypes DEF UploadReport, ReportRows, NoProgress, RunsOf
  <2>2. job' \in [ReportIds -> Jobs]
    BY <1>1, ReportTypes DEF UploadReport, Jobs, AttemptsAreLeft, Attempts, RunsOf
  <2>3. late' \in [ReportIds -> 0 .. Attempts + 1]
    BY <1>1, ReportTypes DEF UploadReport, AttemptsAreLeft, Jobs, Attempts, RunsOf
  <2> QED BY <2>1, <2>2, <2>3
<1>3. \A k \in ReportIds \ {i} : report'[k] = report[k] /\ job'[k] = job[k] /\ late'[k] = late[k]
  BY ReportTypes DEF UploadReport, RunsOf
<1>4. report'[i] = report[i] /\ job'[i].at = job[i].at /\ job'[i].failed = job[i].failed /\ job'[i].stage = 90
      /\ job'[i].stalled = job[i].stalled /\ late'[i] = late[i]
  BY ReportTypes DEF UploadReport, ReportRows, Jobs, NoProgress, Attempts, RunsOf
<1>5. AttemptsAreLeft(i)'
  BY <1>1, <1>4, ReportTypes DEF AttemptsAreLeft, Attempts, ReportRows, Jobs, UploadReport, RunsOf
<1>6. FileIsStored(i)'
  BY <1>1, <1>4, ReportTypes DEF AttemptsAreLeft, FileIsStored, ReportRows, Jobs, UploadReport, RunsOf
<1>7. UndisturbedIsLast(i)'
  BY <1>1, <1>4, ReportTypes DEF AttemptsAreLeft, FileIsStored, UndisturbedIsLast, ReportRows, Jobs, UploadReport, RunsOf
<1> QED BY <1>2, <1>3, <1>5, <1>6, <1>7, OneReportMoves DEF UploadReport

\* A run writes that the report is complete, and what file it has.
LEMMA CompleteKeeps ==
  ASSUME ReportIInv, NEW i \in ReportIds, Complete(i)
  PROVE  ReportIInv'
<1>1. AttemptsAreLeft(i) /\ FileIsStored(i) /\ UndisturbedIsLast(i)
  BY DEF ReportIInv
<1>2. /\ report' \in [ReportIds -> ReportRows] /\ job' \in [ReportIds -> Jobs]
      /\ late' \in [ReportIds -> 0 .. Attempts + 1]
  <2>1. report' \in [ReportIds -> ReportRows]
    BY ReportTypes DEF Complete, ReportRows, NoProgress, RunsOf
  <2>2. job' \in [ReportIds -> Jobs]
    BY <1>1, ReportTypes DEF Complete, Jobs, AttemptsAreLeft, Attempts, RunsOf
  <2>3. late' \in [ReportIds -> 0 .. Attempts + 1]
    BY <1>1, ReportTypes DEF Complete, AttemptsAreLeft, Jobs, Attempts, RunsOf
  <2> QED BY <2>1, <2>2, <2>3
<1>3. \A k \in ReportIds \ {i} : report'[k] = report[k] /\ job'[k] = job[k] /\ late'[k] = late[k]
  BY ReportTypes DEF Complete, RunsOf
<1>4. report'[i].hasFile /\ report'[i].status = "COMPLETED" /\ job'[i].at = job[i].at
      /\ job'[i].failed = job[i].failed /\ job'[i].stage = 100
      /\ job'[i].stalled = job[i].stalled /\ late'[i] = late[i]
  BY ReportTypes DEF Complete, ReportRows, Jobs, NoProgress, Attempts, RunsOf
<1>5. AttemptsAreLeft(i)'
  BY <1>1, <1>4, ReportTypes DEF AttemptsAreLeft, Attempts, ReportRows, Jobs, Complete, RunsOf
<1>6. FileIsStored(i)'
  BY <1>1, <1>4, ReportTypes DEF AttemptsAreLeft, FileIsStored, ReportRows, Jobs, Complete, RunsOf
<1>7. UndisturbedIsLast(i)'
  BY <1>1, <1>4, ReportTypes DEF AttemptsAreLeft, FileIsStored, UndisturbedIsLast, ReportRows, Jobs, Complete, RunsOf
<1> QED BY <1>2, <1>3, <1>5, <1>6, <1>7, OneReportMoves DEF Complete

\* A run ends.
LEMMA EndRunKeeps ==
  ASSUME ReportIInv, NEW i \in ReportIds, EndRun(i)
  PROVE  ReportIInv'
<1>1. AttemptsAreLeft(i) /\ FileIsStored(i) /\ UndisturbedIsLast(i)
  BY DEF ReportIInv
<1>2. /\ report' \in [ReportIds -> ReportRows] /\ job' \in [ReportIds -> Jobs]
      /\ late' \in [ReportIds -> 0 .. Attempts + 1]
  <2>1. report' \in [ReportIds -> ReportRows]
    BY ReportTypes DEF EndRun, ReportRows, NoProgress, RunsOf
  <2>2. job' \in [ReportIds -> Jobs]
    BY <1>1, ReportTypes DEF EndRun, Jobs, AttemptsAreLeft, Attempts, RunsOf
  <2>3. late' \in [ReportIds -> 0 .. Attempts + 1]
    BY <1>1, ReportTypes DEF EndRun, AttemptsAreLeft, Jobs, Attempts, RunsOf
  <2> QED BY <2>1, <2>2, <2>3
<1>3. \A k \in ReportIds \ {i} : report'[k] = report[k] /\ job'[k] = job[k] /\ late'[k] = late[k]
  BY ReportTypes DEF EndRun, RunsOf
<1>4. report'[i] = report[i] /\ job'[i].at = "ended" /\ job'[i].failed = job[i].failed
      /\ job'[i].stage = job[i].stage /\ job'[i].stalled = job[i].stalled /\ late'[i] = late[i]
  BY ReportTypes DEF EndRun, ReportRows, Jobs, NoProgress, Attempts, RunsOf
<1>5. AttemptsAreLeft(i)'
  BY <1>1, <1>4, ReportTypes DEF AttemptsAreLeft, Attempts, ReportRows, Jobs, EndRun, RunsOf
<1>6. FileIsStored(i)'
  BY <1>1, <1>4, ReportTypes DEF AttemptsAreLeft, FileIsStored, ReportRows, Jobs, EndRun, RunsOf
<1>7. UndisturbedIsLast(i)'
  BY <1>1, <1>4, ReportTypes DEF AttemptsAreLeft, FileIsStored, UndisturbedIsLast, ReportRows, Jobs, EndRun, RunsOf
<1> QED BY <1>2, <1>3, <1>5, <1>6, <1>7, OneReportMoves DEF EndRun

\* A run fails; Bull tries again while attempts are left.
LEMMA RunFailsKeeps ==
  ASSUME ReportIInv, NEW i \in ReportIds, RunFails(i)
  PROVE  ReportIInv'
<1>1. AttemptsAreLeft(i) /\ FileIsStored(i) /\ UndisturbedIsLast(i)
  BY DEF ReportIInv
<1>2. /\ report' \in [ReportIds -> ReportRows] /\ job' \in [ReportIds -> Jobs]
      /\ late' \in [ReportIds -> 0 .. Attempts + 1]
  <2>1. report' \in [ReportIds -> ReportRows]
    BY ReportTypes DEF RunFails, ReportRows, NoProgress, RunsOf
  <2>2. job' \in [ReportIds -> Jobs]
    BY <1>1, ReportTypes DEF RunFails, Jobs, AttemptsAreLeft, Attempts, RunsOf
  <2>3. late' \in [ReportIds -> 0 .. Attempts + 1]
    BY <1>1, ReportTypes DEF RunFails, AttemptsAreLeft, Jobs, Attempts, RunsOf
  <2> QED BY <2>1, <2>2, <2>3
<1>3. \A k \in ReportIds \ {i} : report'[k] = report[k] /\ job'[k] = job[k] /\ late'[k] = late[k]
  BY ReportTypes DEF RunFails, RunsOf
<1>4. report'[i] = report[i] /\ job'[i].failed = job[i].failed + 1 /\ late'[i] = late[i] + 1
      /\ job'[i].at = (IF job[i].failed + 1 < Attempts THEN "queued" ELSE "ended")
      /\ job'[i].stage = job[i].stage /\ job'[i].stalled = job[i].stalled
  BY ReportTypes DEF RunFails, ReportRows, Jobs, NoProgress, Attempts, RunsOf
<1>5. AttemptsAreLeft(i)'
  BY <1>1, <1>4, ReportTypes DEF AttemptsAreLeft, Attempts, ReportRows, Jobs, RunFails, RunsOf
<1>6. FileIsStored(i)'
  BY <1>1, <1>4, ReportTypes DEF AttemptsAreLeft, FileIsStored, ReportRows, Jobs, RunFails, RunsOf
<1>7. UndisturbedIsLast(i)'
  BY <1>1, <1>4, ReportTypes DEF AttemptsAreLeft, FileIsStored, UndisturbedIsLast, ReportRows, Jobs, RunFails, RunsOf
<1> QED BY <1>2, <1>3, <1>5, <1>6, <1>7, OneReportMoves DEF RunFails

\* The handler of failed jobs writes that the report has failed.
LEMMA onFailedKeeps ==
  ASSUME ReportIInv, NEW i \in ReportIds, onFailed(i)
  PROVE  ReportIInv'
<1>1. AttemptsAreLeft(i) /\ FileIsStored(i) /\ UndisturbedIsLast(i)
  BY DEF ReportIInv
<1>2. /\ report' \in [ReportIds -> ReportRows] /\ job' \in [ReportIds -> Jobs]
      /\ late' \in [ReportIds -> 0 .. Attempts + 1]
  <2>1. report' \in [ReportIds -> ReportRows]
    BY ReportTypes DEF onFailed, ReportRows, NoProgress, failReport
  <2>2. job' \in [ReportIds -> Jobs]
    BY <1>1, ReportTypes DEF onFailed, Jobs, AttemptsAreLeft, Attempts, failReport
  <2>3. late' \in [ReportIds -> 0 .. Attempts + 1]
    BY <1>1, ReportTypes DEF onFailed, AttemptsAreLeft, Jobs, Attempts, failReport
  <2> QED BY <2>1, <2>2, <2>3
<1>3. \A k \in ReportIds \ {i} : report'[k] = report[k] /\ job'[k] = job[k] /\ late'[k] = late[k]
  BY ReportTypes DEF onFailed, failReport
<1>4. job'[i] = job[i] /\ late'[i] = late[i] - 1
      /\ report'[i].hasFile = report[i].hasFile
      /\ (report'[i].status = "FAILED" \/ (report'[i] = report[i] /\ i \in untold'))
  BY ReportTypes DEF onFailed, ReportRows, Jobs, NoProgress, Attempts, failReport
<1>5. AttemptsAreLeft(i)'
  BY <1>1, <1>4, ReportTypes DEF AttemptsAreLeft, Attempts, ReportRows, Jobs, onFailed
<1>6. FileIsStored(i)'
  BY <1>1, <1>4, ReportTypes DEF AttemptsAreLeft, FileIsStored, ReportRows, Jobs, onFailed
<1>7. UndisturbedIsLast(i)'
  BY <1>1, <1>4, ReportTypes DEF AttemptsAreLeft, FileIsStored, UndisturbedIsLast, ReportRows, Jobs, onFailed
<1> QED BY <1>2, <1>3, <1>5, <1>6, <1>7, OneReportMoves DEF onFailed


\* The process dies; Bull gives its jobs to the next one.
LEMMA CrashReportsKeeps ==
  ASSUME ReportIInv, CrashReports
  PROVE  ReportIInv'
<1>1. ASSUME NEW i \in ReportIds
      PROVE  /\ AttemptsAreLeft(i) /\ FileIsStored(i) /\ UndisturbedIsLast(i)
             /\ job'[i] \in Jobs /\ late'[i] \in 0 .. Attempts + 1
             /\ AttemptsAreLeft(i)' /\ FileIsStored(i)' /\ UndisturbedIsLast(i)'
  <2>0. AttemptsAreLeft(i) /\ FileIsStored(i) /\ UndisturbedIsLast(i)
    BY DEF ReportIInv
  <2>1. PICK j \in Jobs : j = job[i]
    BY ReportTypes
  <2>2. /\ report'[i] = report[i] /\ stored' = stored /\ disturbed' = disturbed
        /\ (i \in untold => i \in untold') /\ (j.at = "enqueue" \/ late[i] > 0 => i \in untold')
    BY <2>1 DEF CrashReports
  <2>3. CASE j.at = "enqueue"
    <3>1. job'[i] = [j EXCEPT !.at = "ended"] /\ late'[i] = 0
      BY <2>1, <2>3 DEF CrashReports, RunsOf
    <3>2. /\ job'[i] \in Jobs /\ job'[i].at = "ended" /\ job'[i].stage = j.stage
          /\ job'[i].failed = j.failed /\ job'[i].stalled = j.stalled
      BY <3>1 DEF Jobs
    <3> QED
      BY <2>0, <2>1, <2>2, <2>3, <3>1, <3>2
         DEF AttemptsAreLeft, FileIsStored, UndisturbedIsLast, Jobs, Attempts
  <2>4. CASE j.at = "run"
    <3>1. /\ job'[i] = [j EXCEPT !.at = IF j.stalled THEN "ended" ELSE "queued", !.stalled = TRUE]
          /\ late'[i] = IF j.stalled THEN 1 ELSE 0
      BY <2>1, <2>4 DEF CrashReports, RunsOf
    <3>2. /\ job'[i] \in Jobs /\ job'[i].at = (IF j.stalled THEN "ended" ELSE "queued")
          /\ job'[i].stage = j.stage /\ job'[i].failed = j.failed /\ job'[i].stalled
      BY <3>1 DEF Jobs
    <3> QED
      BY <2>0, <2>1, <2>2, <2>4, <3>1, <3>2
         DEF AttemptsAreLeft, FileIsStored, UndisturbedIsLast, Jobs, Attempts
  <2>5. CASE j.at \notin {"enqueue", "run"}
    <3>1. job'[i] = j /\ late'[i] = 0
      BY <2>1, <2>5 DEF CrashReports, RunsOf
    <3> QED
      BY <2>0, <2>1, <2>2, <2>5, <3>1, ReportTypes
         DEF AttemptsAreLeft, FileIsStored, UndisturbedIsLast, Jobs, Attempts
  <2> QED BY <2>0, <2>3, <2>4, <2>5
<1>2. job' \in [ReportIds -> Jobs] /\ late' \in [ReportIds -> 0 .. Attempts + 1]
  BY <1>1 DEF CrashReports
<1>3. ReportTypeOK'
  BY <1>2 DEF ReportIInv, ReportTypeOK, CrashReports, Jobs
<1> QED BY <1>1, <1>3 DEF ReportIInv

\* Every step keeps the invariant.
LEMMA ReportStepKeeps == ReportIInv /\ [ReportNext]_reportVars => ReportIInv'
<1> SUFFICES ASSUME ReportIInv, [ReportNext]_reportVars PROVE ReportIInv'
  OBVIOUS
<1>1. ASSUME NEW i \in ReportIds, ReportStep(i) PROVE ReportIInv'
  BY <1>1, CreateReportKeeps, EnqueueReportKeeps, StartRunKeeps, WriteProgressKeeps, GiveUpKeeps,
     UploadReportKeeps, CompleteKeeps, EndRunKeeps, RunFailsKeeps, onFailedKeeps DEF ReportStep
<1>2. CASE UNCHANGED reportVars
  BY <1>2 DEF reportVars, ReportIInv, ReportTypeOK, AttemptsAreLeft, FileIsStored, UndisturbedIsLast
<1> QED BY <1>1, <1>2, CrashReportsKeeps DEF ReportNext

\* How runs, failures and the writes of FAILED still to come account for one another, and
\* what an undisturbed run leaves in the row, in every behaviour (ReportProcessor).
THEOREM ReportsHold == ReportSpec => []ReportIInv
BY ReportInitial, ReportStepKeeps, PTL DEF ReportSpec

\* The invariant is more than the types and that reports agree with their files.
LEMMA ReportsInvariantSuffices == ReportIInv => ReportTypeOK /\ ReportsAgree
BY DEF ReportIInv, FileIsStored, UndisturbedIsLast, ReportsAgree, LinkHasFile, RowTellsTheEnd

-----------------------------------------------------------------------------
(***************************************************************************)
(* Drawn signatures.  The check for an earlier signature and the insert    *)
(* are two statements: PastIsAlone says that of one person a single        *)
(* request is past the check, unless two crossed.                          *)
(***************************************************************************)

Past(r) == sgpc[r] \in past

\* Of a person, one request is past the check, or there is no row yet, unless they crossed.
PastIsAlone ==
  \A r \in SgRequests : Past(r) =>
    LET u == sgloc[r].signer IN
    \/ u \in crossed
    \/ /\ \A q \in SgRequests : Past(q) /\ sgloc[q].signer = u => q = r
       /\ \A s \in signatures : s.signer # u

\* A request has a signer from its start, and an image once it has uploaded one.
HasDrawing ==
  \A r \in SgRequests :
    /\ sgpc[r] # "idle" => sgloc[r].signer \in SgSigners
    /\ sgpc[r] = "uploaded" => sgloc[r].image \in drawn
    /\ sgpc[r] # "uploaded" => sgloc[r].image = 0

SignatureInv ==
  SignatureTypeOK /\ HasDrawing /\ PastIsAlone /\ SignedOnce /\ DrawingHasRow

\* No signature, nobody on the way.
LEMMA SignatureStart == SignatureInit => SignatureInv
BY DEF SignatureInit, SignatureInv, SignatureTypeOK, HasDrawing, PastIsAlone, SignedOnce,
   DrawingHasRow, NoDrawing, Past, past

\* A request goes to another await, and the others stay where they are.
LEMMA SignatureGoes ==
  ASSUME SignatureInv, NEW r \in SgRequests,
         NEW at \in {"idle", "resolved", "checked", "uploaded"},
         NEW l \in [signer : SgSigners \cup {NoSigner}, image : SgImages \cup {0}],
         SgGo(r, at, l)
  PROVE  /\ sgpc' \in [SgRequests -> {"idle", "resolved", "checked", "uploaded"}]
         /\ sgloc' \in [SgRequests -> [signer : SgSigners \cup {NoSigner}, image : SgImages \cup {0}]]
         /\ sgpc'[r] = at /\ sgloc'[r] = l
         /\ \A q \in SgRequests \ {r} : sgpc'[q] = sgpc[q] /\ sgloc'[q] = sgloc[q]
BY DEF SignatureInv, SignatureTypeOK, SgGo

\* A request begins with its signer.
LEMMA BeginKeeps ==
  ASSUME SignatureInv, NEW r \in SgRequests, NEW u \in SgSigners, BeginSignature(r, u)
  PROVE  SignatureInv'
<1>1. /\ UNCHANGED <<target, placed, mayMake, exists, signatures, drawn, unsigned, crossed>>
      /\ sgpc[r] = "idle" /\ SgGo(r, "resolved", [signer |-> u, image |-> 0])
  BY DEF BeginSignature, entity
<1>2. /\ sgpc' \in [SgRequests -> {"idle", "resolved", "checked", "uploaded"}]
      /\ sgloc' \in [SgRequests -> [signer : SgSigners \cup {NoSigner}, image : SgImages \cup {0}]]
      /\ sgpc'[r] = "resolved" /\ sgloc'[r] = [signer |-> u, image |-> 0]
      /\ \A q \in SgRequests \ {r} : sgpc'[q] = sgpc[q] /\ sgloc'[q] = sgloc[q]
  BY <1>1, SignatureGoes
<1>3. SignatureTypeOK' /\ HasDrawing'
  BY <1>1, <1>2 DEF SignatureInv, SignatureTypeOK, HasDrawing
<1>4. PastIsAlone' /\ SignedOnce'
  BY <1>1, <1>2 DEF SignatureInv, PastIsAlone, SignedOnce, Past, past
<1>5. DrawingHasRow'
  BY <1>1, <1>2, SignatureAssumption DEF SignatureInv, SignatureTypeOK, HasDrawing, DrawingHasRow
<1> QED BY <1>3, <1>4, <1>5 DEF SignatureInv

\* It looks for an earlier signature.
LEMMA FindKeeps ==
  ASSUME SignatureInv, NEW r \in SgRequests, FindSignature(r)
  PROVE  SignatureInv'
<1> DEFINE u == sgloc[r].signer
           others == {q \in SgRequests \ {r} : sgpc[q] \in past /\ sgloc[q].signer = u}
<1>1. /\ UNCHANGED <<target, placed, mayMake, exists, signatures, drawn, unsigned>>
      /\ sgpc[r] = "resolved" /\ SgGo(r, "checked", sgloc[r])
      /\ \A s \in signatures : s.signer # u
      /\ crossed' = IF others = {} THEN crossed ELSE crossed \cup {u}
  BY DEF FindSignature, entity
<1>2. u \in SgSigners /\ sgloc[r].image = 0
      /\ sgloc[r] \in [signer : SgSigners \cup {NoSigner}, image : SgImages \cup {0}]
  BY <1>1 DEF SignatureInv, SignatureTypeOK, HasDrawing
<1>3. /\ sgpc' \in [SgRequests -> {"idle", "resolved", "checked", "uploaded"}]
      /\ sgloc' \in [SgRequests -> [signer : SgSigners \cup {NoSigner}, image : SgImages \cup {0}]]
      /\ sgpc'[r] = "checked" /\ sgloc'[r] = sgloc[r]
      /\ \A q \in SgRequests \ {r} : sgpc'[q] = sgpc[q] /\ sgloc'[q] = sgloc[q]
  BY <1>1, <1>2, SignatureGoes
<1>4. crossed \subseteq crossed' /\ crossed' \subseteq SgSigners
  BY <1>1, <1>2 DEF SignatureInv, SignatureTypeOK
<1>5. SignatureTypeOK' /\ HasDrawing'
  BY <1>1, <1>2, <1>3, <1>4 DEF SignatureInv, SignatureTypeOK, HasDrawing
<1>6. PastIsAlone'
  <2>1. CASE others = {}
    <3>1. \A q \in SgRequests : Past(q)' /\ sgloc'[q].signer = u => q = r
      BY <1>3, <2>1 DEF Past
    <3> QED BY <1>1, <1>3, <1>4, <3>1 DEF SignatureInv, PastIsAlone, Past
  <2>2. CASE others # {}
    <3>1. u \in crossed'
      BY <1>1, <2>2
    <3> QED BY <1>1, <1>3, <1>4, <3>1 DEF SignatureInv, PastIsAlone, Past
  <2> QED BY <2>1, <2>2
<1>7. SignedOnce' /\ DrawingHasRow'
  BY <1>1, <1>3, <1>4 DEF SignatureInv, SignedOnce, DrawingHasRow
<1> QED BY <1>5, <1>6, <1>7 DEF SignatureInv

\* A request that is refused was not yet the owner of an image.
LEMMA RefuseKeeps ==
  ASSUME SignatureInv, NEW r \in SgRequests, RefuseSignature(r)
  PROVE  SignatureInv'
<1>1. /\ UNCHANGED <<target, placed, mayMake, exists, signatures, drawn, unsigned, crossed>>
      /\ sgpc[r] \in {"resolved", "checked"} /\ SgGo(r, "idle", NoDrawing)
  BY DEF RefuseSignature, entity
<1>2. /\ sgpc' \in [SgRequests -> {"idle", "resolved", "checked", "uploaded"}]
      /\ sgloc' \in [SgRequests -> [signer : SgSigners \cup {NoSigner}, image : SgImages \cup {0}]]
      /\ sgpc'[r] = "idle" /\ sgloc'[r].image = 0 /\ sgloc'[r].signer = NoSigner
      /\ \A q \in SgRequests \ {r} : sgpc'[q] = sgpc[q] /\ sgloc'[q] = sgloc[q]
  BY <1>1, SignatureGoes DEF NoDrawing
<1>3. SignatureTypeOK' /\ HasDrawing'
  BY <1>1, <1>2 DEF SignatureInv, SignatureTypeOK, HasDrawing
<1>4. PastIsAlone' /\ SignedOnce'
  BY <1>1, <1>2 DEF SignatureInv, PastIsAlone, SignedOnce, Past, past
<1>5. DrawingHasRow'
  BY <1>1, <1>2 DEF SignatureInv, SignatureTypeOK, HasDrawing, DrawingHasRow
<1> QED BY <1>3, <1>4, <1>5 DEF SignatureInv

\* An image drawn is in a row, given up, or with a request that has just uploaded it.
LEMMA UploadKeeps ==
  ASSUME SignatureInv, NEW r \in SgRequests, NEW i \in SgImages, UploadDrawing(r, i)
  PROVE  SignatureInv'
<1>1. /\ UNCHANGED <<target, placed, mayMake, exists, signatures, unsigned, crossed>>
      /\ sgpc[r] = "checked" /\ drawn' = drawn \cup {i} /\ i \notin drawn
      /\ SgGo(r, "uploaded", [sgloc[r] EXCEPT !.image = i])
  BY DEF UploadDrawing, entity
<1>2. /\ sgloc[r].signer \in SgSigners
      /\ [sgloc[r] EXCEPT !.image = i] = [signer |-> sgloc[r].signer, image |-> i]
  BY <1>1 DEF SignatureInv, SignatureTypeOK, HasDrawing
<1>3. /\ sgpc' \in [SgRequests -> {"idle", "resolved", "checked", "uploaded"}]
      /\ sgloc' \in [SgRequests -> [signer : SgSigners \cup {NoSigner}, image : SgImages \cup {0}]]
      /\ sgpc'[r] = "uploaded" /\ sgloc'[r].signer = sgloc[r].signer /\ sgloc'[r].image = i
      /\ \A q \in SgRequests \ {r} : sgpc'[q] = sgpc[q] /\ sgloc'[q] = sgloc[q]
  BY <1>1, <1>2, SignatureGoes
<1>4. SignatureTypeOK' /\ HasDrawing'
  BY <1>1, <1>2, <1>3 DEF SignatureInv, SignatureTypeOK, HasDrawing
<1>5. \A q \in SgRequests : Past(q)' <=> Past(q)
  BY <1>1, <1>3 DEF Past, past
<1>6. PastIsAlone' /\ SignedOnce'
  <2>1. \A q \in SgRequests : sgloc'[q].signer = sgloc[q].signer
    BY <1>3
  <2> QED BY <1>1, <1>5, <2>1 DEF SignatureInv, PastIsAlone, SignedOnce
<1>7. DrawingHasRow'
  <2>1. {s.image : s \in signatures'} \subseteq drawn'
    BY <1>1 DEF SignatureInv, DrawingHasRow
  <2>2. ASSUME NEW j \in drawn' \ unsigned', j # i
        PROVE  \/ \E s \in signatures' : s.image = j
               \/ \E q \in SgRequests : sgloc'[q].image = j
    <3>1. \/ \E s \in signatures : s.image = j
          \/ \E q \in SgRequests : sgloc[q].image = j
      BY <1>1, <2>2 DEF SignatureInv, DrawingHasRow
    <3>2. sgloc[r].image = 0 /\ drawn \subseteq SgImages
      BY <1>1 DEF SignatureInv, HasDrawing, SignatureTypeOK
    <3>3. \A q \in SgRequests : q # r => sgloc'[q].image = sgloc[q].image
      BY <1>3
    <3>4. CASE \E s \in signatures : s.image = j
      BY <1>1, <3>4
    <3>5. CASE \E q \in SgRequests : sgloc[q].image = j /\ q # r
      BY <3>3, <3>5
    <3>6. j # 0
      BY <1>1, <2>2, <3>2, SignatureAssumption
    <3> QED BY <3>1, <3>2, <3>4, <3>5, <3>6
  <2> QED BY <1>3, <2>1, <2>2 DEF DrawingHasRow
<1> QED BY <1>4, <1>6, <1>7 DEF SignatureInv

\* The row is written: whoever else is past the check with the same signer has crossed.
LEMMA SignatureCreateKeeps ==
  ASSUME SignatureInv, NEW r \in SgRequests, CreateSignature(r)
  PROVE  SignatureInv'
<1> DEFINE u == sgloc[r].signer  i == sgloc[r].image
<1>1. /\ UNCHANGED <<target, placed, mayMake, exists, drawn, unsigned, crossed>>
      /\ sgpc[r] = "uploaded" /\ signatures' = signatures \cup {sgloc[r]}
      /\ SgGo(r, "idle", NoDrawing)
  BY DEF CreateSignature, entity
<1>2. u \in SgSigners /\ i \in drawn /\ sgloc[r] \in [signer : SgSigners, image : SgImages]
  BY <1>1 DEF SignatureInv, SignatureTypeOK, HasDrawing
<1>3. /\ sgpc' \in [SgRequests -> {"idle", "resolved", "checked", "uploaded"}]
      /\ sgloc' \in [SgRequests -> [signer : SgSigners \cup {NoSigner}, image : SgImages \cup {0}]]
      /\ sgpc'[r] = "idle" /\ sgloc'[r].image = 0
      /\ \A q \in SgRequests \ {r} : sgpc'[q] = sgpc[q] /\ sgloc'[q] = sgloc[q]
  BY <1>1, SignatureGoes DEF NoDrawing
<1>4. SignatureTypeOK' /\ HasDrawing'
  BY <1>1, <1>2, <1>3 DEF SignatureInv, SignatureTypeOK, HasDrawing
<1>5. \A s \in signatures : s.signer = u => u \in crossed
  BY <1>1 DEF SignatureInv, PastIsAlone, Past, past
<1>6. \A q \in SgRequests \ {r} : Past(q) /\ sgloc[q].signer = u => u \in crossed
  BY <1>1 DEF SignatureInv, PastIsAlone, Past, past
<1>7. PastIsAlone'
  BY <1>1, <1>3, <1>6 DEF SignatureInv, PastIsAlone, Past, past
<1>8. SignedOnce'
  BY <1>1, <1>5 DEF SignatureInv, SignedOnce
<1>9. DrawingHasRow'
  <2>1. {s.image : s \in signatures'} \subseteq drawn'
    BY <1>1, <1>2 DEF SignatureInv, DrawingHasRow
  <2>2. ASSUME NEW j \in drawn' \ unsigned'
        PROVE  \/ \E s \in signatures' : s.image = j
               \/ \E q \in SgRequests : sgloc'[q].image = j
    <3>1. \/ \E s \in signatures : s.image = j
          \/ \E q \in SgRequests : sgloc[q].image = j
      BY <1>1, <2>2 DEF SignatureInv, DrawingHasRow
    <3>2. CASE \E s \in signatures : s.image = j
      BY <1>1, <3>2
    <3>3. CASE j = i
      BY <1>1, <3>3
    <3>4. CASE \E q \in SgRequests : sgloc[q].image = j /\ q # r
      BY <1>3, <3>4
    <3> QED BY <3>1, <3>2, <3>3, <3>4
  <2> QED BY <2>1, <2>2 DEF DrawingHasRow
<1> QED BY <1>4, <1>7, <1>8, <1>9 DEF SignatureInv

\* A request fails with its image uploaded and without a row, which is noted.
LEMMA LoseKeeps ==
  ASSUME SignatureInv, NEW r \in SgRequests, LoseSignature(r)
  PROVE  SignatureInv'
<1>1. /\ UNCHANGED <<target, placed, mayMake, exists, signatures, drawn, crossed>>
      /\ sgpc[r] = "uploaded" /\ unsigned' = unsigned \cup {sgloc[r].image}
      /\ SgGo(r, "idle", NoDrawing)
  BY DEF LoseSignature, entity
<1>2. sgloc[r].image \in SgImages
  BY <1>1 DEF SignatureInv, SignatureTypeOK, HasDrawing
<1>3. /\ sgpc' \in [SgRequests -> {"idle", "resolved", "checked", "uploaded"}]
      /\ sgloc' \in [SgRequests -> [signer : SgSigners \cup {NoSigner}, image : SgImages \cup {0}]]
      /\ sgpc'[r] = "idle" /\ sgloc'[r].image = 0
      /\ \A q \in SgRequests \ {r} : sgpc'[q] = sgpc[q] /\ sgloc'[q] = sgloc[q]
  BY <1>1, SignatureGoes DEF NoDrawing
<1>4. SignatureTypeOK' /\ HasDrawing'
  BY <1>1, <1>2, <1>3 DEF SignatureInv, SignatureTypeOK, HasDrawing
<1>5. PastIsAlone' /\ SignedOnce'
  BY <1>1, <1>3 DEF SignatureInv, PastIsAlone, SignedOnce, Past, past
<1>6. DrawingHasRow'
  BY <1>1, <1>3 DEF SignatureInv, DrawingHasRow
<1> QED BY <1>4, <1>5, <1>6 DEF SignatureInv

\* Every step keeps the invariant.
LEMMA SignatureStep == SignatureInv /\ [SignatureNext]_signatureVars => SignatureInv'
<1> SUFFICES ASSUME SignatureInv, [SignatureNext]_signatureVars PROVE SignatureInv'
  OBVIOUS
<1>1. CASE UNCHANGED signatureVars \/ DeleteEntity
  BY <1>1 DEF signatureVars, DeleteEntity, SignatureInv, SignatureTypeOK, HasDrawing,
     PastIsAlone, SignedOnce, DrawingHasRow, Past
<1>2. ASSUME NEW r \in SgRequests, NEW u \in SgSigners, BeginSignature(r, u)
      PROVE  SignatureInv'
  BY <1>2, BeginKeeps
<1>3. ASSUME NEW r \in SgRequests, NEW i \in SgImages, UploadDrawing(r, i)
      PROVE  SignatureInv'
  BY <1>3, UploadKeeps
<1>4. ASSUME NEW r \in SgRequests,
             FindSignature(r) \/ RefuseSignature(r) \/ CreateSignature(r) \/ LoseSignature(r)
      PROVE  SignatureInv'
  BY <1>4, FindKeeps, RefuseKeeps, SignatureCreateKeeps, LoseKeeps
<1> QED BY <1>1, <1>2, <1>3, <1>4 DEF SignatureNext

\* However many requests overlap, a person signs an entity twice only if two of their own
\* were past the check at once; every signature shows a stored drawing, and a drawing
\* without its signature is one whose row could not be written (create of
\* SignaturesService).
THEOREM SignaturesHold == SignatureSpec => [](SignatureTypeOK /\ SignaturesAgree)
<1>1. SignatureInv => SignatureTypeOK /\ SignaturesAgree
  BY DEF SignatureInv, SignaturesAgree
<1> QED BY <1>1, SignatureStart, SignatureStep, PTL DEF SignatureSpec

-----------------------------------------------------------------------------
(***************************************************************************)
(* The cached lists.  What Redis holds is the list of the rows unless the  *)
(* history says why not.  CachedIsCurrent is inductive on typed states:    *)
(* the only steps that make the entry differ from the rows leave their     *)
(* request at an await before its invalidation or write the reason down.   *)
(***************************************************************************)

Awaits == {"idle", "read", "store", "phases", "signal", "invalidate"}

\* A request goes to another await: it stands there, and the others where they stood.
LEMMA ListGoes ==
  ASSUME ListTypeOK, NEW r \in LRequests, NEW at \in Awaits, NEW v \in LVersions, LGo(r, at, v)
  PROVE  /\ lpc' \in [LRequests -> Awaits] /\ lloc' \in [LRequests -> LVersions]
         /\ lpc'[r] = at
         /\ \A q \in LRequests \ {r} : lpc'[q] = lpc[q]
BY DEF ListTypeOK, LGo, Awaits

\* The kinds of steps the actions are made of; each keeps the type and CachedIsCurrent.

\* Looking up and reading change no entry.
LEMMA LookupKeeps ==
  ASSUME ListTypeOK, CachedIsCurrent, NEW r \in LRequests, Lookup(r) \/ ReadList(r)
  PROVE  ListTypeOK' /\ CachedIsCurrent'
<1>1. /\ family' = family /\ rowsAt' = rowsAt /\ entry' = entry /\ why' = why
      /\ lpc[r] \in {"idle", "read"}
  BY DEF Lookup, ReadList
<1>2. PICK at \in Awaits, v \in LVersions : LGo(r, at, v)
  BY ListsAssumption DEF Lookup, ReadList, Awaits, ListTypeOK
<1>3. ListTypeOK'
  BY <1>1, <1>2, ListGoes DEF ListTypeOK, Awaits
<1>4. CachedIsCurrent'
  BY <1>1, <1>2, ListGoes DEF CachedIsCurrent, Announced
<1> QED BY <1>3, <1>4

\* An answer that is stored is current or has its reason written down.
LEMMA StoreKeeps ==
  ASSUME ListTypeOK, CachedIsCurrent, NEW r \in LRequests, StoreEntry(r)
  PROVE  ListTypeOK' /\ CachedIsCurrent'
<1>1. /\ family' = family /\ rowsAt' = rowsAt /\ lpc[r] = "store"
      /\ \/ entry' = lloc[r] /\ why' = IF lloc[r] = rowsAt THEN {} ELSE {"overlap"}
         \/ entry' = entry /\ why' = why
  BY DEF StoreEntry
<1>2. LGo(r, "idle", 0) /\ "idle" \in Awaits /\ 0 \in LVersions
  BY ListsAssumption DEF StoreEntry, LDone, Awaits
<1>3. ListTypeOK'
  <2>1. entry' \in LVersions \cup {NoEntry}
    BY <1>1 DEF ListTypeOK
  <2>2. why' \subseteq {"overlap", "silent", "unreachable", "cut"}
    <3>1. CASE why' = why
      BY <3>1 DEF ListTypeOK
    <3>2. CASE why' = {} \/ why' = {"overlap"}
      BY <3>2
    <3> QED BY <1>1, <3>1, <3>2
  <2> QED BY <1>1, <1>2, <2>1, <2>2, ListGoes DEF ListTypeOK, Awaits
<1>4. CASE entry' = entry /\ why' = why
  <2>1. Announced => Announced'
    BY <1>1, <1>2, ListGoes DEF Announced
  <2> QED BY <1>1, <1>3, <1>4, <2>1 DEF CachedIsCurrent
<1>5. CASE entry' = lloc[r] /\ why' = IF lloc[r] = rowsAt THEN {} ELSE {"overlap"}
  BY <1>1, <1>3, <1>5 DEF CachedIsCurrent
<1> QED BY <1>1, <1>3, <1>4, <1>5

\* A change leaves its request on the way to an invalidation.
LEMMA ChangeKeeps ==
  ASSUME ListTypeOK, NEW r \in LRequests, NEW at \in {"phases", "signal", "invalidate"},
         Change(r, at)
  PROVE  ListTypeOK' /\ CachedIsCurrent'
<1>1. /\ family' = family /\ entry' = entry /\ why' = why
      /\ rowsAt' = rowsAt + 1 /\ rowsAt + 1 \in LVersions
  BY DEF Change
<1>2. LGo(r, at, 0) /\ at \in Awaits /\ 0 \in LVersions
  BY ListsAssumption DEF Change, Awaits
<1>3. ListTypeOK'
  BY <1>1, <1>2, ListGoes DEF ListTypeOK, Awaits
<1>4. Announced'
  BY <1>2, ListGoes DEF Announced
<1> QED BY <1>3, <1>4 DEF CachedIsCurrent

\* It stays on the way while it writes the phases or signals to the apps.
LEMMA OnTheWayKeeps ==
  ASSUME ListTypeOK, NEW r \in LRequests, UnassignClear(r) \/ Signal(r)
  PROVE  ListTypeOK' /\ CachedIsCurrent'
<1>1. family' = family /\ rowsAt' = rowsAt /\ entry' = entry /\ why' = why
  BY DEF UnassignClear, Signal
<1>2. LGo(r, "invalidate", 0) /\ "invalidate" \in Awaits /\ 0 \in LVersions
  BY ListsAssumption DEF UnassignClear, Signal, Awaits
<1>3. ListTypeOK'
  BY <1>1, <1>2, ListGoes DEF ListTypeOK, Awaits
<1>4. Announced'
  BY <1>2, ListGoes DEF Announced
<1> QED BY <1>3, <1>4 DEF CachedIsCurrent

\* A change that tells nobody, an invalidation that fails and a request that is cut write
\* down why the entry may be old, if there is one.
LEMMA ExcusedKeeps ==
  ASSUME ListTypeOK, NEW reason \in {"silent", "unreachable", "cut"}, Excused(reason),
         entry' = entry
  PROVE  /\ why' \subseteq {"overlap", "silent", "unreachable", "cut"}
         /\ CachedIsCurrent'
BY DEF ListTypeOK, Excused, CachedIsCurrent

\* A change that invalidates nothing is noted.
LEMMA SilentKeeps ==
  ASSUME ListTypeOK, Silently
  PROVE  ListTypeOK' /\ CachedIsCurrent'
BY ExcusedKeeps DEF Silently, ListTypeOK

\* The entry goes, or Redis cannot be reached, which is noted.
LEMMA InvalidateKeeps ==
  ASSUME ListTypeOK, NEW r \in LRequests, Invalidate(r)
  PROVE  ListTypeOK' /\ CachedIsCurrent'
<1>1. /\ family' = family /\ rowsAt' = rowsAt
      /\ \/ entry' = NoEntry /\ why' = {}
         \/ entry' = entry /\ Excused("unreachable")
  BY DEF Invalidate
<1>2. LGo(r, "idle", 0) /\ "idle" \in Awaits /\ 0 \in LVersions
  BY ListsAssumption DEF Invalidate, LDone, Awaits
<1>3. /\ entry' \in LVersions \cup {NoEntry}
      /\ why' \subseteq {"overlap", "silent", "unreachable", "cut"}
      /\ CachedIsCurrent'
  <2>1. CASE entry' = NoEntry /\ why' = {}
    BY <2>1 DEF CachedIsCurrent
  <2>2. CASE entry' = entry /\ Excused("unreachable")
    BY <2>2, ExcusedKeeps DEF ListTypeOK
  <2> QED BY <1>1, <2>1, <2>2
<1> QED BY <1>1, <1>2, <1>3, ListGoes DEF ListTypeOK, Awaits

\* A reader that fails has changed nothing; a writer that fails leaves its reason.
LEMMA ListFailKeeps ==
  ASSUME ListTypeOK, CachedIsCurrent, NEW r \in LRequests, LFail(r)
  PROVE  ListTypeOK' /\ CachedIsCurrent'
<1>1. family' = family /\ rowsAt' = rowsAt /\ entry' = entry
  BY DEF LFail
<1>2. LGo(r, "idle", 0) /\ "idle" \in Awaits /\ 0 \in LVersions
  BY ListsAssumption DEF LFail, LDone, Awaits
<1>3. CASE lpc[r] \in {"read", "store"}
  <2>1. why' = why
    BY <1>3 DEF LFail
  <2>2. Announced => Announced'
    BY <1>2, <1>3, ListGoes DEF Announced
  <2> QED BY <1>1, <1>2, <2>1, <2>2, ListGoes DEF ListTypeOK, CachedIsCurrent, Awaits
<1>4. CASE lpc[r] \notin {"read", "store"}
  <2>1. Excused("cut")
    BY <1>4 DEF LFail
  <2> QED BY <1>1, <1>2, <2>1, ListGoes, ExcusedKeeps DEF ListTypeOK, Awaits
<1> QED BY <1>3, <1>4

\* An entry expires.
LEMMA ExpireKeeps ==
  ASSUME ListTypeOK, Expire
  PROVE  ListTypeOK' /\ CachedIsCurrent'
BY DEF Expire, ListTypeOK, CachedIsCurrent

\* Every step keeps the invariant.
LEMMA ListStep ==
  ListTypeOK /\ CachedIsCurrent /\ [ListNext]_listVars => ListTypeOK' /\ CachedIsCurrent'
<1> SUFFICES ASSUME ListTypeOK, CachedIsCurrent, [ListNext]_listVars
             PROVE  ListTypeOK' /\ CachedIsCurrent'
  OBVIOUS
<1>1. CASE UNCHANGED listVars
  BY <1>1 DEF listVars, ListTypeOK, CachedIsCurrent, Announced
<1>2. CASE Expire
  BY <1>2, ExpireKeeps
<1>3. CASE \/ ContractChanges \/ StatusFollows \/ LabelsChange \/ PortalIdentifies
           \/ RatingChanges \/ WorkerIsCreated \/ WorkerIsDeleted
  BY <1>3, SilentKeeps DEF ContractChanges, StatusFollows, LabelsChange, PortalIdentifies,
     RatingChanges, WorkerIsCreated, WorkerIsDeleted
<1>4. ASSUME NEW r \in LRequests,
             \/ ListProjects(r) \/ ListWorkers(r) \/ ListInvoices(r) \/ ListNotifications(r)
             \/ ReadProjects(r) \/ ReadWorkers(r) \/ ReadInvoices(r) \/ ReadNotifications(r)
      PROVE  ListTypeOK' /\ CachedIsCurrent'
  BY <1>4, LookupKeeps DEF ListProjects, ListWorkers, ListInvoices, ListNotifications,
     ReadProjects, ReadWorkers, ReadInvoices, ReadNotifications
<1>5. ASSUME NEW r \in LRequests,
             \/ CreateProject(r) \/ UpdateProject(r) \/ ChangeStatus(r) \/ RemoveProject(r)
             \/ AssignWorker(r) \/ UnassignWorker(r) \/ UpdateMe(r) \/ UpdateById(r)
             \/ SaveInvoice(r) \/ SaveFiscal(r) \/ CreateNotification(r)
             \/ MarkRead(r) \/ MarkAllRead(r) \/ DeleteNotification(r)
      PROVE  ListTypeOK' /\ CachedIsCurrent'
  <2>1. PICK at \in {"phases", "signal", "invalidate"} : Change(r, at)
    BY <1>5 DEF CreateProject, UpdateProject, ChangeStatus, RemoveProject, AssignWorker,
       UnassignWorker, UpdateMe, UpdateById, SaveInvoice, SaveFiscal, CreateNotification,
       MarkRead, MarkAllRead, DeleteNotification
  <2> QED BY <2>1, ChangeKeeps
<1>6. ASSUME NEW r \in LRequests, StoreEntry(r)
      PROVE  ListTypeOK' /\ CachedIsCurrent'
  BY <1>6, StoreKeeps
<1>7. ASSUME NEW r \in LRequests, UnassignClear(r) \/ Signal(r)
      PROVE  ListTypeOK' /\ CachedIsCurrent'
  BY <1>7, OnTheWayKeeps
<1>8. ASSUME NEW r \in LRequests, Invalidate(r) \/ LFail(r)
      PROVE  ListTypeOK' /\ CachedIsCurrent'
  BY <1>8, InvalidateKeeps, ListFailKeeps
<1> QED BY <1>1, <1>2, <1>3, <1>4, <1>5, <1>6, <1>7, <1>8 DEF ListNext

\* A list kept in Redis is the list of the rows, whatever the requests do and however they
\* overlap, unless a change is on its way to invalidate it or the history has the reason:
\* the fill in two steps, a change that invalidates nothing, a request cut before its
\* invalidation or a Redis that cannot be reached (CacheService and its callers).
THEOREM CacheIsCurrent == ListSpec => [](ListTypeOK /\ CachedIsCurrent)
<1>1. ListInit => ListTypeOK /\ CachedIsCurrent
  BY ListsAssumption DEF ListInit, ListTypeOK, CachedIsCurrent, Families
<1> QED BY <1>1, ListStep, PTL DEF ListSpec

-----------------------------------------------------------------------------
(***************************************************************************)
(* Copies at other systems.  FirstTwin follows a row from the moment a     *)
(* request reads that it has no number until the number of the first copy  *)
(* is saved; afterwards all who are on their way have read it.  Nothing is *)
(* said of a row whose requests crossed or were cut after a copy was made. *)
(***************************************************************************)

\* What a request remembers.
TwinLocals == [k : TwinKinds, id : 0..MaxTwins, use : {"none", "join", "pay", "setup", "detach"}]

\* q has read its row and may yet make a twin of it or write the number of one.
TwinPending(q, k) == xloc[q].k = k /\ xpc[q] \in {"upsert", "create", "save"}

\* Of a row nothing has happened to: without a number, one request at most is pending, and
\* the twin it has made is the first and not saved; with a number, it is that of the first
\* twin and whoever is pending has read it.
FirstTwin(k) ==
  k \notin twinned =>
    /\ twinOf[k] = None =>
         /\ \A q, r \in XRequests : TwinPending(q, k) /\ TwinPending(r, k) => q = r
         /\ \A q \in XRequests : TwinPending(q, k) =>
              IF xpc[q] = "save" THEN xloc[q].id = 1 /\ made[k] = 1
              ELSE xloc[q].id = None /\ made[k] = 0
         /\ (\A q \in XRequests : ~(TwinPending(q, k) /\ xpc[q] = "save")) => made[k] = 0
    /\ twinOf[k] # None =>
         /\ twinOf[k] = 1 /\ made[k] = 1
         /\ \A q \in XRequests : TwinPending(q, k) => xpc[q] = "upsert" /\ xloc[q].id = 1

\* What a request remembers past its read: a number, of the customer where one is used, and
\* the one the row has unless something has happened to the customer.
TwinRequestKnows(r) ==
  /\ xpc[r] \in {"save", "join", "retrieve", "use"} => xloc[r].id # None
  /\ xpc[r] \in {"retrieve", "clear", "use"} => xloc[r].k = "customer"
  /\ "customer" \notin twinned =>
       /\ xpc[r] # "clear"
       /\ xpc[r] \in {"retrieve", "use"} => xloc[r].id = twinOf["customer"]

\* The inductive invariant.
TwinIInv ==
  /\ TwinTypeOK
  /\ \A k \in TwinKinds : FirstTwin(k)
  /\ \A r \in XRequests : TwinRequestKnows(r)
  /\ missing # {} => "customer" \in twinned
  /\ CardsAreFound

\* No row has a twin.
LEMMA TwinInitial == TwinInit => TwinIInv
<1> SUFFICES ASSUME TwinInit PROVE TwinIInv
  OBVIOUS
<1>1. TwinTypeOK
  BY TwinsAssumption DEF TwinInit, TwinTypeOK, NoTwin, TwinKinds, Synced, None, TwinAwaits
<1>2. \A k \in TwinKinds : FirstTwin(k)
  BY DEF TwinInit, FirstTwin, TwinPending, None
<1>3. \A r \in XRequests : TwinRequestKnows(r)
  BY DEF TwinInit, TwinRequestKnows
<1> QED BY <1>1, <1>2, <1>3 DEF TwinInit, TwinIInv, CardsAreFound

\* A request goes to another await; the others stay.
LEMMA TwinGoes ==
  ASSUME TwinIInv, NEW r \in XRequests, NEW at \in TwinAwaits, NEW l \in TwinLocals, XGo(r, at, l)
  PROVE  /\ xpc' \in [XRequests -> TwinAwaits] /\ xloc' \in [XRequests -> TwinLocals]
         /\ xpc'[r] = at /\ xloc'[r] = l
         /\ \A q \in XRequests \ {r} : xpc'[q] = xpc[q] /\ xloc'[q] = xloc[q]
BY DEF TwinIInv, TwinTypeOK, XGo, TwinLocals

\* The types, of the requests' places and of what they hold too.
LEMMA TwinTypes ==
  ASSUME TwinIInv
  PROVE  /\ twinOf \in [TwinKinds -> 0..MaxTwins] /\ made \in [TwinKinds -> 0..MaxTwins]
         /\ xpc \in [XRequests -> TwinAwaits] /\ xloc \in [XRequests -> TwinLocals]
         /\ \A k \in TwinKinds : twinOf[k] \in Nat /\ made[k] \in Nat
         /\ \A r \in XRequests : xloc[r].k \in TwinKinds /\ xloc[r].id \in 0..MaxTwins
BY TwinsAssumption DEF TwinIInv, TwinTypeOK, TwinLocals

\* A row of which r neither begins to be pending nor leaves a number unsaved stays right.
LEMMA OtherRowStays ==
  ASSUME TwinIInv, NEW r \in XRequests, NEW k \in TwinKinds,
         \A q \in XRequests \ {r} : xpc'[q] = xpc[q] /\ xloc'[q] = xloc[q],
         twinOf'[k] = twinOf[k], made'[k] = made[k], k \notin twinned' => k \notin twinned,
         ~TwinPending(r, k)', k \in twinned' \/ ~(TwinPending(r, k) /\ xpc[r] = "save")
  PROVE  FirstTwin(k)'
<1> SUFFICES ASSUME k \notin twinned' PROVE FirstTwin(k)'
  BY DEF FirstTwin
<1>1. FirstTwin(k) /\ k \notin twinned
  BY DEF TwinIInv
<1>2. \A q \in XRequests : TwinPending(q, k)' => q # r /\ TwinPending(q, k) /\ xpc'[q] = xpc[q] /\ xloc'[q] = xloc[q]
  BY DEF TwinPending
<1>3. \A q \in XRequests : TwinPending(q, k) /\ xpc[q] = "save" => q # r /\ TwinPending(q, k)' /\ xpc'[q] = "save"
  BY DEF TwinPending
<1> QED BY <1>1, <1>2, <1>3 DEF FirstTwin

\* The step of r keeps what the other requests know, if the customer's row is as it was or
\* something has happened to it.
LEMMA OthersKnow ==
  ASSUME TwinIInv, NEW r \in XRequests,
         \A q \in XRequests \ {r} : xpc'[q] = xpc[q] /\ xloc'[q] = xloc[q],
         "customer" \notin twinned' => "customer" \notin twinned,
         "customer" \in twinned' \/ twinOf["customer"] = None \/ twinOf'["customer"] = twinOf["customer"]
  PROVE  \A q \in XRequests \ {r} : TwinRequestKnows(q)'
<1> TAKE q \in XRequests \ {r}
<1>1. TwinRequestKnows(q) /\ xpc'[q] = xpc[q] /\ xloc'[q] = xloc[q]
  BY DEF TwinIInv
<1> QED BY <1>1 DEF TwinRequestKnows

\* What an idle request holds.
LEMMA NoTwinIsLocal == NoTwin \in TwinLocals /\ "idle" \in TwinAwaits
BY TwinsAssumption DEF NoTwin, TwinLocals, TwinAwaits, TwinKinds, Synced, None

\* A step that changes no row: the request goes on with what it remembers.
LEMMA RowsStay ==
  ASSUME TwinIInv, NEW r \in XRequests, NEW at \in TwinAwaits \ {"upsert", "create", "save"},
         NEW l \in TwinLocals, XGo(r, at, l), xpc[r] # "save",
         twinOf' = twinOf, made' = made, missing' = missing, twinned' = twinned,
         joined' \subseteq 1..MaxTwins, cards' \subseteq 1..MaxTwins, CardsAreFound',
         TwinRequestKnows(r)'
  PROVE  TwinIInv'
<1>1. /\ xpc' \in [XRequests -> TwinAwaits] /\ xloc' \in [XRequests -> TwinLocals]
      /\ xpc'[r] = at /\ xloc'[r] = l
      /\ \A q \in XRequests \ {r} : xpc'[q] = xpc[q] /\ xloc'[q] = xloc[q]
  BY TwinGoes
<1>2. TwinTypeOK'
  BY <1>1 DEF TwinIInv, TwinTypeOK, TwinLocals
<1>3. \A k \in TwinKinds : FirstTwin(k)'
  <2> TAKE k \in TwinKinds
  <2>1. ~TwinPending(r, k)' /\ ~(TwinPending(r, k) /\ xpc[r] = "save")
    BY <1>1 DEF TwinPending
  <2> QED BY <1>1, <2>1, OtherRowStays
<1>4. \A q \in XRequests : TwinRequestKnows(q)'
  <2>1. \A q \in XRequests \ {r} : TwinRequestKnows(q)'
    BY <1>1, OthersKnow
  <2> QED BY <2>1
<1> QED BY <1>2, <1>3, <1>4 DEF TwinIInv

\* Reading: with a number in the row the request goes by it, without one it is the only one
\* pending, or it is written down that it is not.
LEMMA ReadKeeps ==
  ASSUME TwinIInv, NEW r \in XRequests, NEW k \in TwinKinds,
         NEW use \in {"none", "join", "pay", "setup", "detach"},
         NEW at \in {"upsert", "create", "retrieve"}, Read(r, k, use, at),
         at = "create" => twinOf[k] = None,
         at = "retrieve" => k = "customer" /\ twinOf[k] # None
  PROVE  TwinIInv'
<1> DEFINE l == [k |-> k, id |-> twinOf[k], use |-> use]
<1>1. l \in TwinLocals /\ l.k = k /\ l.id = twinOf[k] /\ at \in TwinAwaits
  BY TwinTypes DEF TwinLocals, TwinAwaits
<1>2. /\ XGo(r, at, l) /\ xpc[r] = "idle" /\ twinOf' = twinOf /\ made' = made /\ missing' = missing
      /\ joined' = joined /\ cards' = cards
      /\ twinned' = IF Unsaved(k, r) THEN twinned \cup {k} ELSE twinned
  BY DEF Read
<1> HIDE DEF l
<1>3. /\ xpc' \in [XRequests -> TwinAwaits] /\ xloc' \in [XRequests -> TwinLocals]
      /\ xpc'[r] = at /\ xloc'[r] = l
      /\ \A q \in XRequests \ {r} : xpc'[q] = xpc[q] /\ xloc'[q] = xloc[q]
  BY <1>1, <1>2, TwinGoes
<1>4. TwinTypeOK'
  BY <1>2, <1>3 DEF TwinIInv, TwinTypeOK, TwinLocals
<1>5. ASSUME NEW j \in TwinKinds PROVE FirstTwin(j)'
  <2>1. CASE j # k \/ at = "retrieve"
    <3>1. ~TwinPending(r, j)' /\ ~TwinPending(r, j)
      BY <1>1, <1>2, <1>3, <2>1 DEF TwinPending
    <3> QED BY <1>2, <1>3, <3>1, OtherRowStays
  <2>2. CASE j = k /\ at # "retrieve"
    <3> SUFFICES ASSUME k \notin twinned' PROVE FirstTwin(k)'
      BY <2>2 DEF FirstTwin
    <3>1. k \notin twinned /\ ~Unsaved(k, r) /\ FirstTwin(k)
      BY <1>2 DEF TwinIInv
    <3>2. ~TwinPending(r, k) /\ \A q \in XRequests \ {r} : TwinPending(q, k)' <=> TwinPending(q, k)
      BY <1>2, <1>3 DEF TwinPending
    <3>3. CASE twinOf[k] = None
      <4>1. \A q \in XRequests \ {r} : ~TwinPending(q, k)
        BY <3>1, <3>3 DEF Unsaved, TwinPending
      <4>2. made[k] = 0
        BY <3>1, <3>2, <3>3, <4>1 DEF FirstTwin
      <4> QED BY <1>1, <1>2, <1>3, <2>2, <3>2, <3>3, <4>1, <4>2 DEF FirstTwin
    <3>4. CASE twinOf[k] # None
      BY <1>1, <1>2, <1>3, <2>2, <3>1, <3>2, <3>4 DEF FirstTwin
    <3> QED BY <3>3, <3>4
  <2> QED BY <2>1, <2>2
<1>6. \A q \in XRequests : TwinRequestKnows(q)'
  <2>1. \A q \in XRequests \ {r} : TwinRequestKnows(q)'
    BY <1>2, <1>3, OthersKnow
  <2>2. TwinRequestKnows(r)'
    BY <1>1, <1>2, <1>3 DEF TwinRequestKnows
  <2> QED BY <2>1, <2>2
<1>7. CardsAreFound' /\ (missing' # {} => "customer" \in twinned')
  BY <1>2 DEF TwinIInv, CardsAreFound
<1> QED BY <1>4, <1>5, <1>6, <1>7 DEF TwinIInv

\* Making a twin: of a row nothing has happened to it is the first, and its maker saves it.
LEMMA MakeKeeps ==
  ASSUME TwinIInv, NEW r \in XRequests, Make(r), xpc[r] \in {"upsert", "create"},
         xpc[r] = "upsert" => xloc[r].id = None
  PROVE  TwinIInv'
<1>0. PICK k \in TwinKinds : k = xloc[r].k
  BY TwinTypes
<1> DEFINE id == made[k] + 1
           l == [xloc[r] EXCEPT !.id = id]
<1>1. k \in TwinKinds /\ id \in 1..MaxTwins
  BY <1>0, TwinTypes DEF Make
<1>2. l \in TwinLocals /\ l.k = k /\ l.id = id
  BY <1>0, <1>1, TwinTypes DEF TwinLocals
<1>3. /\ XGo(r, "save", l) /\ "save" \in TwinAwaits /\ made' = [made EXCEPT ![k] = id]
      /\ twinOf' = twinOf /\ missing' = missing /\ joined' = joined /\ cards' = cards /\ twinned' = twinned
  BY <1>0 DEF Make, TwinAwaits
<1>4. TwinPending(r, k)
  BY <1>0 DEF TwinPending
<1>5. id = made[k] + 1
  OBVIOUS
<1> HIDE DEF id, l
<1>7. /\ xpc' \in [XRequests -> TwinAwaits] /\ xloc' \in [XRequests -> TwinLocals]
      /\ xpc'[r] = "save" /\ xloc'[r] = l
      /\ \A q \in XRequests \ {r} : xpc'[q] = xpc[q] /\ xloc'[q] = xloc[q]
  BY <1>2, <1>3, TwinGoes
<1>8. made' \in [TwinKinds -> 0..MaxTwins] /\ made'[k] = id /\ \A j \in TwinKinds \ {k} : made'[j] = made[j]
  BY <1>1, <1>3, TwinTypes
<1>9. TwinTypeOK'
  BY <1>3, <1>7, <1>8 DEF TwinIInv, TwinTypeOK, TwinLocals
<1>10. ASSUME NEW j \in TwinKinds PROVE FirstTwin(j)'
  <2>1. CASE j # k
    <3>1. ~TwinPending(r, j)' /\ ~TwinPending(r, j)
      BY <1>0, <1>2, <1>7, <2>1 DEF TwinPending
    <3> QED BY <1>3, <1>7, <1>8, <2>1, <3>1, OtherRowStays
  <2>2. CASE j = k
    <3> SUFFICES ASSUME k \notin twinned PROVE FirstTwin(k)'
      BY <1>3, <2>2 DEF FirstTwin
    <3>1. FirstTwin(k)
      BY <1>1 DEF TwinIInv
    <3>2. twinOf[k] = None /\ made[k] = 0
      BY <1>4, <3>1 DEF FirstTwin, None
    <3>3. \A q \in XRequests \ {r} : ~TwinPending(q, k)
      BY <1>4, <3>1, <3>2 DEF FirstTwin
    <3>4. \A q \in XRequests \ {r} : ~TwinPending(q, k)'
      BY <1>7, <3>3 DEF TwinPending
    <3>5. TwinPending(r, k)' /\ xpc'[r] = "save" /\ xloc'[r].id = 1 /\ made'[k] = 1
      BY <1>2, <1>5, <1>7, <1>8, <3>2 DEF TwinPending
    <3> QED BY <1>3, <3>2, <3>4, <3>5 DEF FirstTwin
  <2> QED BY <2>1, <2>2
<1>11. \A q \in XRequests : TwinRequestKnows(q)'
  <2>1. \A q \in XRequests \ {r} : TwinRequestKnows(q)'
    BY <1>3, <1>7, OthersKnow
  <2>2. TwinRequestKnows(r)'
    BY <1>1, <1>2, <1>7 DEF TwinRequestKnows, None
  <2> QED BY <2>1, <2>2
<1> QED BY <1>3, <1>9, <1>10, <1>11 DEF TwinIInv, CardsAreFound

\* Saving the number: nobody else is pending then, unless something has happened to the row.
LEMMA SaveKeeps ==
  ASSUME TwinIInv, NEW r \in XRequests, NEW k \in TwinKinds,
         NEW next \in {"idle", "log", "join", "use"}, Save(r, k, next),
         next = "use" => k = "customer"
  PROVE  TwinIInv'
<1> DEFINE id == xloc[r].id
           l == IF next = "idle" THEN NoTwin ELSE xloc[r]
<1>1. /\ xpc[r] = "save" /\ xloc[r].k = k /\ twinOf' = [twinOf EXCEPT ![k] = id]
      /\ made' = made /\ missing' = missing /\ joined' = joined /\ cards' = cards /\ twinned' = twinned
      /\ XGo(r, next, l)
  BY DEF Save, XDone
<1>2. l \in TwinLocals /\ next \in TwinAwaits /\ id \in 0..MaxTwins /\ id # None
      /\ (next # "idle" => l.k = k /\ l.id = id)
  BY <1>1, TwinTypes, NoTwinIsLocal DEF TwinAwaits, TwinIInv, TwinRequestKnows
<1>3. id = xloc[r].id
  OBVIOUS
<1> HIDE DEF id, l
<1>4. /\ xpc' \in [XRequests -> TwinAwaits] /\ xloc' \in [XRequests -> TwinLocals]
      /\ xpc'[r] = next /\ xloc'[r] = l
      /\ \A q \in XRequests \ {r} : xpc'[q] = xpc[q] /\ xloc'[q] = xloc[q]
  BY <1>1, <1>2, TwinGoes
<1>5. twinOf' \in [TwinKinds -> 0..MaxTwins] /\ twinOf'[k] = id
      /\ \A j \in TwinKinds \ {k} : twinOf'[j] = twinOf[j]
  BY <1>1, <1>2, TwinTypes
<1>6. TwinTypeOK'
  BY <1>1, <1>4, <1>5 DEF TwinIInv, TwinTypeOK, TwinLocals
<1>7. ~TwinPending(r, k)' /\ TwinPending(r, k)
  BY <1>1, <1>4 DEF TwinPending
<1>8. k \notin twinned => twinOf[k] = None /\ id = 1 /\ made[k] = 1 /\ \A q \in XRequests \ {r} : ~TwinPending(q, k)
  BY <1>1, <1>3, <1>7 DEF TwinIInv, FirstTwin
<1>9. ASSUME NEW j \in TwinKinds PROVE FirstTwin(j)'
  <2>1. CASE j # k
    <3>1. ~TwinPending(r, j)' /\ ~TwinPending(r, j)
      BY <1>1, <1>4, <2>1 DEF TwinPending
    <3> QED BY <1>1, <1>4, <1>5, <2>1, <3>1, OtherRowStays
  <2>2. CASE j = k
    <3> SUFFICES ASSUME k \notin twinned PROVE FirstTwin(k)'
      BY <1>1, <2>2 DEF FirstTwin
    <3>1. \A q \in XRequests : ~TwinPending(q, k)'
      BY <1>4, <1>7, <1>8 DEF TwinPending
    <3> QED BY <1>1, <1>5, <1>8, <3>1 DEF FirstTwin, None
  <2> QED BY <2>1, <2>2
<1>10. \A q \in XRequests : TwinRequestKnows(q)'
  <2>1. "customer" \in twinned' \/ twinOf["customer"] = None \/ twinOf'["customer"] = twinOf["customer"]
    BY <1>1, <1>5, <1>8 DEF TwinKinds
  <2>2. \A q \in XRequests \ {r} : TwinRequestKnows(q)'
    BY <1>1, <1>4, <2>1, OthersKnow
  <2>3. TwinRequestKnows(r)'
    BY <1>2, <1>4, <1>5 DEF TwinRequestKnows
  <2> QED BY <2>2, <2>3
<1>11. CardsAreFound'
  <2>1. CASE k = "customer" /\ "customer" \notin twinned
    <3>1. cards \subseteq {twinOf["customer"]} /\ twinOf["customer"] = None /\ cards \subseteq 1..MaxTwins
      BY <1>8, <2>1 DEF TwinIInv, CardsAreFound, TwinTypeOK
    <3>2. cards = {}
      BY <3>1 DEF None
    <3> QED BY <1>1, <3>2 DEF CardsAreFound
  <2>2. CASE k # "customer" \/ "customer" \in twinned
    BY <1>1, <1>5, <2>2 DEF TwinIInv, CardsAreFound, TwinKinds
  <2> QED BY <2>1, <2>2
<1> QED BY <1>1, <1>6, <1>9, <1>10, <1>11 DEF TwinIInv

\* The contact or the company is made at the CRM.
LEMMA UpsertTwinKeeps ==
  ASSUME TwinIInv, NEW r \in XRequests, NEW k, UpsertTwin(r, k)
  PROVE  TwinIInv'
<1>1. CASE xloc[r].id = None /\ Make(r)
  BY <1>1, MakeKeeps DEF UpsertTwin
<1>2. CASE ~(xloc[r].id = None /\ Make(r))
  <2>1. /\ XGo(r, "log", xloc[r]) /\ xpc[r] = "upsert" /\ xloc[r] \in TwinLocals
        /\ twinOf' = twinOf /\ made' = made /\ missing' = missing /\ twinned' = twinned
        /\ joined' = joined /\ cards' = cards
    BY <1>2, TwinTypes DEF UpsertTwin
  <2>2. xpc'[r] = "log"
    BY <2>1, TwinTypes DEF XGo
  <2>3. TwinRequestKnows(r)'
    BY <2>2 DEF TwinRequestKnows
  <2>4. CardsAreFound' /\ joined' \subseteq 1..MaxTwins /\ cards' \subseteq 1..MaxTwins
    BY <2>1 DEF TwinIInv, TwinTypeOK, CardsAreFound
  <2> QED BY <2>1, <2>3, <2>4, RowsStay DEF TwinAwaits
<1> QED BY <1>1, <1>2

\* A contact joins its company.
LEMMA JoinCompanyKeeps ==
  ASSUME TwinIInv, NEW r \in XRequests, JoinCompany(r) \/ LogSync(r)
  PROVE  TwinIInv'
<1>1. PICK at \in {"idle", "log"}, l \in TwinLocals : XGo(r, at, l)
  BY NoTwinIsLocal, TwinTypes DEF JoinCompany, LogSync, XDone
<1>2. /\ xpc[r] \in {"join", "log"}
      /\ twinOf' = twinOf /\ made' = made /\ missing' = missing /\ twinned' = twinned /\ cards' = cards
      /\ joined' = joined \/ (xpc[r] = "join" /\ joined' = joined \cup {xloc[r].id})
  BY DEF JoinCompany, LogSync
<1>3. xpc[r] = "join" => xloc[r].id \in 1..MaxTwins
  BY TwinTypes DEF TwinIInv, TwinRequestKnows, None
<1>4. CardsAreFound' /\ joined' \subseteq 1..MaxTwins /\ cards' \subseteq 1..MaxTwins
  BY <1>2, <1>3 DEF TwinIInv, TwinTypeOK, CardsAreFound
<1>5. xpc'[r] = at
  BY <1>1, TwinTypes DEF XGo
<1>6. TwinRequestKnows(r)'
  BY <1>5 DEF TwinRequestKnows
<1> QED BY <1>1, <1>2, <1>4, <1>6, RowsStay DEF TwinAwaits

\* Stripe is asked for the customer.
LEMMA RetrieveKeeps ==
  ASSUME TwinIInv, NEW r \in XRequests, Retrieve(r)
  PROVE  TwinIInv'
<1> DEFINE at == IF xloc[r].id \in missing THEN "clear" ELSE "use"
<1>1. /\ XGo(r, at, xloc[r]) /\ xpc[r] = "retrieve" /\ xloc[r] \in TwinLocals
      /\ twinOf' = twinOf /\ made' = made /\ missing' = missing /\ twinned' = twinned
      /\ joined' = joined /\ cards' = cards
  BY TwinTypes DEF Retrieve
<1>2. xpc'[r] = at /\ xloc'[r] = xloc[r]
  BY <1>1, TwinTypes DEF XGo
<1>3. TwinRequestKnows(r)'
  BY <1>1, <1>2 DEF TwinIInv, TwinRequestKnows
<1>4. CardsAreFound' /\ joined' \subseteq 1..MaxTwins /\ cards' \subseteq 1..MaxTwins
  BY <1>1 DEF TwinIInv, TwinTypeOK, CardsAreFound
<1> QED BY <1>1, <1>3, <1>4, RowsStay DEF TwinAwaits

\* A number is cleared only once Stripe has lost customers.
LEMMA ClearKeeps ==
  ASSUME TwinIInv, NEW r \in XRequests, ClearCustomer(r)
  PROVE  TwinIInv'
<1>1. /\ XGo(r, "create", xloc[r]) /\ xpc[r] = "clear" /\ xloc[r] \in TwinLocals /\ "create" \in TwinAwaits
      /\ twinOf' = [twinOf EXCEPT !["customer"] = None]
      /\ made' = made /\ missing' = missing /\ twinned' = twinned /\ joined' = joined /\ cards' = cards
  BY TwinTypes DEF ClearCustomer, TwinAwaits
<1>2. xloc[r].k = "customer" /\ "customer" \in twinned
  BY <1>1 DEF TwinIInv, TwinRequestKnows
<1>3. /\ xpc' \in [XRequests -> TwinAwaits] /\ xloc' \in [XRequests -> TwinLocals]
      /\ xpc'[r] = "create" /\ xloc'[r] = xloc[r]
      /\ \A q \in XRequests \ {r} : xpc'[q] = xpc[q] /\ xloc'[q] = xloc[q]
  BY <1>1, TwinGoes
<1>4. twinOf' \in [TwinKinds -> 0..MaxTwins] /\ \A j \in TwinKinds \ {"customer"} : twinOf'[j] = twinOf[j]
  <2>1. None \in 0..MaxTwins
    BY TwinsAssumption DEF None
  <2> QED BY <1>1, <2>1, TwinTypes
<1>5. TwinTypeOK'
  BY <1>1, <1>3, <1>4 DEF TwinIInv, TwinTypeOK, TwinLocals
<1>6. ASSUME NEW j \in TwinKinds PROVE FirstTwin(j)'
  <2>1. CASE j # "customer"
    <3>1. ~TwinPending(r, j)' /\ ~TwinPending(r, j)
      BY <1>2, <1>3, <2>1 DEF TwinPending
    <3> QED BY <1>1, <1>3, <1>4, <2>1, <3>1, OtherRowStays
  <2>2. CASE j = "customer"
    BY <1>1, <1>2, <2>2 DEF FirstTwin
  <2> QED BY <2>1, <2>2
<1>7. \A q \in XRequests : TwinRequestKnows(q)'
  <2>1. \A q \in XRequests \ {r} : TwinRequestKnows(q)'
    BY <1>1, <1>2, <1>3, OthersKnow
  <2>2. TwinRequestKnows(r)'
    BY <1>1, <1>2, <1>3 DEF TwinRequestKnows
  <2> QED BY <2>1, <2>2
<1> QED BY <1>1, <1>2, <1>5, <1>6, <1>7 DEF TwinIInv, CardsAreFound

\* A payment or a set-up uses the customer.
LEMMA UseCustomerKeeps ==
  ASSUME TwinIInv, NEW r \in XRequests, UseCustomer(r)
  PROVE  TwinIInv'
<1>1. /\ XGo(r, "idle", NoTwin) /\ xpc[r] = "use"
      /\ twinOf' = twinOf /\ made' = made /\ missing' = missing /\ twinned' = twinned /\ joined' = joined
      /\ cards' \subseteq cards \cup {xloc[r].id}
  BY DEF UseCustomer, XDone
<1>2. xloc[r].id \in 1..MaxTwins /\ ("customer" \notin twinned => xloc[r].id = twinOf["customer"])
  BY <1>1, TwinTypes DEF TwinIInv, TwinRequestKnows, None
<1>3. CardsAreFound' /\ joined' \subseteq 1..MaxTwins /\ cards' \subseteq 1..MaxTwins
  BY <1>1, <1>2 DEF TwinIInv, TwinTypeOK, CardsAreFound
<1>4. xpc'[r] = "idle"
  BY <1>1, TwinTypes DEF XGo
<1>5. TwinRequestKnows(r)'
  BY <1>4 DEF TwinRequestKnows
<1> QED BY <1>1, <1>3, <1>5, NoTwinIsLocal, RowsStay

\* What was made and not saved is written down.
LEMMA TwinFailKeeps ==
  ASSUME TwinIInv, NEW r \in XRequests, TwinFail(r)
  PROVE  TwinIInv'
<1>1. /\ XGo(r, "idle", NoTwin)
      /\ twinOf' = twinOf /\ made' = made /\ missing' = missing /\ joined' = joined /\ cards' = cards
      /\ twinned' = IF xpc[r] = "save" THEN twinned \cup {xloc[r].k} ELSE twinned
  BY DEF TwinFail, XDone
<1>2. /\ xpc' \in [XRequests -> TwinAwaits] /\ xloc' \in [XRequests -> TwinLocals]
      /\ xpc'[r] = "idle"
      /\ \A q \in XRequests \ {r} : xpc'[q] = xpc[q] /\ xloc'[q] = xloc[q]
  BY <1>1, NoTwinIsLocal, TwinGoes
<1>3. TwinTypeOK'
  BY <1>1, <1>2, TwinTypes DEF TwinIInv, TwinTypeOK, TwinLocals
<1>4. \A k \in TwinKinds : FirstTwin(k)'
  <2> TAKE k \in TwinKinds
  <2>1. ~TwinPending(r, k)' /\ (k \in twinned' \/ ~(TwinPending(r, k) /\ xpc[r] = "save"))
    BY <1>1, <1>2 DEF TwinPending
  <2>2. k \notin twinned' => k \notin twinned
    BY <1>1
  <2> QED BY <1>1, <1>2, <2>1, <2>2, OtherRowStays
<1>5. \A q \in XRequests : TwinRequestKnows(q)'
  <2>1. \A q \in XRequests \ {r} : TwinRequestKnows(q)'
    BY <1>1, <1>2, OthersKnow
  <2>2. TwinRequestKnows(r)'
    BY <1>2 DEF TwinRequestKnows
  <2> QED BY <2>1, <2>2
<1> QED BY <1>1, <1>3, <1>4, <1>5 DEF TwinIInv, CardsAreFound

\* Stripe stops knowing its customers.
LEMMA VanishKeeps ==
  ASSUME TwinIInv, Vanish
  PROVE  TwinIInv'
<1>1. /\ missing' = 1..made["customer"] /\ twinned' = twinned \cup {"customer"}
      /\ twinOf' = twinOf /\ made' = made /\ joined' = joined /\ cards' = cards
      /\ xpc' = xpc /\ xloc' = xloc
  BY DEF Vanish
<1>2. missing' \subseteq 1..MaxTwins /\ "customer" \in TwinKinds
  <2>1. made["customer"] \in 0..MaxTwins
    BY TwinTypes DEF TwinKinds
  <2> QED BY <1>1, <2>1, TwinsAssumption DEF TwinKinds
<1>3. TwinTypeOK'
  BY <1>1, <1>2 DEF TwinIInv, TwinTypeOK
<1>4. \A k \in TwinKinds : FirstTwin(k)'
  BY <1>1 DEF TwinIInv, FirstTwin, TwinPending
<1>5. \A r \in XRequests : TwinRequestKnows(r)'
  BY <1>1 DEF TwinIInv, TwinRequestKnows
<1> QED BY <1>1, <1>3, <1>4, <1>5 DEF TwinIInv, CardsAreFound

\* Every step of a request, or beside the requests, keeps the invariant.
LEMMA TwinStepKeeps ==
  ASSUME TwinIInv, NEW r \in XRequests, TwinStep(r)
  PROVE  TwinIInv'
<1> USE DEF TwinKinds, Synced
<1>1. CASE handleSyncCompany(r) \/ handleSyncDeal(r)
  BY <1>1, ReadKeeps DEF handleSyncCompany, handleSyncDeal
<1>2. CASE handleSyncContact(r)
  <2>1. PICK use \in {"none", "join"} : Read(r, "contact", use, "upsert")
    BY <1>2 DEF handleSyncContact
  <2> QED BY <2>1, ReadKeeps
<1>3. CASE upsertCompany(r) \/ upsertDeal(r) \/ upsertContact(r)
  <2>1. CASE Save(r, "company", "log") \/ Save(r, "deal", "log")
    BY <2>1, SaveKeeps
  <2>2. CASE Save(r, "contact", "join") \/ Save(r, "contact", "log")
    BY <2>2, SaveKeeps
  <2> QED BY <1>3, <2>1, <2>2, UpsertTwinKeeps DEF upsertCompany, upsertDeal, upsertContact
<1>4. CASE \E use \in {"pay", "setup", "detach"} : getOrCreateCustomer(r, use)
  <2>1. PICK use \in {"pay", "setup", "detach"} : getOrCreateCustomer(r, use)
    BY <1>4
  <2>2. CASE twinOf["customer"] = None
    BY <2>1, <2>2, ReadKeeps DEF getOrCreateCustomer
  <2>3. CASE twinOf["customer"] # None
    BY <2>1, <2>3, ReadKeeps DEF getOrCreateCustomer
  <2> QED BY <2>2, <2>3
<1>5. CASE CreateTwin(r)
  BY <1>5, MakeKeeps DEF CreateTwin
<1>6. CASE SaveCustomer(r) \/ SaveAccount(r)
  BY <1>6, SaveKeeps DEF SaveCustomer, SaveAccount
<1>7. CASE createWorkerAccount(r)
  BY <1>7, ReadKeeps DEF createWorkerAccount
<1> QED
  BY <1>1, <1>2, <1>3, <1>4, <1>5, <1>6, <1>7, JoinCompanyKeeps, RetrieveKeeps, ClearKeeps, UseCustomerKeeps,
     TwinFailKeeps DEF TwinStep

\* Every step keeps the invariant.
LEMMA TwinsStep == TwinIInv /\ [TwinNext]_twinVars => TwinIInv'
<1> SUFFICES ASSUME TwinIInv, [TwinNext]_twinVars PROVE TwinIInv'
  OBVIOUS
<1>1. CASE UNCHANGED twinVars
  BY <1>1 DEF twinVars, TwinIInv, TwinTypeOK, FirstTwin, TwinPending, TwinRequestKnows, CardsAreFound
<1> QED BY <1>1, TwinStepKeeps, VanishKeeps DEF TwinNext

\* The invariant holds of every behaviour.
LEMMA TwinsHold == TwinSpec => []TwinIInv
BY TwinInitial, TwinsStep, PTL DEF TwinSpec

\* The invariant is more than the types and that a row has one twin.
LEMMA TwinsFollow == TwinIInv => TwinTypeOK /\ TwinsAgree
<1> SUFFICES ASSUME TwinIInv, NEW k \in TwinKinds \ twinned
             PROVE  /\ made[k] <= 1
                    /\ (\A r \in XRequests : ~(xloc[r].k = k /\ xpc[r] = "save")) => twinOf[k] = made[k]
  BY DEF TwinIInv, TwinsAgree, OneTwin
<1>1. FirstTwin(k) /\ made[k] \in Nat
  BY TwinTypes DEF TwinIInv
<1>2. CASE twinOf[k] = None
  <2>1. made[k] \in {0, 1}
    BY <1>1, <1>2 DEF FirstTwin
  <2>2. (\A r \in XRequests : ~(xloc[r].k = k /\ xpc[r] = "save")) => made[k] = 0
    BY <1>1, <1>2 DEF FirstTwin, TwinPending
  <2> QED BY <1>2, <2>1, <2>2 DEF None
<1>3. CASE twinOf[k] # None
  BY <1>1, <1>3 DEF FirstTwin
<1> QED BY <1>2, <1>3

\* Whatever requests meet or repeat, a row has one copy at the CRM or at Stripe and names
\* it, and the card a client has added is on the customer the next checkout uses, unless
\* something has happened to the row that the history notes (HubspotService,
\* getOrCreateCustomer of StripeService).
THEOREM RowsHaveOneTwin == TwinSpec => []TwinsAgree
BY TwinsHold, TwinsFollow, PTL
=============================================================================
