------------------------------- MODULE Files -------------------------------
(***************************************************************************)
(* What workers and offices put on record: the evidence of a phase, the    *)
(* evidence of the project and its documents.  A row is in PostgreSQL, the *)
(* object it names in the storage; an app repeats an upload it has had no  *)
(* answer to, with the same idempotency key.  Captions and texts are added *)
(* by jobs that meet whatever is left of the row.  Files do not touch each *)
(* other: the model follows one, of any kind.                              *)
(***************************************************************************)
EXTENDS Naturals, FiniteSets

CONSTANTS FRequests,   \* requests served at once
          FCopies      \* bound: rows of the file that exist or are known, 1..n

ASSUME FilesAssumption == FCopies \subseteq Nat \ {0}

VARIABLES
  kind,       \* "evidence" of a phase, "project" evidence or a "document"
  keyed,      \* whether the app's requests carry an idempotency key
  phase,      \* status of the phase the evidence belongs to
  files,      \* rows by id: the path they name, whether a job has added its text, and
              \* whether an app registered them with nothing stored there (bare)
  objects,    \* paths stored in the buckets
  textJobs,   \* rows with a caption or OCR job waiting, and those being worked on
  working,
  fileCut,    \* history: a removal failed between the object and the row
  doubled,    \* history: two rows named one path without a key to tell it, or requests that
              \* overlapped recorded the file, or one of them removed it
  fpc, floc   \* per request: the await it stands at, its row id, its path, whether a key
              \* protects it, and what has happened meanwhile

fileVars == <<kind, keyed, phase, files, objects, textJobs, working, fileCut, doubled, fpc, floc>>

NoPath   == <<>>
NoRecord == [path |-> NoPath, text |-> FALSE, bare |-> FALSE]
NoFile   == [id |-> 0, path |-> NoPath, key |-> FALSE, bare |-> FALSE, crossed |-> FALSE]

FileInit ==
  /\ kind \in {"evidence", "project", "document"}
  /\ keyed \in IF kind = "document" THEN {FALSE} ELSE BOOLEAN   \* DocumentsService knows none
  /\ phase = "in_progress"
  /\ files = [i \in FCopies |-> NoRecord]
  /\ objects = {}
  /\ textJobs = {} /\ working = {}
  /\ fileCut = FALSE /\ doubled = FALSE
  /\ fpc = [r \in FRequests |-> "idle"]
  /\ floc = [r \in FRequests |-> NoFile]

Recorded == {i \in FCopies : files[i] # NoRecord}
FreeRecords == {i \in FCopies : /\ i \notin Recorded \cup textJobs \cup working
                                /\ \A r \in FRequests : floc[r].id # i}

\* A path is made of the key, or chosen by the app, with the key in it or not; else the
\* time is in it.
FixedPath == <<0>>
FreePath  == <<0, 0>>
OwnPath(i) == <<i>>

FGo(r, at, l) == /\ fpc'  = [fpc  EXCEPT ![r] = at]
                 /\ floc' = [floc EXCEPT ![r] = l]
FDone(r) == FGo(r, "idle", NoFile)
same == <<kind, keyed, phase>>
FUnchanged == UNCHANGED <<same, files, objects, textJobs, working, fileCut, doubled>>

Record(r, i, path, key, at) ==
  /\ fpc[r] = "idle"
  /\ i \in FreeRecords /\ \A j \in FreeRecords : i <= j
  /\ FGo(r, at, [id |-> i, path |-> path, key |-> key /\ path = FixedPath,
                 bare |-> at = "record" /\ path \notin objects, crossed |-> FALSE])
  /\ FUnchanged

-----------------------------------------------------------------------------
(* Recording.                                                              *)

\* A request with a key is answered with the row whose path has the key in it.
Answered == keyed /\ \E i \in Recorded : files[i].path = FixedPath

\* EvidenceService.upload
UploadEvidence(r, i) ==
  /\ kind = "evidence"
  /\ phase # "completed"
  /\ ~Answered
  /\ Record(r, i, IF keyed THEN FixedPath ELSE OwnPath(i), keyed, "store")

\* EvidenceService.register: the app stores the object itself, before or after or never:
\* nobody looks, nor whether the path has the key in it.
RegisterEvidence(r, i) ==
  /\ kind = "evidence"
  /\ phase # "completed"
  /\ ~Answered
  /\ \E path \in {FixedPath, FreePath} : Record(r, i, path, keyed, "record")

\* ProjectEvidenceService.upload knows no key, register does.
UploadProjectEvidence(r, i) ==
  /\ kind = "project"
  /\ Record(r, i, OwnPath(i), FALSE, "store")

RegisterProjectEvidence(r, i) ==
  /\ kind = "project"
  /\ ~Answered
  /\ \E path \in {FixedPath, FreePath} : Record(r, i, path, keyed, "record")

\* DocumentsService
UploadDocument(r, i) ==
  /\ kind = "document"
  /\ Record(r, i, OwnPath(i), FALSE, "store")

RegisterDocument(r, i) ==
  /\ kind = "document"
  /\ \E path \in {FixedPath, FreePath} : Record(r, i, path, keyed, "record")

\* The app stores an object, which it registers or has registered.
AppStores ==
  /\ \E path \in {FixedPath, FreePath} \ objects : objects' = objects \cup {path}
  /\ UNCHANGED <<same, files, textJobs, working, fileCut, doubled, fpc, floc>>

\* The storage takes the object, over an older one when there is a key.
StoreObject(r) ==
  /\ fpc[r] = "store"
  /\ objects' = objects \cup {floc[r].path}
  /\ FGo(r, "record", floc[r])
  /\ UNCHANGED <<same, files, textJobs, working, fileCut, doubled>>

Recording(q) == fpc[q] \in {"store", "record"}

\* Another row has the path that r is going to give to its own.
Shares(r) == \E i \in Recorded : files[i].path = floc[r].path

\* The row, and the job that will add a text; a queue that fails is only logged.  Others that
\* are recording have looked for a row before this one.
CreateRecord(r) ==
  LET l == floc[r] IN
  /\ fpc[r] = "record"
  /\ files' = [files EXCEPT ![l.id] = [path |-> l.path, text |-> FALSE, bare |-> l.bare]]
  /\ textJobs' \in {textJobs, IF kind = "project" THEN textJobs ELSE textJobs \cup {l.id}}
  /\ doubled' = (doubled \/ (Shares(r) /\ (l.crossed \/ ~l.key)))
  /\ fpc'  = [fpc EXCEPT ![r] = "idle"]
  /\ floc' = [q \in FRequests |-> IF q = r THEN NoFile
                                  ELSE IF Recording(q) THEN [floc[q] EXCEPT !.crossed = TRUE]
                                  ELSE floc[q]]
  /\ UNCHANGED <<same, objects, working, fileCut>>

-----------------------------------------------------------------------------
(* Removing: the object first, then the row.                               *)

DropFile(r, i) ==
  /\ fpc[r] = "idle"
  /\ i \in Recorded
  /\ FGo(r, "unstore", [NoFile EXCEPT !.id = i, !.path = files[i].path])
  /\ FUnchanged

\* EvidenceService.remove
RemoveEvidence(r, i) == kind = "evidence" /\ phase = "in_progress" /\ DropFile(r, i)

\* ProjectEvidenceService.remove
RemoveProjectEvidence(r, i) == kind = "project" /\ DropFile(r, i)

\* DocumentsService.remove
RemoveDocument(r, i) == kind = "document" /\ DropFile(r, i)

\* Its row has been removed already, or another request is about to record the same path.
Overlapped(r) == \/ floc[r].id \notin Recorded
                 \/ \E q \in FRequests : fpc[q] = "record" /\ floc[q].path = floc[r].path

\* The answer of the storage is not looked at, or logged: the object may stay.
Unstore(r) ==
  /\ fpc[r] = "unstore"
  /\ objects' \in {objects, objects \ {floc[r].path}}
  /\ FGo(r, "delete", floc[r])
  /\ doubled' = (doubled \/ Overlapped(r))
  /\ UNCHANGED <<same, files, textJobs, working, fileCut>>

DeleteRecord(r) ==
  /\ fpc[r] = "delete"
  /\ floc[r].id \in Recorded
  /\ files' = [files EXCEPT ![floc[r].id] = NoRecord]
  /\ objects' = objects \ {OwnPath(floc[r].id)}   \* nobody names it any more
  /\ FDone(r)
  /\ UNCHANGED <<same, textJobs, working, fileCut, doubled>>

\* All rows go in one transaction, and what is being recorded meets no uploader or project
\* any more; the objects stay, but nobody names the rows' own.
RowsGo ==
  /\ Recorded # {}
  /\ files' = [i \in FCopies |-> NoRecord]
  /\ fpc'  = [q \in FRequests |-> IF Recording(q) THEN "idle" ELSE fpc[q]]
  /\ floc' = [q \in FRequests |-> IF Recording(q) THEN NoFile ELSE floc[q]]
  /\ objects' = objects \ {OwnPath(i) : i \in FCopies}
  /\ UNCHANGED <<same, textJobs, working, fileCut, doubled>>

\* AdminService.deleteWorker, whatever the phase is in.  A document keeps its uploader.
DeleteUploader == kind \in {"evidence", "project"} /\ RowsGo

\* ProjectsService.remove of a draft: cascades, but a phase keeps its project.
DeleteProject == kind \in {"project", "document"} /\ RowsGo

\* A statement or the storage fails, or the process dies.
FFail(r) ==
  /\ fpc[r] # "idle"
  /\ fileCut' = (fileCut \/ fpc[r] = "delete")
  /\ objects' = IF fpc[r] = "record" THEN objects \ {OwnPath(floc[r].id)} ELSE objects
  /\ FDone(r)
  /\ UNCHANGED <<same, files, textJobs, working, doubled>>

-----------------------------------------------------------------------------
(* Jobs: AiCaptionProcessor and DocumentOcrProcessor, and the AI endpoint. *)

TakeCaption(i) ==
  /\ i \in textJobs /\ kind = "evidence"
  /\ textJobs' = textJobs \ {i}
  /\ working' = IF i \in Recorded THEN working \cup {i} ELSE working
  /\ UNCHANGED <<same, files, objects, fileCut, doubled, fpc, floc>>

\* A document that has a text, or none of whose object can be loaded, is left.
TakeOcr(i) ==
  /\ i \in textJobs /\ kind = "document"
  /\ textJobs' = textJobs \ {i}
  /\ working' = IF i \in Recorded /\ ~files[i].text /\ files[i].path \in objects
                THEN working \cup {i} ELSE working
  /\ UNCHANGED <<same, files, objects, fileCut, doubled, fpc, floc>>

\* The text is written if the row is still there; every failure ends the job for good.
SaveText(i) ==
  /\ i \in working
  /\ working' = working \ {i}
  /\ files' \in {files, IF i \in Recorded THEN [files EXCEPT ![i].text = TRUE] ELSE files}
  /\ UNCHANGED <<same, objects, textJobs, fileCut, doubled, fpc, floc>>

\* The phase of the evidence moves as ProjectLifecycle says.
PhaseMoves ==
  /\ kind = "evidence"
  /\ \/ phase = "in_progress" /\ phase' = "under_review"
     \/ phase = "under_review" /\ phase' \in {"in_progress", "completed"}
  /\ UNCHANGED <<kind, keyed, files, objects, textJobs, working, fileCut, doubled, fpc, floc>>

FileNext ==
  \/ \E r \in FRequests :
       \/ \E i \in FCopies :
            \/ UploadEvidence(r, i) \/ RegisterEvidence(r, i)
            \/ UploadProjectEvidence(r, i) \/ RegisterProjectEvidence(r, i)
            \/ UploadDocument(r, i) \/ RegisterDocument(r, i)
            \/ RemoveEvidence(r, i) \/ RemoveProjectEvidence(r, i) \/ RemoveDocument(r, i)
       \/ StoreObject(r) \/ CreateRecord(r) \/ Unstore(r) \/ DeleteRecord(r) \/ FFail(r)
  \/ AppStores \/ DeleteUploader \/ DeleteProject
  \/ \E i \in FCopies : TakeCaption(i) \/ TakeOcr(i) \/ SaveText(i)
  \/ PhaseMoves

FileSpec == FileInit /\ [][FileNext]_fileVars

-----------------------------------------------------------------------------
(* Properties.                                                             *)

FileTypeOK ==
  /\ kind \in {"evidence", "project", "document"} /\ keyed \in BOOLEAN
  /\ phase \in {"in_progress", "under_review", "completed"}
  /\ \A i \in FCopies : files[i].path \in {NoPath, FixedPath, FreePath, OwnPath(i)}
  /\ objects \subseteq {OwnPath(i) : i \in FCopies} \cup {FixedPath, FreePath}
  /\ textJobs \cup working \subseteq FCopies
  /\ fileCut \in BOOLEAN /\ doubled \in BOOLEAN
  /\ fpc \in [FRequests -> {"idle", "store", "record", "unstore", "delete"}]

Removing(i) == \E r \in FRequests : floc[r].id = i /\ fpc[r] = "delete"

\* A row names an object that is stored, but while and after a removal that has taken the
\* object away, for a row registered with nothing there, and for a path recorded twice: its
\* rows name the same object, and removing one takes it from the other.
RecordHasObject ==
  \A i \in Recorded :
    files[i].path \in objects \/ Removing(i) \/ files[i].bare \/ fileCut \/ doubled

\* However often an app repeats a request with the same key, there is one row with the key in
\* its path, unless requests overlapped: the key is looked for and the row made in two
\* statements.
OneRecordPerKey ==
  keyed => doubled \/ Cardinality({i \in Recorded : files[i].path = FixedPath}) <= 1
=============================================================================
