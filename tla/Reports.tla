------------------------------ MODULE Reports ------------------------------
(***************************************************************************)
(* The PDF report of a project: ReportsService inserts the row and queues  *)
(* the job; ReportProcessor renders it, uploads the file and writes the    *)
(* row at every stage.  Bull runs the job twice at most, and once more     *)
(* when the process died under it (a stalled job).  onFailed writes FAILED *)
(* after every failed run without being waited for, so the write may land  *)
(* in the middle of the next run or after it.                              *)
(***************************************************************************)
EXTENDS Naturals, FiniteSets

CONSTANTS ReportIds

VARIABLES
  report,      \* ProjectReport: status, progress, fileUrl; "none" before the insert
  stored,      \* reports whose file is in the bucket
  job,         \* the job: where it stands, the progress its run last wrote, its failed
               \* runs, whether it has stalled
  late,        \* writes of FAILED that onFailed has begun and that are still out
  disturbed,   \* history: reports run again after a crash or while such a write was out
  untold       \* history: reports whose job was never queued or whose write of FAILED was lost

reportVars == <<report, stored, job, late, disturbed, untold>>

NoProgress == 0
NoReport == [status |-> "none", progress |-> NoProgress, hasFile |-> FALSE]
NewJob   == [at |-> "none", stage |-> 0, failed |-> 0, stalled |-> FALSE]

\* 90 is no progress the code writes: the file is uploaded and the row not yet written.
After(stage) == CASE stage = 0 -> 5 [] stage = 5 -> 15 [] stage = 15 -> 40 [] stage = 40 -> 70
Attempts == 2

ReportInit ==
  /\ report = [i \in ReportIds |-> NoReport]
  /\ stored = {}
  /\ job = [i \in ReportIds |-> NewJob]
  /\ late = [i \in ReportIds |-> 0]
  /\ disturbed = {}
  /\ untold = {}

RunsOf(i) == job[i].at = "run"

-----------------------------------------------------------------------------
(* ReportsService.create.                                                  *)

CreateReport(i) ==
  /\ report[i].status = "none"
  /\ report' = [report EXCEPT ![i].status = "PENDING"]
  /\ job' = [job EXCEPT ![i].at = "enqueue"]
  /\ UNCHANGED <<stored, late, disturbed, untold>>

\* When Redis is down the row stays PENDING and no job knows of it.
EnqueueReport(i) ==
  /\ job[i].at = "enqueue"
  /\ \/ job' = [job EXCEPT ![i].at = "queued"] /\ UNCHANGED untold
     \/ job' = [job EXCEPT ![i].at = "ended"] /\ untold' = untold \cup {i}
  /\ UNCHANGED <<report, stored, late, disturbed>>

-----------------------------------------------------------------------------
(* ReportProcessor.handle; Bull runs one report at a time.                 *)

StartRun(i) ==
  /\ job[i].at = "queued" /\ \A j \in ReportIds : ~RunsOf(j)
  /\ job' = [job EXCEPT ![i].at = "run", ![i].stage = 0]
  /\ disturbed' = IF late[i] > 0 \/ job[i].stalled THEN disturbed \cup {i} ELSE disturbed
  /\ UNCHANGED <<report, stored, late, untold>>

\* The first write makes the report PENDING again; the others write progress only.
WriteProgress(i) ==
  LET next == After(job[i].stage) IN
  /\ RunsOf(i) /\ job[i].stage \in {0, 5, 15, 40}
  /\ report' = [report EXCEPT ![i].progress = next,
                              ![i].status = IF next = 5 THEN "PENDING" ELSE @]
  /\ job' = [job EXCEPT ![i].stage = next]
  /\ UNCHANGED <<stored, late, disturbed, untold>>

failReport(i) == report' = [report EXCEPT ![i].status = "FAILED", ![i].progress = NoProgress]

\* The project has gone to another organisation, or the bucket refused the
\* file: the row says so and the run ends well, so it is not tried again.
GiveUp(i) ==
  /\ RunsOf(i) /\ job[i].stage \in {5, 70}
  /\ failReport(i)
  /\ job' = [job EXCEPT ![i].at = "ended"]
  /\ UNCHANGED <<stored, late, disturbed, untold>>

\* Mutation: a refused file is taken for an uploaded one.
UploadTakenForDone(i) ==
  /\ RunsOf(i) /\ job[i].stage = 70
  /\ \E ok \in BOOLEAN : stored' = IF ok THEN stored \cup {i} ELSE stored
  /\ job' = [job EXCEPT ![i].stage = 90]
  /\ UNCHANGED <<report, late, disturbed, untold>>

UploadReport(i) ==
  /\ RunsOf(i) /\ job[i].stage = 70
  /\ stored' = stored \cup {i}
  /\ job' = [job EXCEPT ![i].stage = 90]
  /\ UNCHANGED <<report, late, disturbed, untold>>

Complete(i) ==
  /\ RunsOf(i) /\ job[i].stage = 90
  /\ report' = [report EXCEPT ![i] = [status |-> "COMPLETED", progress |-> 100, hasFile |-> TRUE]]
  /\ job' = [job EXCEPT ![i].stage = 100]
  /\ UNCHANGED <<stored, late, disturbed, untold>>

EndRun(i) ==
  /\ RunsOf(i) /\ job[i].stage = 100
  /\ job' = [job EXCEPT ![i].at = "ended"]
  /\ UNCHANGED <<report, stored, late, disturbed, untold>>

\* A write, the browser or the upload throws: onFailed begins its write, and the
\* job waits for its second attempt if it has one.
RunFails(i) ==
  /\ RunsOf(i) /\ job[i].stage < 100
  /\ late' = [late EXCEPT ![i] = @ + 1]
  /\ job' = [job EXCEPT ![i].failed = @ + 1,
                        ![i].at = IF job[i].failed + 1 < Attempts THEN "queued" ELSE "ended"]
  /\ UNCHANGED <<report, stored, disturbed, untold>>

onFailed(i) ==
  /\ late[i] > 0
  /\ late' = [late EXCEPT ![i] = @ - 1]
  /\ \/ failReport(i) /\ UNCHANGED untold
     \/ untold' = untold \cup {i} /\ UNCHANGED report
  /\ UNCHANGED <<stored, job, disturbed>>

\* The process dies: what was about to be queued or written is lost, and the
\* job that ran is put back, the first time; the second time Bull fails it.
CrashReports ==
  /\ \E i \in ReportIds : job[i].at \in {"enqueue", "run"}
  /\ job' = [i \in ReportIds |->
               CASE job[i].at = "enqueue" -> [job[i] EXCEPT !.at = "ended"]
                 [] RunsOf(i) -> [job[i] EXCEPT !.at = IF job[i].stalled THEN "ended" ELSE "queued",
                                                !.stalled = TRUE]
                 [] OTHER -> job[i]]
  /\ late' = [i \in ReportIds |-> IF RunsOf(i) /\ job[i].stalled THEN 1 ELSE 0]
  /\ untold' = untold \cup {i \in ReportIds : job[i].at = "enqueue" \/ late[i] > 0}
  /\ UNCHANGED <<report, stored, disturbed>>

ReportStep(i) ==
  \/ CreateReport(i) \/ EnqueueReport(i) \/ StartRun(i) \/ WriteProgress(i)
  \/ GiveUp(i) \/ UploadReport(i) \/ Complete(i) \/ EndRun(i) \/ RunFails(i) \/ onFailed(i)

ReportNext == CrashReports \/ \E i \in ReportIds : ReportStep(i)

ReportSpec == ReportInit /\ [][ReportNext]_reportVars

-----------------------------------------------------------------------------
ReportTypeOK ==
  /\ report \in [ReportIds -> [status : {"none", "PENDING", "COMPLETED", "FAILED"},
                               progress : {NoProgress, 5, 15, 40, 70, 100}, hasFile : BOOLEAN]]
  /\ stored \subseteq ReportIds /\ disturbed \subseteq ReportIds /\ untold \subseteq ReportIds
  /\ job \in [ReportIds -> [at : {"none", "enqueue", "queued", "run", "ended"}, failed : 0..Attempts,
                            stage : {0, 5, 15, 40, 70, 90, 100}, stalled : BOOLEAN]]
  /\ late \in [ReportIds -> 0..Attempts + 1]

\* A report shown completed, and a link to a report, lead to a file (the status
\* and list of ReportsService).
LinkHasFile == \A i \in ReportIds :
  report[i].status = "COMPLETED" \/ report[i].hasFile => i \in stored

\* When nothing of a report is under way its row says how it ended, and the
\* list shows a link only of a completed one, unless the row was left PENDING by
\* a lost write, or a run met an earlier run's write of FAILED or was a rerun
\* (handle, failReport and onFailed of ReportProcessor).
RowTellsTheEnd == \A i \in ReportIds :
  /\ job[i].at = "ended" /\ late[i] = 0 /\ i \notin untold => report[i].status \in {"COMPLETED", "FAILED"}
  /\ report[i].hasFile /\ i \notin disturbed => report[i].status = "COMPLETED"

ReportsAgree == LinkHasFile /\ RowTellsTheEnd
=============================================================================
