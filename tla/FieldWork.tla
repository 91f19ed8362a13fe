------------------------------ MODULE FieldWork ------------------------------
(***************************************************************************)
(* The services around the project: who works on it, what they borrow and  *)
(* put on record, who sees it, what is shown, cached, numbered, told and   *)
(* copied to other systems.  Each keeps rows of its own.  Where one of     *)
(* them reads a row that another writes, its module has the writer's step  *)
(* as an action of its own, so the whole is the conjunction of the parts:  *)
(* its behaviours are those in which every service behaves as its module   *)
(* says, in any interleaving.                                              *)
(***************************************************************************)
EXTENDS Staffing, Tools, Files, Lists, Access, Timeline, Notices, Devices,
        Accounts, Organisations, Twins, Reports, Ratings, Pricing, Signatures

FieldWorkSpec ==
  /\ StaffingSpec
  /\ ToolSpec
  /\ FileSpec
  /\ ListSpec
  /\ AccessSpec
  /\ TimelineSpec
  /\ NoticeSpec
  /\ DeviceSpec
  /\ AccountSpec
  /\ OrgSpec
  /\ TwinSpec
  /\ ReportSpec
  /\ RatingSpec
  /\ PriceSpec
  /\ SignatureSpec
-----------------------------------------------------------------------------
(* Properties: one per question, naming the parts the modules state.       *)

\* Every component's state has its type.
TypesOK ==
  /\ StaffingTypeOK /\ ToolTypeOK /\ FileTypeOK /\ ListTypeOK /\ AccessTypeOK
  /\ TimelineTypeOK /\ NoticeTypeOK /\ DeviceTypeOK /\ AccountTypeOK /\ OrgTypeOK
  /\ TwinTypeOK /\ ReportTypeOK /\ RatingTypeOK /\ PriceTypeOK /\ SignatureTypeOK

\* A project's staff is told the same way by its assignments, its phases and its contract:
\* one active row a worker, phases of assigned workers, and the contract's worker leads
\* (AssignmentsService, CrewsService, PhasesService).
StaffingAgrees == OneActiveRow /\ PhaseWorkerIsAssigned /\ LeadHasTheContract

\* A tool is with one worker at a time and its row names an image that is stored
\* (ToolsService).
ToolsAgree == OneOpenCheckout /\ ToolImageExists

\* Rows and stored objects agree: evidence, documents and reports name objects that
\* exist, a repeated upload makes no second row, a report that is done has its file and
\* nobody signs twice (EvidenceService, DocumentsService,
\* ReportProcessor, SignaturesService).
StoredFilesAgree == RecordHasObject /\ OneRecordPerKey /\
                    ReportsAgree /\ SignaturesAgree

\* Every check of who sees a project or acts on it, and every list, keeps to one rule while
\* what it reads changes: the conditions are written anew in eight places (ProjectsService,
\* EvidenceService).
AccessAgrees == AnswersAreRight

\* An e-mail has one account and role, an invitation serves its addressee once, and an
\* administrator has one organisation (AuthService, InvitesService, CrewsService).
PeopleAgree == AccountsAgree /\ OneOrganisation

\* Averages are of the ratings there are, parts of a budget and of a bill add up and a
\* number that was sent is nobody else's (ProjectsService, InvoiceService).
FiguresAgree == RatingsAgree /\ PricesAgree
=============================================================================
