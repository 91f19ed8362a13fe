------------------------------ MODULE Staffing ------------------------------
(***************************************************************************)
(* Who works on a project: its assignment rows, the worker its contract    *)
(* names and the workers its phases name.  AssignmentsService,             *)
(* CrewsService, MatchingService and PhasesService write them in separate  *)
(* statements; only syncLeadWorkerFromContract is a transaction, and the   *)
(* table has no unique index.  The names of a module whose components run  *)
(* beside others in one model carry a letter, here S.                      *)
(***************************************************************************)
EXTENDS Naturals, Sequences, FiniteSets

CONSTANTS SRequests,    \* requests served at once
          SWorkers,
          SPhases,      \* the phases of the project
          SCopies,      \* bound: rows of one worker that are active or read, 1..n
          NoWorker

ASSUME StaffingAssumption ==
  /\ IsFiniteSet(SWorkers) /\ NoWorker \notin SWorkers
  /\ SCopies \subseteq Nat

Roles == {"lead_worker", "field_worker"}
RowIds == SWorkers \X SCopies
NoId == <<NoWorker, 0>>

VARIABLES
  staff,       \* workers that exist
  rows,        \* ProjectAssignment by id: its role, or "none" when removed or never made
  contractOf,  \* Contract.workerId
  phaseOf,     \* ProjectPhase.assignedWorkerId
  excuse,      \* history: "raced" checks, "cut" requests, "direct" leads, contracts "alone"
  spc, sloc    \* per request: the await it stands at and what it read

staffingVars ==
  <<staff, rows, contractOf, phaseOf, excuse, spc, sloc>>
staffRows == <<rows, contractOf, phaseOf>>

NoStaffing == [w |-> NoWorker, role |-> "field_worker", id |-> NoId, rest |-> <<>>,
               lead |-> TRUE, seen |-> {}, leads |-> {}, gone |-> {}, phases |-> {}]

StaffingInit ==
  /\ staff = SWorkers
  /\ rows = [i \in RowIds |-> "none"]
  /\ contractOf = NoWorker
  /\ phaseOf = [p \in SPhases |-> NoWorker]
  /\ excuse = {}
  /\ spc = [r \in SRequests |-> "idle"]
  /\ sloc = [r \in SRequests |-> NoStaffing]

RowsOf(w)    == {i \in RowIds : i[1] = w /\ rows[i] # "none"}
Leads        == {i \in RowIds : rows[i] = "lead_worker"}
Workers(ids) == {i[1] : i \in ids}
OthersLead(w) == {i \in Leads : i[1] # w}

\* Ids are uuids: a removed row's id stands for a new one once no request knows it.
FreeIds(w) == {i \in RowIds : /\ i[1] = w /\ rows[i] = "none"
                              /\ \A r \in SRequests : i # sloc[r].id /\ i \notin sloc[r].gone}
FreshId(w) == CHOOSE i \in FreeIds(w) : \A j \in FreeIds(w) : i[2] <= j[2]

SGo(r, at, l) == /\ spc'  = [spc  EXCEPT ![r] = at]
                 /\ sloc' = [sloc EXCEPT ![r] = l]
SDone(r) == SGo(r, "idle", NoStaffing)

\* A member's turn is over: the crew's loop goes on, any other request answers.
SNext(r, l) == IF l.rest = <<>> THEN SDone(r)
               ELSE SGo(r, "member", [NoStaffing EXCEPT !.rest = l.rest, !.lead = l.lead])

Excuse(which, when) == excuse' = IF when THEN excuse \cup {which} ELSE excuse

-----------------------------------------------------------------------------
(* AssignmentsService.assign.                                              *)

\* The checks: no active row of the worker; the project's status and the worker's
\* availability, which others may change at any time, pass or do not.
AssignCheck(r, at, l) ==
  /\ spc[r] = at
  /\ l.w \in staff
  /\ RowsOf(l.w) = {}
  /\ SGo(r, "create", [l EXCEPT !.seen = RowsOf(l.w)])
  /\ UNCHANGED <<staff, staffRows, excuse>>

AssignCreate(r) ==
  LET l == sloc[r] IN
  /\ spc[r] = "create"
  /\ l.w \in staff
  /\ FreeIds(l.w) # {}
  /\ rows' = [rows EXCEPT ![FreshId(l.w)] = l.role]
  /\ excuse' = excuse \cup (IF RowsOf(l.w) \ l.seen # {} THEN {"raced"} ELSE {})
                      \cup (IF l.role = "lead_worker" THEN {"direct"} ELSE {})
  /\ SNext(r, l)
  /\ UNCHANGED <<staff, contractOf, phaseOf>>

-----------------------------------------------------------------------------
(* AssignmentsService.unassign.                                            *)

UnassignRead(r, w, i) ==
  /\ spc[r] = "idle"
  /\ i \in RowsOf(w)
  /\ SGo(r, "remove", [NoStaffing EXCEPT !.w = w, !.id = i])
  /\ UNCHANGED <<staff, staffRows, excuse>>

UnassignRow(r) ==
  /\ spc[r] = "remove"
  /\ rows' = [rows EXCEPT ![sloc[r].id] = "none"]
  /\ SGo(r, "clear", sloc[r])
  /\ UNCHANGED <<staff, contractOf, phaseOf, excuse>>

\* Mutation: the worker's phases keep naming them.
UnassignKeepPhases(r) ==
  /\ spc[r] = "clear"
  /\ SDone(r)
  /\ UNCHANGED <<staff, staffRows, excuse>>

UnassignPhases(r) ==
  /\ spc[r] = "clear"
  /\ phaseOf' = [p \in SPhases |-> IF phaseOf[p] = sloc[r].w THEN NoWorker ELSE phaseOf[p]]
  /\ SDone(r)
  /\ UNCHANGED <<staff, rows, contractOf, excuse>>

-----------------------------------------------------------------------------
(* A contract for a worker, and the lead that follows it.                  *)

\* A request that has written the contract and not yet its lead row.
LeadPending(r) == spc[r] \in {"leads", "sync", "commit"}

\* ContractsService.create makes another worker the contract's, or refuses; assignWorker
\* and the crew's loop go on to its lead row.
ContractCreate(r, at, l) ==
  /\ spc[r] = at
  /\ l.w \in staff /\ l.w # contractOf
  /\ contractOf' = l.w
  /\ SGo(r, "leads", [l EXCEPT !.lead = TRUE])
  /\ Excuse("raced", \E q \in SRequests : LeadPending(q))
  /\ UNCHANGED <<staff, rows, phaseOf>>

MatchingAssign(r, w) == ContractCreate(r, "idle", [NoStaffing EXCEPT !.w = w])

\* POST /contracts ends there: whoever led the project still does.
ContractAlone(w) ==
  /\ w \in staff /\ w # contractOf
  /\ contractOf' = w
  /\ excuse' = excuse \cup (IF \E q \in SRequests : LeadPending(q) THEN {"raced"} ELSE {})
                      \cup (IF OthersLead(w) # {} THEN {"alone"} ELSE {})
  /\ UNCHANGED <<staff, rows, phaseOf, spc, sloc>>

\* syncLeadWorkerFromContract is one transaction: what it writes is seen at its commit,
\* what it reads is what others have committed by then.
SyncLeads(r) ==
  /\ spc[r] = "leads"
  /\ SGo(r, "sync", [sloc[r] EXCEPT !.leads = Workers(OthersLead(sloc[r].w))])
  /\ UNCHANGED <<staff, staffRows, excuse>>

SyncStatements(r) ==
  LET l == sloc[r]  mine == RowsOf(l.w) IN
  /\ spc[r] = "sync"
  /\ \E i \in IF mine = {} THEN {NoId} ELSE mine :
       SGo(r, "commit", [l EXCEPT !.gone = OthersLead(l.w), !.id = i,
                                  !.phases = {p \in SPhases : phaseOf[p] \in l.leads}])
  /\ Excuse("raced", ~(Workers(OthersLead(l.w)) \subseteq l.leads))
  /\ UNCHANGED <<staff, staffRows>>

\* The commit.  A row found active and removed since is promoted all the same, to no
\* effect; a worker without a row gets one.  It makes good what earlier requests left.
SyncCommit(r) ==
  LET l == sloc[r]
      left == [i \in RowIds |-> IF i \in l.gone THEN "none" ELSE rows[i]] IN
  /\ spc[r] = "commit"
  /\ l.w \in staff
  /\ \/ l.id # NoId
        /\ rows' = IF left[l.id] = "none" THEN left ELSE [left EXCEPT ![l.id] = "lead_worker"]
     \/ l.id = NoId /\ FreeIds(l.w) # {}
        /\ rows' = [left EXCEPT ![FreshId(l.w)] = "lead_worker"]
  /\ phaseOf' = [p \in SPhases |-> IF p \in l.phases THEN NoWorker ELSE phaseOf[p]]
  /\ excuse' = (excuse \ {"direct", "alone"}) \cup
               (IF \/ l.id = NoId /\ RowsOf(l.w) # {}
                   \/ \E p \in SPhases : p \notin l.phases /\ phaseOf[p] \in l.leads
                   \/ ~(Leads \subseteq l.gone \cup RowsOf(l.w))
                THEN {"raced"} ELSE {})
  /\ SNext(r, l)
  /\ UNCHANGED <<staff, contractOf>>

-----------------------------------------------------------------------------
(* CrewsService.                                                           *)

\* assignCrewToProject reads the members and whether somebody leads the project.
AssignCrew(r, members) ==
  /\ spc[r] = "idle"
  /\ SNext(r, [NoStaffing EXCEPT !.rest = members, !.lead = Leads # {} \/ contractOf # NoWorker])
  /\ UNCHANGED <<staff, staffRows, excuse>>

\* The next member is skipped when they are assigned, gone or unavailable; else they
\* become the lead when there is none, or are assigned.
CrewSkip(r) ==
  /\ spc[r] = "member"
  /\ SNext(r, [sloc[r] EXCEPT !.rest = Tail(@)])
  /\ UNCHANGED <<staff, staffRows, excuse>>

CrewMember(r) ==
  LET w == Head(sloc[r].rest)
      l == [sloc[r] EXCEPT !.w = w, !.rest = Tail(@)] IN
  /\ spc[r] = "member"
  /\ RowsOf(w) = {} /\ w \in staff
  /\ SGo(r, IF l.lead THEN "assign" ELSE "contract", l)
  /\ UNCHANGED <<staff, staffRows, excuse>>

-----------------------------------------------------------------------------
(* PhasesService.updatePhaseForProject.                                    *)

\* A request that has removed the worker's row and will clear their phases.
Clearing(w) == \E r \in SRequests : spc[r] = "clear" /\ sloc[r].w = w

PhaseCheck(r, w) ==
  /\ spc[r] = "idle"
  /\ RowsOf(w) # {}
  /\ SGo(r, "phase", [NoStaffing EXCEPT !.w = w, !.seen = RowsOf(w)])
  /\ UNCHANGED <<staff, staffRows, excuse>>

\* The row of a phase that a transaction has cleared is locked until its commit.
PhaseSave(r, p) ==
  /\ spc[r] = "phase"
  /\ sloc[r].w \in staff
  /\ \A q \in SRequests : p \notin sloc[q].phases
  /\ phaseOf' = [phaseOf EXCEPT ![p] = sloc[r].w]
  /\ Excuse("raced", sloc[r].seen \cap RowsOf(sloc[r].w) = {} /\ ~Clearing(sloc[r].w))
  /\ SDone(r)
  /\ UNCHANGED <<staff, rows, contractOf>>

PhaseClear(p) ==
  /\ \A q \in SRequests : p \notin sloc[q].phases
  /\ phaseOf' = [phaseOf EXCEPT ![p] = NoWorker]
  /\ UNCHANGED <<staff, rows, contractOf, excuse, spc, sloc>>

-----------------------------------------------------------------------------
(* Failures, and the rest of the system.                                   *)

\* A statement fails, a check refuses or the process dies: what was written stays, a
\* transaction leaves nothing, and its contract stands alone.
SFail(r) ==
  /\ spc[r] # "idle"
  /\ excuse' = excuse \cup (IF spc[r] = "clear" THEN {"cut"} ELSE {})
                      \cup (IF LeadPending(r) THEN {"alone"} ELSE {})
  /\ SDone(r)
  /\ UNCHANGED <<staff, staffRows>>

\* AdminService.deleteWorker, one transaction; phases are set null by the schema.
DeleteWorkerRows(w) ==
  /\ w \in staff
  /\ staff' = staff \ {w}
  /\ rows' = [i \in RowIds |-> IF i[1] = w THEN "none" ELSE rows[i]]
  /\ contractOf' = IF contractOf = w THEN NoWorker ELSE contractOf
  /\ phaseOf' = [p \in SPhases |-> IF phaseOf[p] = w THEN NoWorker ELSE phaseOf[p]]
  /\ UNCHANGED <<excuse, spc, sloc>>

\* The orders a crew's members may have been added in; a smaller crew is a larger one
\* whose other members are skipped.
CrewLists == {m \in [1..Cardinality(SWorkers) -> SWorkers] :
                \A i, j \in DOMAIN m : m[i] = m[j] => i = j}

StaffRequest(r) ==
  \/ \E w \in SWorkers :
       \/ \E role \in Roles : AssignCheck(r, "idle", [NoStaffing EXCEPT !.w = w, !.role = role])
       \/ \E i \in RowIds : UnassignRead(r, w, i)
       \/ MatchingAssign(r, w)
       \/ PhaseCheck(r, w)
  \/ \E members \in CrewLists : AssignCrew(r, members)

StaffStep(r) ==
  \/ AssignCheck(r, "assign", sloc[r]) \/ AssignCreate(r)
  \/ UnassignRow(r) \/ UnassignPhases(r)
  \/ ContractCreate(r, "contract", sloc[r])
  \/ SyncLeads(r) \/ SyncStatements(r) \/ SyncCommit(r)
  \/ CrewSkip(r) \/ CrewMember(r)
  \/ \E p \in SPhases : PhaseSave(r, p)
  \/ SFail(r)

StaffingNext ==
  \/ \E r \in SRequests : StaffRequest(r) \/ StaffStep(r)
  \/ \E w \in SWorkers : ContractAlone(w) \/ DeleteWorkerRows(w)
  \/ \E p \in SPhases : PhaseClear(p)

StaffingSpec == StaffingInit /\ [][StaffingNext]_staffingVars

-----------------------------------------------------------------------------
(* Properties.                                                             *)

StaffingTypeOK ==
  /\ staff \subseteq SWorkers
  /\ rows \in [RowIds -> Roles \cup {"none"}]
  /\ Workers({i \in RowIds : rows[i] # "none"}) \subseteq staff
  /\ contractOf \in staff \cup {NoWorker}
  /\ phaseOf \in [SPhases -> staff \cup {NoWorker}]
  /\ excuse \subseteq {"raced", "cut", "direct", "alone"}
  /\ spc \in [SRequests -> {"idle", "assign", "create", "remove", "clear", "contract",
                            "leads", "sync", "commit", "member", "phase"}]

\* A worker has one active row, unless two requests passed the check together: assign
\* looks for a row and creates one in another statement.
OneActiveRow ==
  "raced" \notin excuse => \A w \in SWorkers : Cardinality(RowsOf(w)) <= 1

\* A phase names a worker who is assigned to the project, but for the moment between the
\* two statements of unassign, a request cut there and a check that a removal overtook.
PhaseWorkerIsAssigned ==
  excuse \cap {"raced", "cut"} = {} =>
    \A p \in SPhases : phaseOf[p] # NoWorker => RowsOf(phaseOf[p]) # {} \/ Clearing(phaseOf[p])

\* Whoever leads the project is the worker of its contract, once a matching or a crew has
\* run to its end: what it leaves is right whatever led before, until a lead is assigned
\* directly or a contract is written alone; in between the contract waits for its lead.
LeadHasTheContract ==
  \/ excuse \cap {"raced", "direct", "alone"} # {}
  \/ \E r \in SRequests : LeadPending(r)
  \/ \A i \in Leads : i[1] = contractOf
=============================================================================
