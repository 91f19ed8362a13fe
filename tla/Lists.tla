------------------------------- MODULE Lists -------------------------------
(***************************************************************************)
(* The lists that CacheService keeps in Redis for some seconds: projects,  *)
(* workers, invoices and the notifications of a user.  A request that      *)
(* finds no entry reads the rows and stores the answer; a request that     *)
(* changes the rows removes the entry afterwards, in another step, and     *)
(* some that change them do not.  Lists do not touch each other: the model *)
(* follows one key of one list, and of the rows behind it the version.     *)
(***************************************************************************)
EXTENDS Naturals

CONSTANTS LRequests,     \* requests served at once
          LVersions,     \* bound: versions of the rows, 0..n
          NoEntry        \* not a version: Redis has no such key

ASSUME ListsAssumption == LVersions \subseteq Nat /\ 0 \in LVersions /\ NoEntry \notin LVersions

Families == {"projects", "workers", "invoices", "notifications"}

VARIABLES
  family,      \* the list
  rowsAt,      \* version of the rows in PostgreSQL
  entry,       \* version of the answer in Redis
  why,         \* history: why the entry may be older than the rows
  lpc, lloc    \* per request: the await it stands at, the version it has read

listVars == <<family, rowsAt, entry, why, lpc, lloc>>

ListInit ==
  /\ family \in Families
  /\ rowsAt = 0
  /\ entry = NoEntry
  /\ why = {}
  /\ lpc = [r \in LRequests |-> "idle"]
  /\ lloc = [r \in LRequests |-> 0]

LGo(r, at, v) == /\ lpc'  = [lpc  EXCEPT ![r] = at]
                 /\ lloc' = [lloc EXCEPT ![r] = v]
LDone(r) == LGo(r, "idle", 0)

Excused(reason) == why' = IF entry = NoEntry THEN why ELSE why \cup {reason}

-----------------------------------------------------------------------------
(* CacheService.cacheGet.                                                  *)

\* No entry, or a Redis that cannot be asked.  (A hit changes nothing.)
Lookup(r) ==
  /\ lpc[r] = "idle"
  /\ LGo(r, "read", 0)
  /\ UNCHANGED <<family, rowsAt, entry, why>>

ListProjects(r)      == family = "projects" /\ Lookup(r)
ListWorkers(r)       == family = "workers" /\ Lookup(r)
ListInvoices(r)      == family = "invoices" /\ Lookup(r)
ListNotifications(r) == family = "notifications" /\ Lookup(r)

\* The rows and their count, or a page after a cursor.
ReadList(r) ==
  /\ lpc[r] = "read"
  /\ LGo(r, "store", rowsAt)
  /\ UNCHANGED <<family, rowsAt, entry, why>>

ReadProjects(r)      == family = "projects" /\ ReadList(r)
ReadWorkers(r)       == family = "workers" /\ ReadList(r)
ReadInvoices(r)      == family = "invoices" /\ ReadList(r)
ReadNotifications(r) == family = "notifications" /\ ReadList(r)

\* The answer is stored as it was read; an error of Redis is ignored.
StoreEntry(r) ==
  /\ lpc[r] = "store"
  /\ \/ entry' = lloc[r] /\ why' = IF lloc[r] = rowsAt THEN {} ELSE {"overlap"}
     \/ UNCHANGED <<entry, why>>
  /\ LDone(r)
  /\ UNCHANGED <<family, rowsAt>>

\* setex gives every entry a number of seconds.
Expire ==
  /\ entry # NoEntry
  /\ entry' = NoEntry /\ why' = {}
  /\ UNCHANGED <<family, rowsAt, lpc, lloc>>

-----------------------------------------------------------------------------
(* Changes of the rows.                                                    *)

\* The rows change and the request goes on to the next step.
Change(r, at) ==
  /\ lpc[r] = "idle"
  /\ rowsAt + 1 \in LVersions
  /\ rowsAt' = rowsAt + 1
  /\ LGo(r, at, 0)
  /\ UNCHANGED <<family, entry, why>>

\* The rows change and nobody tells Redis.
Silently ==
  /\ rowsAt + 1 \in LVersions
  /\ rowsAt' = rowsAt + 1
  /\ Excused("silent")
  /\ UNCHANGED <<family, entry, lpc, lloc>>

CreateProject(r) == family = "projects" /\ Change(r, "invalidate")
UpdateProject(r) == family = "projects" /\ Change(r, "invalidate")
ChangeStatus(r)  == family = "projects" /\ Change(r, "invalidate")
RemoveProject(r) == family = "projects" /\ Change(r, "invalidate")
AssignWorker(r)  == family = "projects" /\ Change(r, "invalidate")

\* Mutation: the list is not invalidated.
UnassignWorkerSilently(r) ==
  /\ family = "projects" /\ lpc[r] = "idle"
  /\ rowsAt + 1 \in LVersions
  /\ rowsAt' = rowsAt + 1
  /\ UNCHANGED <<family, entry, why, lpc, lloc>>

\* unassign writes the row and the phases before it invalidates.
UnassignWorker(r) ==
  family = "projects" /\ Change(r, "phases")

UnassignClear(r) ==
  /\ lpc[r] = "phases"
  /\ LGo(r, "invalidate", 0)
  /\ UNCHANGED <<family, rowsAt, entry, why>>

UpdateMe(r)   == family = "workers" /\ Change(r, "invalidate")
UpdateById(r) == family = "workers" /\ Change(r, "invalidate")

SaveInvoice(r)   == family = "invoices" /\ Change(r, "invalidate")
SaveFiscal(r)    == family = "invoices" /\ Change(r, "invalidate")

\* create sends the row to the apps, and a push, before it invalidates their list.
CreateNotification(r) == family = "notifications" /\ Change(r, "signal")

Signal(r) ==
  /\ lpc[r] = "signal"
  /\ LGo(r, "invalidate", 0)
  /\ UNCHANGED <<family, rowsAt, entry, why>>

MarkRead(r)           == family = "notifications" /\ Change(r, "invalidate")
MarkAllRead(r)        == family = "notifications" /\ Change(r, "invalidate")
DeleteNotification(r) == family = "notifications" /\ Change(r, "invalidate")

\* What changes a listed row and leaves the entry to its seconds: a contract and its lead,
\* the status that a payment or the last approval moves, labels and identification of the
\* portal, evidence; a worker's rating, projects and account; an account's notifications.
ContractChanges   == family = "projects" /\ Silently
StatusFollows     == family = "projects" /\ Silently
LabelsChange      == family = "projects" /\ Silently
PortalIdentifies  == family = "projects" /\ Silently
RatingChanges     == family = "workers" /\ Silently
WorkerIsCreated   == family = "workers" /\ Silently
WorkerIsDeleted   == family \in {"projects", "workers", "notifications"} /\ Silently

\* invalidateByPrefix; an error is only logged.
Invalidate(r) ==
  /\ lpc[r] = "invalidate"
  /\ \/ entry' = NoEntry /\ why' = {}
     \/ UNCHANGED entry /\ Excused("unreachable")
  /\ LDone(r)
  /\ UNCHANGED <<family, rowsAt>>

\* A statement fails or the process dies.
LFail(r) ==
  /\ lpc[r] # "idle"
  /\ IF lpc[r] \in {"read", "store"} THEN UNCHANGED why ELSE Excused("cut")
  /\ LDone(r)
  /\ UNCHANGED <<family, rowsAt, entry>>

ListNext ==
  \/ \E r \in LRequests :
       \/ ListProjects(r) \/ ListWorkers(r) \/ ListInvoices(r) \/ ListNotifications(r)
       \/ ReadProjects(r) \/ ReadWorkers(r) \/ ReadInvoices(r) \/ ReadNotifications(r)
       \/ StoreEntry(r)
       \/ CreateProject(r) \/ UpdateProject(r) \/ ChangeStatus(r) \/ RemoveProject(r)
       \/ AssignWorker(r) \/ UnassignWorker(r) \/ UnassignClear(r)
       \/ UpdateMe(r) \/ UpdateById(r) \/ SaveInvoice(r) \/ SaveFiscal(r)
       \/ CreateNotification(r) \/ Signal(r)
       \/ MarkRead(r) \/ MarkAllRead(r) \/ DeleteNotification(r)
       \/ Invalidate(r) \/ LFail(r)
  \/ Expire
  \/ ContractChanges \/ StatusFollows \/ LabelsChange \/ PortalIdentifies
  \/ RatingChanges \/ WorkerIsCreated \/ WorkerIsDeleted

ListSpec == ListInit /\ [][ListNext]_listVars

-----------------------------------------------------------------------------
(* Properties.                                                             *)

ListTypeOK ==
  /\ family \in Families
  /\ rowsAt \in LVersions
  /\ entry \in LVersions \cup {NoEntry}
  /\ why \subseteq {"overlap", "silent", "unreachable", "cut"}
  /\ lpc \in [LRequests -> {"idle", "read", "store", "phases", "signal", "invalidate"}]
  /\ lloc \in [LRequests -> LVersions]

\* A change of the rows that has not invalidated yet.
Announced == \E r \in LRequests : lpc[r] \in {"phases", "signal", "invalidate"}

\* A list in Redis is the list of the rows, unless a change is still on its way to
\* invalidate it, the answer stored was read before a change (cacheGet reads and stores in
\* two steps), or the change was one that invalidates nothing or could not.
CachedIsCurrent == entry \in {NoEntry, rowsAt} \/ Announced \/ why # {}
=============================================================================
