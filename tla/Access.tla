------------------------------- MODULE Access -------------------------------
(***************************************************************************)
(* Who sees a project and who acts on it.  The same question, whether an   *)
(* account takes part in a project, is asked as a filter of a query (the   *)
(* list, the recent images) and as checks of their own in the project, its *)
(* timeline, reports and documents, its gallery, the comments and its      *)
(* evidence.  Every asker writes the condition anew, as a few statements   *)
(* one after the other, and what they read changes in between.  The model  *)
(* follows one project; each request remembers what of it has been true    *)
(* since it began.                                                         *)
(***************************************************************************)
EXTENDS FiniteSets

CONSTANTS ARequests,                     \* requests served at once
          AWorkers, AClients, AAdmins,   \* accounts by their role
          NoAccount

Accounts == AWorkers \cup AClients \cup AAdmins

ASSUME AccessAssumption ==
  /\ NoAccount \notin Accounts
  /\ AWorkers \cap AClients = {} /\ AWorkers \cap AAdmins = {} /\ AClients \cap AAdmins = {}

VARIABLES
  hasOrg,      \* the project names an organisation (old projects do not)
  owner,       \* Project.clientId
  lead,        \* the worker of its contract
  assigned,    \* workers with an active assignment
  tier,        \* Worker.accessTier
  members,     \* accounts that belong to the project's organisation, admins as admins
  closed,      \* the project has been closed
  apc, asks    \* per request: the await it stands at or its answer; who asks what, what it
               \* has read, and what has been true at every moment (held) or at some (had)

accessWorld == <<hasOrg, owner, lead, assigned, tier, members, closed>>
accessVars  == <<accessWorld, apc, asks>>

\* What a condition may look at, of an account and the project.
AllGrounds == {"owner", "lead", "assigned", "standard", "member", "org", "noOrg"}

GroundsIn(u, o, ow, l, as, t, m) ==
  {g \in AllGrounds :
     \/ g = "owner" /\ u \in AClients /\ u = ow
     \/ g = "lead" /\ u = l
     \/ g = "assigned" /\ u \in as
     \/ g = "standard" /\ u \in AWorkers /\ t[u] = "standard"
     \/ g = "member" /\ u \in m
     \/ g = "org" /\ o
     \/ g = "noOrg" /\ ~o}

Grounds(u) == GroundsIn(u, hasOrg, owner, lead, assigned, tier, members)

NoAsk == [user |-> NoAccount, question |-> "none", read |-> {}, had |-> {}, held |-> {}]

AccessInit ==
  /\ hasOrg \in BOOLEAN
  /\ owner \in Accounts
  /\ lead = NoAccount
  /\ assigned = {}
  /\ tier = [w \in AWorkers |-> "standard"]
  /\ members = {}
  /\ closed = FALSE
  /\ apc = [r \in ARequests |-> "idle"]
  /\ asks = [r \in ARequests |-> NoAsk]

-----------------------------------------------------------------------------
(* What the conditions read moves.                                         *)

\* ContractsService, MatchingService
NewLead ==
  /\ ~closed
  /\ lead' \in AWorkers
  /\ UNCHANGED <<hasOrg, owner, assigned, tier, members, closed>>

\* AssignmentsService.assign and unassign
NewAssignment ==
  /\ ~closed
  /\ \E w \in AWorkers : assigned' = IF w \in assigned THEN assigned \ {w} ELSE assigned \cup {w}
  /\ UNCHANGED <<hasOrg, owner, lead, tier, members, closed>>

\* CrewsService.assignCrewToProject gives an old project the organisation of the crew.
NewOrg ==
  /\ ~hasOrg /\ hasOrg' = TRUE
  /\ UNCHANGED <<owner, lead, assigned, tier, members, closed>>

\* WorkersService.updateById: an admin may change the tier, a worker may not.
NewTier ==
  /\ \E w \in AWorkers, t \in {"standard", "restricted"} : tier' = [tier EXCEPT ![w] = t]
  /\ UNCHANGED <<hasOrg, owner, lead, assigned, members, closed>>

\* ensureOrganizationMembership makes admins members; others are entered by hand.
NewMember ==
  /\ \E u \in Accounts : members' = members \cup {u}
  /\ UNCHANGED <<hasOrg, owner, lead, assigned, tier, closed>>

\* InvitesService.redeem, and ProjectsService.update, which takes any account.
NewOwner ==
  /\ owner' \in Accounts
  /\ UNCHANGED <<hasOrg, lead, assigned, tier, members, closed>>

Close ==
  /\ lead # NoAccount
  /\ closed' = TRUE
  /\ UNCHANGED <<hasOrg, owner, lead, assigned, tier, members>>

\* Those who are asking meanwhile remember it.
WorldMoves ==
  /\ NewLead \/ NewAssignment \/ NewOrg \/ NewTier \/ NewMember \/ NewOwner \/ Close
  /\ asks' = [r \in ARequests |->
       LET now == GroundsIn(asks[r].user, hasOrg', owner', lead', assigned', tier', members')
       IN IF apc[r] = "idle" THEN asks[r]
          ELSE [asks[r] EXCEPT !.had = @ \cup now, !.held = @ \cap now]]
  /\ UNCHANGED apc

-----------------------------------------------------------------------------
(* What is asked, statement by statement.                                  *)

Questions == {"open", "timeline", "report", "gallery", "comment", "add", "list", "images", "available"}

\* The questions that are filters of one query over all projects.
Filters == {"list", "images", "available"}

Worker(r) == asks[r].user \in AWorkers
Admin(r)  == asks[r].user \in AAdmins
Asks(r, questions) == asks[r].question \in questions

\* What the request has read before and, with this statement, of gs.
Reading(r, gs) == asks[r].read \cup (Grounds(asks[r].user) \cap gs)

ARead(r, gs, at) ==
  /\ apc'  = [apc EXCEPT ![r] = at]
  /\ asks' = [asks EXCEPT ![r].read = Reading(r, gs)]
  /\ UNCHANGED accessWorld

AnswerIf(yes) == IF yes THEN "granted" ELSE "refused"

\* An admin is listed every project there is; only workers are offered those without a contract.
Ask(r, u, q) ==
  /\ apc[r] = "idle"
  /\ q \in Filters => u \notin AAdmins
  /\ q = "available" => u \in AWorkers
  /\ apc' = [apc EXCEPT ![r] = IF q \notin Filters THEN "project"
                               ELSE IF u \in AWorkers THEN "worker" ELSE "query"]
  /\ asks' = [asks EXCEPT ![r] = [user |-> u, question |-> q, read |-> {},
                                 had |-> Grounds(u), held |-> Grounds(u)]]
  /\ UNCHANGED accessWorld

\* Documents, reports and galleries are kept by organisation.
Scoped(r, read) == Asks(r, {"report", "gallery"}) => "org" \in read

\* The project and its contract are read first, by every check.
ReadProject(r) ==
  LET gs   == {"owner", "lead", "org", "noOrg"}
      read == Reading(r, gs)
      mine == "owner" \in read \/ (Asks(r, {"comment"}) /\ "lead" \in read)
  IN
  /\ apc[r] = "project"
  /\ \/ \* ProjectsService.findOne asks no more of those who are no workers
        /\ Asks(r, {"open"}) /\ ~Worker(r)
        /\ ARead(r, gs, "granted")
     \/ \* assertWorkerProjectVisibility, and the project's own evidence
        /\ Worker(r) /\ Asks(r, {"open", "timeline", "report", "add"})
        /\ ARead(r, gs, "worker")
     \/ \* ProjectEvidenceService.assertProjectAccess
        /\ Asks(r, {"add"}) /\ ~Worker(r)
        /\ ARead(r, gs, AnswerIf(Admin(r) \/ "owner" \in read))
     \/ \* ensureGalleryManageAccess is for admins, and for the client of a closed project
        /\ Asks(r, {"gallery"}) /\ ~Admin(r) /\ ~("owner" \in read /\ closed)
        /\ ARead(r, gs, "refused")
     \/ \* assertTimelineProjectAccess and assertEvidenceInUserOrg
        /\ \/ Asks(r, {"timeline", "report"}) /\ ~Worker(r)
           \/ Asks(r, {"comment"})
           \/ Asks(r, {"gallery"}) /\ (Admin(r) \/ ("owner" \in read /\ closed))
        /\ ARead(r, gs, IF "org" \in read THEN "membership"
                        ELSE AnswerIf((mine \/ Admin(r)) /\ Scoped(r, read)))

\* Worker.findUnique, with the tier
ReadWorker(r) ==
  /\ apc[r] = "worker"
  /\ ARead(r, {"standard"},
           IF Asks(r, {"available"}) THEN "query"
           ELSE IF Asks(r, {"list", "images"}) THEN "orgs"
           ELSE IF "lead" \in asks[r].read /\ ~Asks(r, {"add"})
           THEN AnswerIf(Scoped(r, asks[r].read))
           ELSE "assignment")

\* Mutation: the tier is not looked at.
RestrictedNever(read) == FALSE

\* A restricted worker sees what he takes part in, and only that.
Restricted(read) == "standard" \notin read

\* ProjectAssignment.findFirst
ReadAssignment(r) ==
  LET read == Reading(r, {"assigned"}) IN
  /\ apc[r] = "assignment"
  /\ ARead(r, {"assigned"},
           IF "assigned" \in read THEN AnswerIf(Scoped(r, read))
           ELSE IF Asks(r, {"add"}) THEN AnswerIf("lead" \in read)
           ELSE IF Restricted(read) \/ "org" \notin read THEN "refused"
           ELSE "membership")

\* OrganizationMember.findFirst: it lets workers see and admins see and act; the client
\* of the project needs none, and of its workers the contract's may comment.
ReadMembership(r) ==
  LET read == Reading(r, {"member"}) IN
  /\ apc[r] = "membership"
  /\ ARead(r, {"member"},
           AnswerIf(\/ "owner" \in read
                    \/ "member" \in read /\ (Admin(r) \/ (Worker(r) /\ ~Asks(r, {"comment"})))
                    \/ "lead" \in read /\ Asks(r, {"comment"})))

\* findOrganizationIdsForUser
ReadOrgs(r) ==
  /\ apc[r] = "orgs"
  /\ ARead(r, {"member"}, "query")

\* findAllUncached and listRecentWorkImages: one query, with the tier and organisations
\* as they were read.  A worker may also ask for the projects without a contract.
Query(r) ==
  LET gs   == {"owner", "lead", "assigned", "org"}
      read == Reading(r, gs)
  IN
  /\ apc[r] = "query"
  /\ ARead(r, gs,
           AnswerIf(IF Asks(r, {"available"}) THEN lead = NoAccount
                    ELSE \/ read \cap {"owner", "lead", "assigned"} # {}
                         \/ ~Restricted(read) /\ {"member", "org"} \subseteq read))

Told(r) ==
  /\ apc[r] \in {"granted", "refused"}
  /\ apc'  = [apc EXCEPT ![r] = "idle"]
  /\ asks' = [asks EXCEPT ![r] = NoAsk]
  /\ UNCHANGED accessWorld

AccessNext ==
  \/ WorldMoves
  \/ \E r \in ARequests :
       \/ \E u \in Accounts, q \in Questions : Ask(r, u, q)
       \/ ReadProject(r) \/ ReadWorker(r) \/ ReadAssignment(r) \/ ReadMembership(r)
       \/ ReadOrgs(r) \/ Query(r) \/ Told(r)

AccessSpec == AccessInit /\ [][AccessNext]_accessVars

-----------------------------------------------------------------------------
(* Properties.                                                             *)

AccessTypeOK ==
  /\ hasOrg \in BOOLEAN /\ closed \in BOOLEAN
  /\ owner \in Accounts /\ lead \in AWorkers \cup {NoAccount}
  /\ assigned \subseteq AWorkers /\ members \subseteq Accounts
  /\ tier \in [AWorkers -> {"standard", "restricted"}]
  /\ apc \in [ARequests -> {"idle", "project", "worker", "assignment", "membership", "orgs",
                            "query", "granted", "refused"}]
  /\ \A r \in ARequests : /\ asks[r].user \in Accounts \cup {NoAccount}
                          /\ asks[r].question \in Questions \cup {"none"}

\* The rule behind all of them, that the code states nowhere: a worker sees the projects he
\* takes part in and, unless restricted, those of his organisations; a client his own; an
\* admin those of his organisations, and the old ones.
Suffices(u, grounds) ==
  \/ /\ u \in AWorkers
     /\ \/ grounds \cap {"lead", "assigned"} # {}
        \/ {"standard", "member", "org"} \subseteq grounds
  \/ u \in AClients /\ "owner" \in grounds
  \/ u \in AAdmins /\ grounds \cap {"noOrg", "member"} # {}

\* The questions that ask for it: to open a project is free for those who are no workers, the
\* list of projects without a contract is of projects that do not open, and any admin may
\* add evidence to any project.
Ruled(r) ==
  /\ asks[r].question # "available"
  /\ asks[r].question = "open" => Worker(r)
  /\ asks[r].question = "add" => ~Admin(r)

\* Whatever changes while a request is served, it is granted only on grounds that each were
\* there at some moment of it, and who had enough of them all the time is not refused to see
\* the project, where it is listed and where it is opened.
AnswersAreRight ==
  \A r \in ARequests :
    /\ apc[r] = "granted" /\ Ruled(r) => Suffices(asks[r].user, asks[r].had)
    /\ apc[r] = "refused" /\ Ruled(r) /\ Asks(r, {"open", "timeline", "list", "images"}) =>
         ~Suffices(asks[r].user, asks[r].held)
=============================================================================
