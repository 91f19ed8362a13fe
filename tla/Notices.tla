------------------------------ MODULE Notices ------------------------------
(***************************************************************************)
(* NotificationsListeners: a service emits an event and goes on; a handler *)
(* reads who is concerned, by then, and creates a notification for each of *)
(* them, one group of receivers after the other.  A group is created at    *)
(* once and rejects with its first failure, which the handler only logs:   *)
(* the rest of the group goes on, the groups after it are never begun.     *)
(* The model follows one event, of any kind, from its emission.            *)
(***************************************************************************)
EXTENDS Naturals, Sequences, FiniteSets

CONSTANTS NClients, NWorkers, NAdmins, NInspectors,   \* accounts by their role
          Nobody

ASSUME NoticesAssumption ==
  /\ Nobody \notin NClients \cup NWorkers \cup NAdmins \cup NInspectors
  /\ NWorkers \cap (NClients \cup NAdmins) = {}      \* an account has one role

NUsers == NClients \cup NWorkers \cup NAdmins \cup NInspectors

VARIABLES
  client,      \* Project.clientId: an admin may have registered a project as their own
  leadWorker,  \* the contract's worker, or Nobody
  event,       \* the event
  named,       \* the account the event is about
  npc,         \* the handler: "emitted", "making" or "over"
  groups,      \* the groups not yet begun
  todo,        \* receivers of the group begun whose notification is being created
  notices,     \* notifications of the event by account
  meant,       \* history: the groups as they were read
  failed,      \* history: a creation or a read failed
  repeated,    \* history: Prisma repeated a creation whose answer was lost
  moved        \* history: the contract got another worker after the event

noticeVars ==
  <<client, leadWorker, event, named, npc, groups, todo, notices, meant, failed, repeated, moved>>

\* Events about the contract's worker, as the contract is when they are emitted.
OfLead == {"contract.signed", "payment.released", "phase.validated"}

\* Events that carry their account with them.
OfNamed == {"user.created", "invite.redeemed", "worker.rated", "contract.created", "worker.assigned",
            "worker.invited", "worker.assigned_to_project", "worker.removed_from_project"}

\* Events about the project, for whoever takes part in it.
OfAll == {"project.created", "project.matched", "project.activated", "project.closing",
          "project.closed", "project.rejected", "project.other", "phase.started",
          "phase.evidence_uploaded", "phase.client_commented", "phase.under_review",
          "escrow.held", "payment.failed"}

NoticeInit ==
  /\ client \in NClients \cup NAdmins
  /\ leadWorker \in NWorkers \cup {Nobody}
  /\ event \in OfLead \cup OfNamed \cup OfAll
  /\ named \in IF event \in OfLead THEN {leadWorker}
               ELSE IF event \in {"user.created", "invite.redeemed"} THEN NUsers ELSE NWorkers
  /\ event \in OfLead \cup {"escrow.held"} => leadWorker # Nobody
  /\ npc = "emitted"
  /\ groups = <<>> /\ todo = {} /\ meant = <<>>
  /\ notices = [u \in NUsers |-> 0]
  /\ failed = FALSE /\ repeated = FALSE /\ moved = FALSE

-----------------------------------------------------------------------------
(* Whom the handlers tell, group by group.                                 *)

TheLead == {leadWorker} \ {Nobody}

UserCreated == <<{named}>>

ProjectCreated == <<{client}, NAdmins>>

\* mapProjectStatusToNotificationType leaves the other statuses untold.
ProjectStatusChanged ==
  CASE event = "project.closed" -> <<{client} \cup TheLead \cup NInspectors>>
    [] event \in {"project.activated", "project.closing"} ->
         <<{client} \cup TheLead \cup NAdmins \cup NInspectors>>
    [] event \in {"project.matched", "project.rejected"} -> <<{client} \cup TheLead \cup NAdmins>>
    [] OTHER -> <<>>

PhaseStarted == <<TheLead \cup NAdmins>>

PhaseEvidenceUploaded == <<{client}, NAdmins \cup NInspectors>>

\* The worker of the phase, not of the contract.
PhaseClientCommented == <<NAdmins \cup NInspectors \cup {named}>>

ContractCreated == <<{named}>>
WorkerInvited == <<{named}>>

WorkerAssignedToProject == <<{named}, NAdmins \ {named}>>
WorkerRemovedFromProject == <<{named}, NAdmins \ {named}>>

WorkerAssigned == <<{named}>>

\* The contract is read when the event is handled.
ContractSigned == <<{client}, TheLead, NAdmins>>

EscrowHeld == <<{client} \cup TheLead \cup NAdmins>>

PaymentReleased == <<TheLead, {client}>>

PaymentFailed == <<{client}, NAdmins>>

InviteRedeemed == <<{named}, NAdmins>>

WorkerRated == <<{named}>>

PhaseUnderReview == <<NAdmins \cup NInspectors>>

PhaseValidated == <<TheLead>>

Receivers ==
  CASE event = "user.created"                -> UserCreated
    [] event = "project.created"             -> ProjectCreated
    [] event = "phase.started"               -> PhaseStarted
    [] event = "phase.evidence_uploaded"     -> PhaseEvidenceUploaded
    [] event = "phase.client_commented"      -> PhaseClientCommented
    [] event = "contract.created"            -> ContractCreated
    [] event = "worker.invited"              -> WorkerInvited
    [] event = "worker.assigned_to_project"  -> WorkerAssignedToProject
    [] event = "worker.removed_from_project" -> WorkerRemovedFromProject
    [] event = "worker.assigned"             -> WorkerAssigned
    [] event = "contract.signed"             -> ContractSigned
    [] event = "escrow.held"                 -> EscrowHeld
    [] event = "payment.released"            -> PaymentReleased
    [] event = "payment.failed"              -> PaymentFailed
    [] event = "invite.redeemed"             -> InviteRedeemed
    [] event = "worker.rated"                -> WorkerRated
    [] event = "phase.under_review"          -> PhaseUnderReview
    [] event = "phase.validated"             -> PhaseValidated
    [] OTHER                                 -> ProjectStatusChanged

-----------------------------------------------------------------------------
(* The handler.                                                            *)

\* The reads; what they find is who is told.
ReadReceivers ==
  /\ npc = "emitted"
  /\ npc' = "making"
  /\ groups' = Receivers /\ meant' = Receivers
  /\ UNCHANGED <<client, leadWorker, event, named, todo, notices, failed, repeated, moved>>

\* createForUsers begins one creation for every account of the group.
NextGroup ==
  /\ npc = "making" /\ todo = {} /\ groups # <<>>
  /\ todo' = Head(groups) /\ groups' = Tail(groups)
  /\ UNCHANGED <<client, leadWorker, event, named, npc, notices, meant, failed, repeated, moved>>

\* Mutation: a creation is not taken off the list of those to be made.
CreateAgain(u) ==
  /\ u \in todo /\ notices[u] < 2
  /\ notices' = [notices EXCEPT ![u] = @ + 1]
  /\ UNCHANGED <<client, leadWorker, event, named, npc, groups, todo, meant, failed, repeated, moved>>

\* NotificationsService.create: the row.  What follows it, the signal to the apps, the push
\* and the invalidation of the list, swallows its errors.
Create(u) ==
  /\ u \in todo
  /\ notices' = [notices EXCEPT ![u] = @ + 1]
  /\ todo' = todo \ {u}
  /\ UNCHANGED <<client, leadWorker, event, named, npc, groups, meant, failed, repeated, moved>>

\* The connection breaks after the row was made: withTransientRetry makes another.
CreateRetried(u) ==
  /\ u \in todo
  /\ notices' = [notices EXCEPT ![u] = @ + 2]
  /\ todo' = todo \ {u}
  /\ repeated' = TRUE
  /\ UNCHANGED <<client, leadWorker, event, named, npc, groups, meant, failed, moved>>

\* The creation fails: the handler is over, other creations of the group go on.
CreateFails(u) ==
  /\ u \in todo
  /\ todo' = todo \ {u}
  /\ npc' = "over" /\ groups' = <<>> /\ failed' = TRUE
  /\ UNCHANGED <<client, leadWorker, event, named, notices, meant, repeated, moved>>

\* Nothing is left to do, or a read fails.
Finish ==
  /\ npc = "emitted" \/ (npc = "making" /\ groups = <<>> /\ todo = {})
  /\ npc' = "over"
  /\ failed' = (failed \/ npc = "emitted")
  /\ UNCHANGED <<client, leadWorker, event, named, groups, todo, notices, meant, repeated, moved>>

\* The process dies, and the event with it: it is nowhere written down.
NoticeDies ==
  /\ npc' = "over" /\ groups' = <<>> /\ todo' = {} /\ failed' = TRUE
  /\ UNCHANGED <<client, leadWorker, event, named, notices, meant, repeated, moved>>

\* ContractsService.create gives the contract to another worker.
NoticeReassign ==
  /\ npc = "emitted" /\ leadWorker # Nobody
  /\ leadWorker' \in NWorkers \ {leadWorker}
  /\ moved' = TRUE
  /\ UNCHANGED <<client, event, named, npc, groups, todo, notices, meant, failed, repeated>>

NoticeNext ==
  \/ ReadReceivers \/ NextGroup
  \/ \E u \in NUsers : Create(u) \/ CreateRetried(u) \/ CreateFails(u)
  \/ Finish \/ NoticeDies \/ NoticeReassign

NoticeSpec == NoticeInit /\ [][NoticeNext]_noticeVars

-----------------------------------------------------------------------------
(* Properties.                                                             *)

NoticeTypeOK ==
  /\ client \in NUsers /\ named \in NUsers /\ leadWorker \in NWorkers \cup {Nobody}
  /\ npc \in {"emitted", "making", "over"}
  /\ groups \in Seq(SUBSET NUsers) /\ meant \in Seq(SUBSET NUsers)
  /\ todo \subseteq NUsers
  /\ notices \in [NUsers -> Nat]
  /\ failed \in BOOLEAN /\ repeated \in BOOLEAN /\ moved \in BOOLEAN

GroupsOf(u) == {g \in DOMAIN meant : u \in meant[g]}

\* An account is told of an event once, unless it takes part twice, as the client and as an
\* admin of a handler that tells them apart, or Prisma has repeated the creation.
NoticeOnce == \A u \in NUsers : repeated \/ notices[u] <= Cardinality(GroupsOf(u))

\* A handler that is over without a failure has told everyone it meant to tell.
EveryoneIsTold ==
  npc = "over" /\ ~failed => \A u \in NUsers : notices[u] >= Cardinality(GroupsOf(u))

\* Who reads that the contract was signed, its payment released or its phase judged is the
\* worker of whom it is true, unless the contract changed hands before the handler read it.
TheRightWorker ==
  event \in OfLead => \A w \in NWorkers : notices[w] > 0 => w = named \/ moved

NoticesAreRight == NoticeOnce /\ EveryoneIsTold /\ TheRightWorker
=============================================================================
