-------------------------- MODULE ProjectLifecycle --------------------------
(***************************************************************************)
(* One project of the back end, from matching to closing: its status, its  *)
(* phases, its contract, the escrow that holds the client's money and the  *)
(* Stripe PaymentIntents behind it.                                        *)
(*                                                                         *)
(* Every NestJS handler is an asynchronous function: it reads rows, awaits *)
(* and writes rows with unconditional updates.  A handler is therefore     *)
(* modelled as a request slot that moves from one await to the next, and   *)
(* loc holds what the handler read and will use after the await.  Handlers *)
(* of different slots interleave at every await.  Prisma transactions are  *)
(* single steps.                                                           *)
(***************************************************************************)
EXTENDS Naturals, FiniteSets

CONSTANTS Requests,      \* handler activations that may be in flight at once
          Workers,       \* workers that can be assigned
          NoWorker,      \* a null workerId / signedAt
          Removable,     \* workers whose account an admin may delete
          MaxPhases,     \* bound: phases a project can have
          MaxContracts,  \* bound: contracts created for the project
          MaxIntents     \* bound: PaymentIntents created for the project

ASSUME LifecycleAssumption ==
  /\ NoWorker \notin Workers /\ Removable \subseteq Workers
  /\ MaxPhases \in Nat /\ MaxContracts \in Nat /\ MaxIntents \in Nat

PhaseIds    == 1..MaxPhases
ContractIds == 1..MaxContracts
IntentIds   == 1..MaxIntents

VARIABLES
  status,    \* Project.status
  phases,    \* ProjectPhase.status in order, "none" where there is no row
  contract,  \* the Contract row of the project; id 0 when there is none
  created,   \* how many contracts have been created: the next id
  escrow,    \* ids of the contracts that have an EscrowTxn
  intents,   \* the PaymentIntents at Stripe and the fate of their webhook
  removed,   \* workers whose row is gone
  forced,    \* history: someone sent PAY or START by hand
  pc,        \* the await each request stands at
  loc        \* what each request has read

vars == <<status, phases, contract, created, escrow, intents, removed, forced, pc, loc>>

Statuses == {"draft", "matched", "contract_signed", "active_escrow",
             "in_execution", "closing", "closed"}
PhaseStatuses == {"pending", "in_progress", "under_review", "completed"}

NoContract == [id |-> 0, worker |-> NoWorker, signedBy |-> NoWorker, intent |-> 0]
NoIntent   == [contract |-> 0, state |-> "none", acked |-> FALSE]
Nothing    == [cid |-> 0, worker |-> NoWorker, intent |-> 0, hook |-> 0,
               from |-> "draft", to |-> "draft", signed |-> FALSE,
               phase |-> 0, phaseTo |-> "pending"]

\* The transitions of the XState machine, as <<from, event, to>>.
Machine == { <<"draft",           "READY",    "matched">>,
             <<"contract_signed", "PAY",      "active_escrow">>,
             <<"active_escrow",   "START",    "in_execution">>,
             <<"in_execution",    "COMPLETE", "closing">>,
             <<"closing",         "CONFIRM",  "closed">> }

\* Mutation: a rejected review gets a status of its own that the schema lacks.
PhaseTransitionsRejected == { <<"pending", "in_progress">>, <<"in_progress", "under_review">>,
                              <<"under_review", "completed">>, <<"under_review", "rejected">> }

\* PhasesService.isValidPhaseTransition.
PhaseTransitions == { <<"pending", "in_progress">>, <<"in_progress", "under_review">>,
                      <<"under_review", "completed">>, <<"under_review", "in_progress">> }

Exists(ph)   == phases[ph] # "none"
NotStarted   == \A ph \in PhaseIds : phases[ph] \in {"none", "pending"}
AllCompleted == \A ph \in PhaseIds : phases[ph] \in {"none", "completed"}
HasPhases    == \E ph \in PhaseIds : Exists(ph)
FirstPending == IF \E ph \in PhaseIds : phases[ph] = "pending"
                THEN CHOOSE ph \in PhaseIds :
                       /\ phases[ph] = "pending"
                       /\ \A q \in PhaseIds : phases[q] = "pending" => ph <= q
                ELSE 0

Paid(c) == \E p \in IntentIds : intents[p].contract = c /\ intents[p].state = "succeeded"

-----------------------------------------------------------------------------
\* A request moves to the await `at` keeping `l`; it returns normally, in which
\* case a webhook answers 200; or it throws at the await it stands at.
GoTo(r, at, l) == /\ pc'  = [pc  EXCEPT ![r] = at]
                  /\ loc' = [loc EXCEPT ![r] = l]

Return(r) ==
  /\ GoTo(r, "idle", Nothing)
  /\ intents' = IF loc[r].hook = 0 THEN intents
                ELSE [intents EXCEPT ![loc[r].hook].acked = TRUE]

\* Mutation: the webhook controller catches every exception and answers 200.
FailAnswered(r) ==
  /\ pc[r] # "idle"
  /\ Return(r)
  /\ UNCHANGED <<status, phases, contract, created, escrow, removed, forced>>

\* The process dies, the database refuses a write (missing row, foreign key,
\* unique key) or an awaited call rejects: the request ends where it stands,
\* what it wrote stays, and a webhook is answered with an error.
Fail(r) ==
  /\ pc[r] # "idle"
  /\ GoTo(r, "idle", Nothing)
  /\ UNCHANGED <<status, phases, contract, created, escrow, intents, removed, forced>>

-----------------------------------------------------------------------------
(* Project status on request: ProjectsService.                             *)

RequestStatus(r) ==
  /\ pc[r] = "idle"
  /\ \E t \in Machine :
       /\ t[1] = status
       /\ GoTo(r, "status.save", [Nothing EXCEPT !.from = t[1], !.to = t[3]])
       /\ forced' = (forced \/ t[2] \in {"PAY", "START"})
  /\ UNCHANGED <<status, phases, contract, created, escrow, intents, removed>>

\* advanceStatusManual: only for a project without phases.
RequestManualAdvance(r) ==
  /\ pc[r] = "idle"
  /\ ~HasPhases
  /\ \E t \in { <<"in_execution", "closing">>, <<"closing", "closed">> } :
       /\ t[1] = status
       /\ GoTo(r, "status.save", [Nothing EXCEPT !.from = t[1], !.to = t[2]])
  /\ UNCHANGED <<status, phases, contract, created, escrow, intents, removed, forced>>

SaveStatus(r) ==
  /\ pc[r] = "status.save"
  /\ status' = loc[r].to
  /\ Return(r)
  /\ UNCHANGED <<phases, contract, created, escrow, removed, forced>>

-----------------------------------------------------------------------------
(* Assigning a worker and signing: ContractsService.                       *)

\* create: everything up to the transaction, decided on one snapshot.
RequestContract(r, w) ==
  /\ pc[r] = "idle"
  /\ NotStarted
  /\ contract.worker # w /\ w \notin removed
  /\ LET l == [Nothing EXCEPT !.cid = contract.id, !.worker = w, !.from = status]
     IN \/ /\ contract.id \in escrow
           /\ status \in {"matched", "contract_signed", "active_escrow", "in_execution"}
           /\ GoTo(r, "contract.reassign", l)
        \/ /\ contract.id \notin escrow
           /\ contract.signedBy = NoWorker
           /\ status \in {"matched", "contract_signed"}
           /\ GoTo(r, "contract.replace", l)
  /\ UNCHANGED <<status, phases, contract, created, escrow, intents, removed, forced>>

\* The transaction when the snapshot had an escrow: same contract, new worker.
Reassign(r) ==
  /\ pc[r] = "contract.reassign"
  /\ contract.id = loc[r].cid
  /\ loc[r].worker \notin removed
  /\ contract' = [contract EXCEPT !.worker = loc[r].worker, !.signedBy = NoWorker]
  /\ status' = IF loc[r].from = "in_execution" THEN "active_escrow" ELSE status
  /\ Return(r)
  /\ UNCHANGED <<phases, created, escrow, removed, forced>>

\* Mutation: the foreign key of EscrowTxn no longer restricts the delete.
ReplaceCascading(r) ==
  /\ pc[r] = "contract.replace"
  /\ contract.id = loc[r].cid
  /\ loc[r].worker \notin removed
  /\ created < MaxContracts
  /\ created' = created + 1
  /\ contract' = [NoContract EXCEPT !.id = created + 1, !.worker = loc[r].worker]
  /\ status' = IF loc[r].from = "matched" THEN "contract_signed" ELSE status
  /\ Return(r)
  /\ UNCHANGED <<phases, escrow, removed, forced>>

\* The transaction when it had none: delete the old row, create a new one.  The
\* foreign key of EscrowTxn and the unique projectId make the database refuse
\* a contract that got its escrow, or was replaced, after the snapshot.
Replace(r) ==
  /\ pc[r] = "contract.replace"
  /\ contract.id = loc[r].cid
  /\ contract.id \notin escrow
  /\ loc[r].worker \notin removed
  /\ created < MaxContracts
  /\ created' = created + 1
  /\ contract' = [NoContract EXCEPT !.id = created + 1, !.worker = loc[r].worker]
  /\ status' = IF loc[r].from = "matched" THEN "contract_signed" ELSE status
  /\ Return(r)
  /\ UNCHANGED <<phases, escrow, removed, forced>>

RequestSign(r, w) ==
  /\ pc[r] = "idle"
  /\ contract.id # 0
  /\ contract.worker = w
  /\ contract.signedBy = NoWorker
  /\ GoTo(r, "contract.sign", [Nothing EXCEPT !.cid = contract.id, !.worker = w])
  /\ UNCHANGED <<status, phases, contract, created, escrow, intents, removed, forced>>

\* The update writes signedAt on the row with that id; signedBy records who
\* asked.  It then emits contract.signed, whose listener advances the project.
Sign(r) ==
  /\ pc[r] = "contract.sign"
  /\ contract.id = loc[r].cid
  /\ contract' = [contract EXCEPT !.signedBy = loc[r].worker]
  /\ GoTo(r, "advance.read", [Nothing EXCEPT !.cid = loc[r].cid])
  /\ UNCHANGED <<status, phases, created, escrow, intents, removed, forced>>

\* AdminService.deleteWorker: one transaction deletes the worker with its
\* contracts and their escrows and leaves the project's status alone.
DeleteWorker(w) ==
  /\ w \in Removable \ removed
  /\ removed' = removed \cup {w}
  /\ contract' = IF contract.worker = w THEN NoContract ELSE contract
  /\ escrow' = IF contract.worker = w THEN escrow \ {contract.id} ELSE escrow
  /\ UNCHANGED <<status, phases, created, intents, forced, pc, loc>>

-----------------------------------------------------------------------------
(* The client's payment: PaymentsService.createEscrow, Stripe, its webhook. *)

\* A contract with an escrow is answered alreadyPaid and changes nothing.
RequestEscrow(r) ==
  /\ pc[r] = "idle"
  /\ contract.id # 0
  /\ contract.id \notin escrow
  /\ GoTo(r, IF contract.intent = 0 THEN "escrow.create" ELSE "escrow.retrieve",
          [Nothing EXCEPT !.cid = contract.id, !.intent = contract.intent])
  /\ UNCHANGED <<status, phases, contract, created, escrow, intents, removed, forced>>

\* Mutation: the self-heal takes any intent that is not canceled for a paid one.
RetrieveIntentTrusting(r) ==
  /\ pc[r] = "escrow.retrieve"
  /\ contract.id = loc[r].cid
  /\ intents[loc[r].intent].state # "canceled"
  /\ GoTo(r, "escrow.activate", loc[r])
  /\ UNCHANGED <<status, phases, contract, created, escrow, intents, removed, forced>>

\* paymentIntents.retrieve: succeeded heals the escrow, canceled or an error of
\* the call goes on to a new intent, anything else reuses the intent.
RetrieveIntent(r) ==
  /\ pc[r] = "escrow.retrieve"
  /\ LET pi == intents[loc[r].intent].state IN
     \/ pi = "succeeded" /\ contract.id = loc[r].cid
        /\ GoTo(r, "escrow.activate", loc[r]) /\ UNCHANGED intents
     \/ pi = "succeeded" /\ contract.id # loc[r].cid /\ Return(r)
     \/ pi = "open" /\ Return(r)
     \/ GoTo(r, "escrow.create", loc[r])
        /\ UNCHANGED intents
  /\ UNCHANGED <<status, phases, contract, created, escrow, removed, forced>>

CreateIntent(r, p) ==
  /\ pc[r] = "escrow.create"
  /\ intents[p] = NoIntent
  /\ \A q \in IntentIds : q < p => intents[q] # NoIntent
  /\ intents' = [intents EXCEPT ![p] = [NoIntent EXCEPT !.contract = loc[r].cid,
                                                        !.state = "open"]]
  /\ GoTo(r, "escrow.store", [loc[r] EXCEPT !.intent = p])
  /\ UNCHANGED <<status, phases, contract, created, escrow, removed, forced>>

StoreIntent(r) ==
  /\ pc[r] = "escrow.store"
  /\ contract.id = loc[r].cid
  /\ contract' = [contract EXCEPT !.intent = loc[r].intent]
  /\ Return(r)
  /\ UNCHANGED <<status, phases, created, escrow, removed, forced>>

\* The client confirms the payment; an open intent can also be canceled.
SettleIntent(p) ==
  /\ intents[p].state = "open"
  /\ \E s \in {"succeeded", "canceled"} : intents' = [intents EXCEPT ![p].state = s]
  /\ UNCHANGED <<status, phases, contract, created, escrow, removed, forced, pc, loc>>

\* Mutation: the controller answers Stripe without awaiting activateEscrow.
DeliverUnawaited(r, p) ==
  /\ pc[r] = "idle"
  /\ intents[p].state = "succeeded"
  /\ intents' = [intents EXCEPT ![p].acked = TRUE]
  /\ IF contract.id = intents[p].contract
     THEN GoTo(r, "escrow.activate", [Nothing EXCEPT !.cid = contract.id, !.hook = p])
     ELSE UNCHANGED <<pc, loc>>
  /\ UNCHANGED <<status, phases, contract, created, escrow, removed, forced>>

\* payment_intent.succeeded arrives, for the first time or again.  activateEscrow
\* first looks for the contract the metadata names and returns when it is gone.
DeliverSucceeded(r, p) ==
  /\ pc[r] = "idle"
  /\ intents[p].state = "succeeded"
  /\ \/ /\ contract.id = intents[p].contract
        /\ GoTo(r, "escrow.activate", [Nothing EXCEPT !.cid = contract.id, !.hook = p])
        /\ UNCHANGED intents
     \/ /\ contract.id # intents[p].contract
        /\ intents' = [intents EXCEPT ![p].acked = TRUE]
        /\ UNCHANGED <<pc, loc>>
  /\ UNCHANGED <<status, phases, contract, created, escrow, removed, forced>>

\* The upsert of the EscrowTxn; its foreign key needs the contract.
ActivateEscrow(r) ==
  /\ pc[r] = "escrow.activate"
  /\ contract.id = loc[r].cid
  /\ escrow' = escrow \cup {loc[r].cid}
  /\ GoTo(r, "advance.read", loc[r])
  /\ UNCHANGED <<status, phases, contract, created, intents, removed, forced>>

\* The self-heal runs inside createEscrow's try: when activateEscrow throws, the
\* catch only logs, and createEscrow goes on to a new intent.
HealFails(r) ==
  /\ pc[r] \in {"escrow.activate", "advance.read", "advance.lookup", "advance.pay",
               "advance.start", "advance.phase"}
  /\ loc[r].intent # 0
  /\ GoTo(r, "escrow.create", [Nothing EXCEPT !.cid = loc[r].cid, !.intent = loc[r].intent])
  /\ UNCHANGED <<status, phases, contract, created, escrow, intents, removed, forced>>

-----------------------------------------------------------------------------
(* PaymentsService.advanceProjectAfterEscrow: one snapshot, three writes.  *)

\* Where the walk contract_signed, active_escrow, in_execution goes on when the
\* current status is s; signed and phase are the snapshot's.
AdvanceFrom(s, signed, phase) ==
  IF s = "active_escrow" /\ signed THEN "advance.start"
  ELSE IF s = "in_execution" /\ phase # 0 THEN "advance.phase" ELSE "end"

Continue(r, at, l) ==
  IF at = "end" THEN Return(r) ELSE GoTo(r, at, l) /\ UNCHANGED intents

AdvanceRead(r) ==
  /\ pc[r] = "advance.read"
  /\ \/ contract.id # loc[r].cid /\ Return(r)
     \/ /\ contract.id = loc[r].cid
        /\ LET signed == contract.signedBy # NoWorker
               at == IF status = "contract_signed" THEN "advance.lookup"
                     ELSE AdvanceFrom(status, signed, FirstPending)
           IN Continue(r, at, [loc[r] EXCEPT !.from = status, !.signed = signed,
                                             !.phase = FirstPending])
  /\ UNCHANGED <<status, phases, contract, created, escrow, removed, forced>>

\* Mutation: PAY is applied whether or not the EscrowTxn is found.
AdvanceLookupIgnored(r) ==
  /\ pc[r] = "advance.lookup"
  /\ GoTo(r, "advance.pay", loc[r])
  /\ UNCHANGED <<status, phases, contract, created, escrow, intents, removed, forced>>

AdvanceLookup(r) ==
  /\ pc[r] = "advance.lookup"
  /\ Continue(r, IF loc[r].cid \in escrow THEN "advance.pay" ELSE "end", loc[r])
  /\ UNCHANGED <<status, phases, contract, created, escrow, removed, forced>>

AdvancePay(r) ==
  /\ pc[r] = "advance.pay"
  /\ status' = "active_escrow"
  /\ Continue(r, AdvanceFrom("active_escrow", loc[r].signed, loc[r].phase),
              [loc[r] EXCEPT !.from = "active_escrow"])
  /\ UNCHANGED <<phases, contract, created, escrow, removed, forced>>

AdvanceStart(r) ==
  /\ pc[r] = "advance.start"
  /\ status' = "in_execution"
  /\ Continue(r, AdvanceFrom("in_execution", TRUE, loc[r].phase),
              [loc[r] EXCEPT !.from = "in_execution"])
  /\ UNCHANGED <<phases, contract, created, escrow, removed, forced>>

AdvancePhase(r) ==
  /\ pc[r] = "advance.phase"
  /\ phases' = [phases EXCEPT ![loc[r].phase] = "in_progress"]
  /\ Return(r)
  /\ UNCHANGED <<status, contract, created, escrow, removed, forced>>

-----------------------------------------------------------------------------
(* Phases: PhasesService and InspectorService.                             *)

\* addPhaseToProject looks at no status; without dto.order the phase comes last.
AddPhase(ph) ==
  /\ ~Exists(ph)
  /\ \A q \in PhaseIds : q < ph => Exists(q)
  /\ phases' = [phases EXCEPT ![ph] = "pending"]
  /\ UNCHANGED <<status, contract, created, escrow, intents, removed, forced, pc, loc>>

\* updateStatus of a phase.  An admin may ask for each of these transitions, so
\* the role checks take none of them away.
RequestPhase(r, ph) ==
  /\ pc[r] = "idle"
  /\ \E t \in PhaseTransitions :
       /\ t[1] = phases[ph]
       /\ GoTo(r, "phase.save", [Nothing EXCEPT !.phase = ph, !.phaseTo = t[2]])
  /\ UNCHANGED <<status, phases, contract, created, escrow, intents, removed, forced>>

\* reviewPhase of the inspector: approve or reject a phase under review.
RequestReview(r, ph) ==
  /\ pc[r] = "idle"
  /\ phases[ph] = "under_review"
  /\ \E verdict \in {"completed", "in_progress"} :
       GoTo(r, "phase.save", [Nothing EXCEPT !.phase = ph, !.phaseTo = verdict])
  /\ UNCHANGED <<status, phases, contract, created, escrow, intents, removed, forced>>

\* Mutation: updateStatus does not look whether the phase was the last one.
SavePhaseUnchecked(r) ==
  /\ pc[r] = "phase.save"
  /\ phases' = [phases EXCEPT ![loc[r].phase] = loc[r].phaseTo]
  /\ Return(r)
  /\ UNCHANGED <<status, contract, created, escrow, removed, forced>>

SavePhase(r) ==
  /\ pc[r] = "phase.save"
  /\ phases' = [phases EXCEPT ![loc[r].phase] = loc[r].phaseTo]
  /\ Continue(r, IF loc[r].phaseTo = "completed" THEN "close.phases" ELSE "end", Nothing)
  /\ UNCHANGED <<status, contract, created, escrow, removed, forced>>

\* maybeAdvanceProjectToClosing: the phases, then the project, then the write.
CloseReadPhases(r) ==
  /\ pc[r] = "close.phases"
  /\ Continue(r, IF HasPhases /\ AllCompleted THEN "close.project" ELSE "end", Nothing)
  /\ UNCHANGED <<status, phases, contract, created, escrow, removed, forced>>

\* Mutation: the early return forgets that closed is past closing.
CloseReopening(r) ==
  /\ pc[r] = "close.project"
  /\ Continue(r, IF status = "closing" THEN "end" ELSE "close.save",
              [Nothing EXCEPT !.from = status])
  /\ UNCHANGED <<status, phases, contract, created, escrow, removed, forced>>

CloseReadProject(r) ==
  /\ pc[r] = "close.project"
  /\ Continue(r, IF status \in {"closing", "closed"} THEN "end" ELSE "close.save",
              [Nothing EXCEPT !.from = status])
  /\ UNCHANGED <<status, phases, contract, created, escrow, removed, forced>>

CloseSave(r) ==
  /\ pc[r] = "close.save"
  /\ status' = "closing"
  /\ Return(r)
  /\ UNCHANGED <<phases, contract, created, escrow, removed, forced>>

-----------------------------------------------------------------------------
\* ProjectsService.create leaves the project a draft, or matched when an admin
\* submits it, with the phases of its template.
Init ==
  /\ status \in {"draft", "matched"}
  /\ phases \in { [ph \in PhaseIds |-> IF ph <= n THEN "pending" ELSE "none"] :
                  n \in 0..MaxPhases }
  /\ contract = NoContract
  /\ created = 0
  /\ escrow = {}
  /\ removed = {}
  /\ intents = [p \in IntentIds |-> NoIntent]
  /\ forced = FALSE
  /\ pc = [r \in Requests |-> "idle"]
  /\ loc = [r \in Requests |-> Nothing]

ProjectStep(r)  == RequestStatus(r) \/ RequestManualAdvance(r) \/ SaveStatus(r)
ContractStep(r) == \/ \E w \in Workers : RequestContract(r, w) \/ RequestSign(r, w)
                   \/ Reassign(r) \/ Replace(r) \/ Sign(r)
PaymentStep(r)  == \/ RequestEscrow(r) \/ RetrieveIntent(r) \/ StoreIntent(r)
                   \/ ActivateEscrow(r) \/ HealFails(r)
                   \/ \E p \in IntentIds : CreateIntent(r, p) \/ DeliverSucceeded(r, p)
AdvanceStep(r)  == \/ AdvanceRead(r) \/ AdvanceLookup(r) \/ AdvancePay(r)
                   \/ AdvanceStart(r) \/ AdvancePhase(r)
PhaseStep(r)    == \/ \E ph \in PhaseIds : RequestPhase(r, ph) \/ RequestReview(r, ph)
                   \/ SavePhase(r) \/ CloseReadPhases(r) \/ CloseReadProject(r)
                   \/ CloseSave(r)
RequestStep(r) == \/ ProjectStep(r) \/ ContractStep(r) \/ PaymentStep(r)
                  \/ AdvanceStep(r) \/ PhaseStep(r) \/ Fail(r)

Next ==
  \/ \E r \in Requests : RequestStep(r)
  \/ \E p \in IntentIds : SettleIntent(p)
  \/ \E ph \in PhaseIds : AddPhase(ph)
  \/ \E w \in Workers : DeleteWorker(w)

Spec == Init /\ [][Next]_vars

\* Node runs every request on: each awaited call resolves or rejects, so a request
\* never stands at an await for ever.  Stripe redelivers an event until it is
\* answered 200, and the database does not refuse the same upsert for ever.
Redelivery(p)  == ~intents[p].acked /\ \E r \in Requests : DeliverSucceeded(r, p)
Fairness ==
  /\ \A r \in Requests : /\ WF_vars(pc[r] # "idle" /\ RequestStep(r))
                         /\ SF_vars(ActivateEscrow(r))
  /\ \A p \in IntentIds : SF_vars(Redelivery(p))

FairSpec == Spec /\ Fairness

-----------------------------------------------------------------------------
(* Properties.                                                             *)

Awaits == {"idle", "status.save", "contract.reassign", "contract.replace",
           "contract.sign", "escrow.create", "escrow.retrieve", "escrow.store",
           "escrow.activate", "advance.read", "advance.lookup", "advance.pay", "advance.start",
           "advance.phase", "phase.save", "close.phases", "close.project", "close.save"}

ContractRow == [id : 0..MaxContracts, worker : Workers \cup {NoWorker},
                signedBy : Workers \cup {NoWorker}, intent : 0..MaxIntents]
IntentRow   == [contract : 0..MaxContracts, acked : BOOLEAN,
                state : {"none", "open", "succeeded", "canceled"}]
Memory      == [cid : 0..MaxContracts, worker : Workers \cup {NoWorker},
                intent : 0..MaxIntents, hook : 0..MaxIntents,
                from : Statuses, to : Statuses, signed : BOOLEAN,
                phase : 0..MaxPhases, phaseTo : PhaseStatuses]

\* Every row and every pending request has the shape the schema gives it.
TypeOK ==
  /\ status \in Statuses
  /\ phases \in [PhaseIds -> PhaseStatuses \cup {"none"}]
  /\ contract \in ContractRow
  /\ created \in 0..MaxContracts
  /\ escrow \in SUBSET ContractIds
  /\ intents \in [IntentIds -> IntentRow]
  /\ removed \in SUBSET Workers
  /\ forced \in BOOLEAN
  /\ pc \in [Requests -> Awaits]
  /\ loc \in [Requests -> Memory]

\* Money that is held is never cut off from its project: a contract that has an
\* EscrowTxn stays the project's contract, whatever replacement was decided on a
\* snapshot taken before the payment arrived (ContractsService.create against
\* PaymentsService.activateEscrow).
HeldMoneyKeepsContract == \A c \in escrow : contract.id = c

\* An EscrowTxn stands for money the client paid: one of the contract's intents
\* has succeeded, on the webhook path and on createEscrow's self-heal path.
EscrowIsPaid == \A c \in escrow : Paid(c)

\* As long as nobody sends PAY or START by hand, a project that is in escrow or in
\* execution has its money held, through replacements, reassignments, repeated
\* webhooks and crashes, unless a worker account has been deleted.
ExecutionIsFunded ==
  ~forced /\ removed = {} /\ status \in {"active_escrow", "in_execution"} => contract.id \in escrow

\* Stripe is told that a payment was handled only when the money is held or the
\* contract it was for has been replaced: a webhook cut short is answered with an
\* error and comes again.
AnsweredIsHeld ==
  \A p \in IntentIds :
    intents[p].acked => \/ intents[p].contract \in escrow
                        \/ intents[p].contract # contract.id

\* The steps of a project's status the handlers may make.
LegalStatusSteps ==
  { <<t[1], t[3]>> : t \in Machine }
  \cup { <<"matched", "contract_signed">>,     \* first assignment
          <<"in_execution", "active_escrow">> } \* reassignment with escrow
  \cup (Statuses \ {"closing", "closed"}) \X {"closing"}

\* The status leaves the machine only through a write decided on a status that has
\* changed since: every handler that writes what it has just read is right.
IllegalStatusWritesAreStale ==
  [][ status' # status =>
        \/ <<status, status'>> \in LegalStatusSteps
        \/ \E r \in Requests : pc'[r] # pc[r] /\ loc[r].from # status ]_vars

\* A project whose phases are all completed, that is neither closing nor closed and
\* that no request is about to close.
Finished == HasPhases /\ AllCompleted
Closing(r) == pc[r] \in {"close.phases", "close.project", "close.save"}
LeftOpen ==
  Finished /\ status \notin {"closing", "closed"} /\ \A r \in Requests : ~Closing(r)

\* What the comment of PhasesService.maybeAdvanceProjectToClosing says ("when all
\* phases are completed, moves the project to closing"): a finished project is left
\* open only by a request cut short after its approval, or by a handler that writes
\* a status decided before the project closed.
FinishedClosesUnlessCut ==
  [][ ~LeftOpen /\ LeftOpen' =>
        \/ \E r \in Requests : Closing(r) /\ Fail(r)
        \/ status' # status /\ \E r \in Requests : pc'[r] # pc[r] /\ loc[r].from # status ]_vars

\* A payment that succeeded ends up held, unless the contract is replaced first,
\* although any delivery may crash or be refused half way.
PaidIsHeld ==
  \A c \in ContractIds : contract.id = c /\ Paid(c) ~> c \in escrow \/ contract.id # c

\* What payments.service.ts says of advanceProjectAfterEscrow ("may be called any
\* number of times without side effects"): a webhook that was already answered
\* starts no phase of a project whose work has begun, even when the status was
\* never set by hand.
RepeatedWebhookStartsNothing ==
  [][ \A r \in Requests :
        /\ pc[r] = "advance.phase" /\ pc'[r] # pc[r]
        /\ loc[r].hook # 0 /\ intents[loc[r].hook].acked
        /\ ~forced /\ ~NotStarted
        => phases' = phases ]_vars

\* What ContractsService.sign says ("only the assigned worker may sign").
SignedByAssignedWorker == contract.signedBy \in {NoWorker, contract.worker}

\* What createEscrow says it looks up before it creates a PaymentIntent: a client
\* pays a contract at most once.
ChargedOnce ==
  \A c \in ContractIds :
    Cardinality({p \in IntentIds : intents[p].contract = c
                                   /\ intents[p].state = "succeeded"}) <= 1
=============================================================================
