# A TLA+ model of OX Field Services

OX Field Services is a NestJS back end (`src/src`) over PostgreSQL (Prisma), Redis
(Bull queues and a cache), Stripe, Supabase (identities, files), TOConline (fiscal
documents) and HubSpot. Clients pay for field work, workers carry it out phase by
phase, inspectors review it, and admins release the money. This directory holds TLA+
modules of the parts where order matters, the TLC configurations that check them and
TLAPS proofs about them.

## How the code runs, and how it is modelled

Every handler is an `async` function in one Node process (or several). Between two
`await`s nothing else runs; at an `await` any other handler, a webhook or a queue job
may. Handlers read rows, decide, and write with unconditional updates by id
(`update({ where: { id } })`); few of them use a transaction, none a lock. Hence the
shape shared by all modules:

* a set `Requests` of slots, each one handler in flight; `pc[r]` is the await it stands
  at and `loc[r]` what it has read and will use afterwards;
* one action per stretch between awaits that matters: reads and the decisions they
  lead to, then each write. Consecutive reads are one action when no property can tell
  them apart;
* a Prisma `$transaction`, and a statement with its unique and foreign keys, is one
  step; a statement the database refuses throws, which is `Fail`;
* `Fail(r)` ends a request at any await and keeps what it wrote: a crash, a refused
  statement, a rejected call. A row in PostgreSQL survives, what `loc` holds does not;
* Stripe and the user are the environment.

## Inventory

| Component | State | Operations | Interacts through | What is hard | What makes it correct |
|---|---|---|---|---|---|
| project lifecycle (`projects`, `contracts`, `phases`, `inspector`, `payments`, `common/state-machine`) | project status, phase statuses, contract, escrow, intents | create, updateStatus, advanceStatusManual, contract create and sign, createEscrow, the Stripe webhook, phase updates and reviews, closing, deleteWorker | shared rows, Stripe webhooks, `contract.signed` events | nine handlers write the status of one row from snapshots; webhooks are lost, late and repeated; crashes half way | held money stays with its project; an escrow is paid; work is funded; the status follows its machine; a finished project closes |
| escrow release (`payments`, `stripe.service`) | escrow status, ledger rows, the transfer at Stripe | releaseEscrow, releaseSplitPayment | Stripe's idempotency keys, a reassignment of the contract | four awaits without a transaction; lost answers; overlapping releases; cents | one payment to one worker; ledger, status and split agree with the transfer |
| invoices (`payments/invoice.service`) | invoice status, number, link, total | create, edit, send, mark paid, cancel, delete, public payment, the removal of the project | Stripe webhook, e-mail, `invoice.*` events | status written from snapshots; edit racing send; numbers by lookup | a paid invoice has its money and keeps it but for stale writes and its project; the link asks for the total; one number, one invoice |
| fiscal documents (`toconline`) | document id, AT status, PDF | orchestrateFiscalFlow, retry, pull | events of the invoices, TOConline | retried with a stale snapshot, two triggers at once | one document per invoice |
| outgoing webhooks (`webhooks`) | endpoints, delivery rows, Bull jobs | dispatch, test, deactivate, deliver, retry | Bull, the receiver | row and job written apart, attempts counted from a snapshot, answers lost | bounded attempts, one carrier, a delivery ends |
| staffing (`assignments`, `matching`, `crews`, `phases`, `contracts`) | assignment rows, contract's worker, phases' workers | assign, unassign, matching, contract, a crew, edit of a phase, deletion of a worker | the project's contract, event `contract.*` | check then create; two statements of one removal; loops that stop half way | one active row a worker; phases name assigned workers; the lead has the contract |
| tools (`tools`) | tools, categories, checkouts, images | create, edit, image, delete, checkout, ask for return, confirm, force | admins against workers, Supabase storage | check then create; a delayed return; image and row apart | one open checkout a tool; a row's image is stored |
| signatures (`signatures`) | rows, drawings | create | storage, the signed entity | check, upload, create; the entity goes | nobody signs twice; a signature has its drawing |
| invites and accounts (`invites`, `auth`, `users`, `admin`) | users, stubs, profiles, invitations, project's client | sign in, register, convert, give, invite, redeem, revoke, delete | Supabase identities | take-over of stubs, redeeming twice, two systems | a project stays with its client; an account is whole |
| devices (`users`, `notifications`) | device tokens, legacy token | register, remove, clear, push | Firebase | a device changes hands in two statements | a logged-out device is silent |
| evidence and documents (`phases/evidence`, `documents`, `capture`, `projects/project-evidence`, `gallery`, `ai`) | objects, rows, captions and texts | upload, register, remove, phase changes, OCR and caption jobs | Supabase storage, Bull | two stores without a transaction; retried uploads; jobs that meet a removed row | a row has its object; one row a key |
| reports (`reports`) | report rows, jobs, files | request, run, fail, stall | Bull, storage | `onFailed` writes without being awaited | a link leads to a file; the row tells the end |
| timeline, access | merged events, cursor; who may see and act | page, list, open, comment, remove | every project service | rows change between pages and between the statements of a check; one condition written anew everywhere | nothing twice, nothing skipped; granted only on grounds that stood, not refused to whoever had them throughout |
| CRM and customer copies (`hubspot`, `stripe.service`) | ids of copies | sync company, contact, deal; customer, account, cards | HubSpot, Stripe, Bull | read, create there, store here | one copy a row; cards are found |
| notifications (`notifications`) | notification rows | 21 event listeners | `EventEmitter2`, Prisma's retry | rows read when the event is handled; groups that stop at a failure | everyone once, and the right worker |
| cache (`cache`) | Redis entries | cacheGet, invalidate | every list endpoint | a fill that started before an invalidation | no stale entry without a known reason |
| figures (`projects`, `payments/invoice.service`) | numbers, budgets, bills, ratings | number, split, total, rate | strings sorted as numbers, cents | lookup then insert; a rounding remainder | a sent number is unique; parts add up; the average is of the ratings |
| organisations (`crews`, `capture`, `auth`) | organisations, memberships | first write of an admin, sign-in | each other | look, then make | admins share one |

`PROJECT.json` lists the components with their sources and every hazard with its line.

## Modules

| Module | Models | Extends / uses |
|---|---|---|
| `ProjectLifecycle` | one project: status, phases, contract, escrow, PaymentIntents and every handler that writes them | |
| `MCProjectLifecycle` | its instances for TLC | `ProjectLifecycle` |
| `ProjectLifecycleProofs` | inductive invariant and theorems | `ProjectLifecycle` |
| `PayOnce` | what a release promises: pay once, one worker, close after paying | |
| `EscrowRelease` | `releaseEscrow` and `releaseSplitPayment`, implementing `PayOnce` | `PayOnce` by `INSTANCE` |
| `MCEscrowRelease` | its instances for TLC | `EscrowRelease` |
| `EscrowReleaseProofs` | inductive invariant, theorems, refinement | `EscrowRelease` |
| `Invoice` | one invoice: its row, Stripe's links and intents, edit, delete, send, pay, cancel | |
| `InvoiceProofs` | inductive invariant and theorems | `Invoice` |
| `FiscalDocuments` | the TOConline flows of that invoice, composed with its handlers | `Invoice` |
| `WebhookDelivery` | outgoing webhooks: delivery rows, Bull's jobs, the processor | |
| `MCInvoice`, `MCFiscalDocuments`, `MCWebhookDelivery` | their instances for TLC | `Invoice`, `FiscalDocuments`, `WebhookDelivery` |
| `FiscalDocumentsProofs`, `WebhookDeliveryProofs` | inductive invariants and theorems | `FiscalDocuments`, `WebhookDelivery` |
| `Staffing` | assignment rows, the contract's worker and the phases' workers of one project | |
| `Tools` | one tool: category, image, checkouts | |
| `Files` | one file of any kind: object, row, caption or text, the phase it belongs to | |
| `Access` | who is listed a project, opens it and acts on it, each check statement by statement | |
| `Timeline` | the merged timeline and its cursor while rows come and go | |
| `Lists` | one key of each of the four cached lists | |
| `Notices` | the listeners that create notifications, one event of any kind | |
| `Devices` | device tokens and whose pushes they get | |
| `Accounts` | people here and at Supabase, one project's client, its invitations | |
| `Organisations` | how the admins come to an organisation | |
| `Twins` | copies at HubSpot and Stripe and the ids that name them | |
| `Reports` | PDF reports: row, job, file | |
| `Ratings` | ratings of a worker and their average | |
| `Pricing` | numbers, budget split, fee and total of an invoice | |
| `Signatures` | drawn signatures of one entity | |
| `FieldWork` | the fifteen modules above side by side, and the questions asked of them | all of them |
| `MCFieldWork` | its instance for TLC | `FieldWork` |
| `RecordsProofs` | inductive invariants and theorems | `Files`, `Tools`, `Reports`, `Signatures`, `Lists`, `Twins` |
| `PeopleProofs` | inductive invariants and theorems | `Organisations`, `Staffing`, `Accounts`, `Access`, `Devices`, `Ratings` |
| `FieldWorkProofs` | inductive invariants of the other three, and the theorems about the whole | `FieldWork`, `RecordsProofs`, `PeopleProofs` |

## What is modelled how

**ProjectLifecycle.** `status`, `phases`, `contract` and `escrow` are the rows of one
project (`contract.id` numbers the contracts created one after the other, because
`ContractsService.create` deletes and recreates the row; `projectId` is unique, so there
is at most one). `intents` is Stripe's side: the state of each PaymentIntent and whether
its `payment_intent.succeeded` was answered 200. `signedBy` records who asked for the
signature that `signedAt` stands for, and `forced` whether PAY or START was ever sent by
hand; neither is in the code, both are history that only properties read.

* `AdvanceRead` to `AdvancePhase` are `advanceProjectAfterEscrow`: one snapshot, then up
  to three writes that walk on from it without reading again. It is called by the webhook,
  by the self-heal of `createEscrow` and by the listener of `contract.signed`.
* `HealFails` is the `catch` around the self-heal in `createEscrow`, which logs and goes
  on to create a new PaymentIntent.
* `Replace` carries the foreign key of `EscrowTxn` (`onDelete` is not declared, so it
  restricts) and the unique `projectId` as guards: the database refuses the delete of a
  contract that got its escrow after the snapshot.
* `AddPhase` appends (the default of `order`); with an explicit order the row would be
  inserted elsewhere, which only renames phases. `rejected` reviews go back to
  `in_progress`. `Worker.available` and roles take no transition away, since an admin may
  ask for each.

**EscrowRelease.** `transfer` is what Stripe keeps under the key `worker_<escrowId>`:
the first call makes the transfer, the same call again returns it, a call with another
account is refused. Stripe forgets keys after about a day; the model assumes that a
release is repeated sooner. `rows` counts the ledger entries per credited worker and
keeps their cents. `WorkerCents` is `Math.floor(totalCents * 0.7)` in IEEE doubles:
`RoundsDown` says for which amounts the product falls below the integer it should be
(90 cents give 62, not 63).

**Invoice.** `offers` is Stripe's side: payment links (which nobody has seen while they
are `made` and not stored in the row, and are a `link` then) and the intents of the public pay
page (`intent`). What happens to one is its `session`. An intent that is `paid`, and a link paid
at once, are reported by an event that leads to the invoice. A link paid by a delayed method is
first `completed`: its `checkout.session.completed` says `unpaid` and is ignored. When its money
arrives it is `silent`: the controller has no case for `async_payment_succeeded`, and the
`payment_intent.succeeded` that it does handle has no `invoiceId`, which only the link carries.
`Settled` and `Recordable` keep the two apart, so that a silent payment is answered 200 and not
recorded. `RemoveProject` is `DELETE /projects/:id` of a draft project, whose foreign key takes
the invoice along in any status; the handlers in flight find no row at their next write. `total`
stands for the items and the total made of them; how they are rounded is `Pricing`'s. A
payment link can be paid twice at Stripe; the second payment reaches the row like a
repeated webhook and is not modelled apart. The status `overdue` is never written by the
code. `cancelled` and `overlapped` are history.

**FiscalDocuments.** `ComposedNext` interleaves the handlers of `Invoice` with the flows:
`Emit` in `Invoice` leaves an event, `FlowStart` is its listener. A flow keeps only its
document and its try; try 0 is a call of an admin, `retryCommunicateToAT` or
`pullFiscalPdfFromToconline`, which ends where a flow of an event would go on. TOConline is
taken to be configured (otherwise every flow returns at once). `CreateDocument` and
`Communicate` may take effect and lose the answer. `excused` is history: it says that a
flow failed after it asked for a document or that two flows were between start and store
at once.

**WebhookDelivery.** A job carries only the id of its row, so the queue is a number of jobs
per delivery. The processor has `concurrency: 5` and may run in several processes. Bull
hands the job of a dead process out again, or fails it when it has stalled before. Delays
only order jobs and are left out. `faults` counts what went wrong, so that properties can
say what holds without faults and what holds in spite of them.

**Staffing.** A row is known by its worker and a copy number, because nothing in the schema
keeps a worker from two active rows. `excuse` is history: a check overtaken (`raced`), a
request cut between two statements (`cut`), a lead made by `assign` directly (`direct`), which
leaves the contract alone, and a contract written without its lead (`alone`). `ContractAlone` is
`POST /contracts`, after which the old lead still leads; `MatchingService` and `CrewsService`
go on from `ContractCreate` to `syncLeadWorkerFromContract`, a transaction whose reads see what
others have committed by then and whose writes are seen at its commit. A synchronisation that
runs to its end makes good what was `direct` or `alone`.

**Tools.** An upload replaces the image in four steps (upload, row, old object), a removal
purges it first. `lentTwice` says that two requests passed the check together, or that a
return asked for before a checkout was ended came after it: `requestReturn` reads the row and
writes `PENDING_RETURN` by id, so the ended checkout opens again.

**Files.** `kind` chooses phase evidence, project evidence or a document. The path of keyed
evidence is fixed by the key (`FixedPath`), other uploads have fresh paths (`OwnPath`). What an
app registers it stores itself: `AppStores` may come before or after or never, since nobody looks,
and the path may be any (`FreePath`), with the key in it or not. A row registered with nothing
stored is `bare`; two rows that name one path make the file `doubled`, since removing one takes
the object from the other. `DeleteUploader` is the deletion of a worker, which takes evidence
in any phase along, `DeleteProject` that of a draft project. Jobs
write the caption or text of whatever row is left.

**Access.** A request asks one of nine questions (to open the project, its timeline, reports,
gallery, a comment, to add evidence, the list, the recent images, the list of projects without a
contract) and reads, statement by statement as its service does, what the answer depends on:
the project and its contract, the worker with the tier, the assignment, the membership. In
between `WorldMoves` changes any of it. `had` and `held` remember what has been true at some
and at every moment of the request. `Ruled` names the answers that keep to no rule: anyone who is
no worker opens any project, any admin adds evidence to any project, and the list of projects
without a contract (`noContract=true`) offers a worker projects that do not open.

**Timeline.** A phase event is the earliest notification it was sent as, so deleting that one
changes the event's id. The next page starts after the event the cursor names, or nowhere if it is
gone. `tied` and `broken` are history for the two excuses of `PagesShowOnce`.

**Lists.** `rowsAt` is a version of the rows and `entry` the version in Redis. Changes that
invalidate go through `Announced`; those that do not (a contract, a rating, a new worker) are
`silent`. Entries may expire at any time and Redis may be unreachable.

**Notices.** Who is told is computed when the handler runs. `Create` may be repeated by
Prisma's retry of a broken connection (`repeated`); a failure ends the groups that follow.

**Devices, Accounts, Organisations.** Requests look and then write; `left`, `doubts` and
`atOnce` name the accounts or moments for which a promise ended because requests met or were
cut. Supabase's identities are the set `login`. In `Accounts`, a sync may ask for any role, a
project is registered for any account and given to any (`GiveProject`, `PATCH /projects/:id`),
whatever invitations are open. An admin's stub has the e-mail as it was typed: only `Addresses`,
which are lower case, can be signed in with, so a stub with another e-mail stays one. A worker or
inspector is deleted in two steps, the row and then the identity; an account whose identity is
gone is `lost`. `doubts` is `raced`, `cut`, or `given` when a project with an open invitation
was given to somebody else.

**Twins, Reports, Ratings.** A copy has a number in the order of its making; `twinned`,
`disturbed`, `untold` and `together` are the excuses. Bull runs a report twice at most and once
more when the process died under it.

**Pricing.** `Base` and `Width` stand for ten digits and three places, so that the string
order meets its limit within the bound. Amounts are integers of cents and the fee's percentage
is in hundredths. `Math.round` works on doubles: an exact half cent may come out below the half
(2.5 % of 403.00 is 10.07), so `Fee` gives both neighbours there. `RemoveWithProject` frees the
numbers of the invoices that go with a draft project, which are then given again (`withdrawn`).

**Signatures.** The path of a drawing is fresh, the row names its entity without a foreign key.
`crossed` are people with two requests past the check at once, `unsigned` the drawings whose
row was refused.

**Facts met while modelling** that no property states. The money of a payment link that is paid
by a delayed method is recorded by nothing: `checkout.session.completed` comes unpaid and is
ignored (`stripe-webhook.controller.ts:61`), there is no case for
`checkout.session.async_payment_succeeded`, and the `payment_intent.succeeded` of a link does not
name the invoice (`stripe.service.ts:344-361`); Stripe gets its 200 (`Deliver` of a `silent`
offer). The removal of a draft project (`projects.service.ts:883-903`) takes sent and paid
invoices along, by the cascade of the foreign key (`RemoveProject`, `RemoveWithProject`).
`POST /contracts` leaves the lead where a matching has put it (`ContractAlone`). The deletion of a
worker deletes the evidence of completed phases, too (`DeleteUploader`). Beyond number 999 the string order
makes 1000 the next number for ever, and every further invoice of the year is refused. A
customer deleted at Stripe is retrieved without an error and kept; an object deleted at
HubSpot makes every later update of it fail. The association of a contact with its company is
never repeated. A report whose job could not be queued stays `PENDING`. The removal of
evidence asks for the role of whoever uploaded it, not of the caller. A worker who is listed
projects without a contract is refused when opening one. The listeners of
`phase.rejected` and `payment.transferred` are never called.

## Runs

| Run | Shows | Bounds and why they are enough |
|---|---|---|
| `lifecycle` | all safety properties of the lifecycle, and that only a cut request or a stale write leaves a finished project open | two handlers in flight: every property relates one stale write to one other handler. Two contracts, so that one can be replaced; one intent, one phase, two workers, both of whose accounts can be deleted |
| `paid_is_held` | a payment that succeeded becomes an escrow | no phases: they do not occur in that path |
| `repeated_webhook` | a finding: a repeated webhook starts another phase | one handler at a time, two phases |
| `signature` | a finding: a signature lands on the next worker | two handlers |
| `charged_once` | a finding: two PaymentIntents for a contract are both paid | two handlers, two intents |
| `escrow_release` | one payment, and ledger, status and split agree with it; the refinement of `PayOnce` | two releases, two workers, amounts with whole and broken shares, two of them (90, 170) where floating point loses a cent, and the smallest charge |
| `recorded_once` | a finding: overlapping releases write the ledger twice | two releases |
| `invoice` | safety of one invoice, and that a payment which names it is recorded in the end | two handlers, two links or intents with two totals, so that an edit shows and a second payment can arrive; one event of each kind. `MCSpec` lets totals only grow, as they are compared and no more (309 196 states) |
| `paid_is_final` | a finding: an invoice leaves `paid` | two handlers, one link |
| `fiscal_documents` | columns, report and documents of one invoice | one handler and two flows, since an invoice has two events; two documents suffice to tell one from more; the tries are the code's three |
| `webhook_delivery` | rows, jobs and posts of one event for two endpoints | two workers, two endpoints, one fault; two attempts instead of five: the last one and one before it |
| `field_work` | the fifteen components around the project, side by side | see below (about 783 000 states, three minutes) |

The five findings (`PROJECT.json`) are runs that TLC refutes: each states what a comment
or an error message of the code says.

**Fairness** (`FairSpec` of each module, `FairFiscalSpec`). For `PaidIsHeld`: Weak fairness of each request once it
is in flight: every awaited call resolves or rejects, as Node runs every callback and all
clients have timeouts. Strong fairness of `Redelivery`: Stripe sends an event again until
it is answered 200. Strong fairness of `ActivateEscrow`: a delivery may crash any number
of times, but not every time at the same statement. No fairness is assumed of users.
`PaymentIsRecorded` uses the same three, with `PaySave` as the statement. `FlowsEnd` needs
only weak fairness of a flow in progress. `DeliveryEnds` takes weak fairness of a worker
with a job and strong fairness of `Take`: Bull hands every waiting job to a free worker
at some time.

**`field_work`.** The fifteen modules share no variable: where one reads a row that another
writes, it has the writer's step as an action of its own. So `FieldWorkSpec` is the
conjunction of their specifications, in which they move as they like, also at once; the theorems
are about it. The run (`MCSpec`) lets one of them move per behaviour (`part`) and keeps the others in an initial state, which explores each
exactly as a run of its own would. Every property of the run holds in every reachable state
of the part it speaks of:

| Property | Its parts | What it says |
|---|---|---|
| `TypesOK` | the type of each module | shapes |
| `StaffingAgrees` | `OneActiveRow`, `PhaseWorkerIsAssigned`, `LeadHasTheContract` | assignments, phases and contract name the same staff |
| `ToolsAgree` | `OneOpenCheckout`, `ToolImageExists` | one worker has a tool; its image is stored |
| `StoredFilesAgree` | `RecordHasObject`, `OneRecordPerKey`, `LinkHasFile`, `RowTellsTheEnd`, `SignedOnce`, `DrawingHasRow` | rows and objects of files, reports and signatures agree |
| `CachedIsCurrent` | | a cached list is the list of the rows |
| `AccessAgrees` | `AnswersAreRight` | every check and list keeps to one rule while rows move |
| `PagesShowOnce` | | paging shows nothing twice and skips nothing |
| `PeopleAgree` | `ClientKeepsProject`, `AccountIsWhole`, `OneOrganisation` | people, their project and their organisation |
| `NoticesAreRight` | `NoticeOnce`, `EveryoneIsTold`, `TheRightWorker` | who is told, how often, of what |
| `LoggedOutIsSilent` | | pushes follow logins |
| `TwinsAgree` | `OneTwin`, `CardsAreFound` | one copy a row, and cards on it |
| `FiguresAgree` | `RatingsAgree`, `SentNumberIsUnique`, `NextIsFree`, `PhasesAddUp`, `BillAddsUp` | figures |

Each module's excuses are history variables set exactly where the code leaves a window, and
are themselves what a reader learns: the property holds in all other cases, and the window
itself, which nothing in the code closes, stays open. The notes of the hazards in `PROJECT.json`
say which windows these are. Two requests everywhere but in `Access`, whose requests do not meet: each property relates one stale write to one other handler. Two workers,
accounts, copies or devices tell "the same" from "another"; three ids make a page, an event on
it and one after it. The bounds of the instance (`StaffingBound`, `ToolBound`, `FileBound`,
`DeviceBound`, `AccountBound`, `TwinBound`, `RatingBound`, `PriceBound`) stop a component once
its excuse holds, where its properties say nothing more, and leave out combinations of two
things that do not meet: a path an app has chosen is registered only where the key could have
been in it (`FileBound`), only one worker is assigned, given a tier or made a member, beside a
second who leads (`AccessBound`), invitations are made for one real account while the others are
stubs or clients (`AccountBound`), and budgets and bills are drawn up while there are no
numbers (`PriceBound`). The proofs need none of these bounds. Requests and workers are
interchangeable (`Symmetry`).
No fairness is assumed: the run checks safety only.

`CHECK_DEADLOCK FALSE` stands in the configurations of the lifecycle, the invoice, the flows,
the webhooks and the field work because a closed project, a cancelled invoice, a settled
delivery or a component with its bounds used up, or a reader at the last page, rests. `EscrowRelease` never rests.

## Proofs

The proofs hold for every number of requests, workers, phases, contracts and intents and
every amount, from the constants' assumptions alone.

*Lifecycle.* The safety properties are not inductive: that `Replace` cannot cut off an
escrow is plain, but that `ActivateEscrow` creates one only for a paid contract depends on
what its request has seen. `IInv` therefore adds `RequestOK(pc[r], loc[r])`, what a
request may rely on at each await: at `escrow.activate` an intent of the contract in hand
has succeeded, at `advance.pay` the contract in hand has its escrow or is gone, and so on.
These facts survive the steps of others because contracts only grow newer, an intent that
succeeded stays so and an escrow disappears only with its worker: that is the action
`Keeps`, and lemma `OthersOK` derives every other request's facts from it once for all.
`RowsOK` says how rows and intents refer to one another. Then each action has a lemma and
each theorem is a consequence. `StatusFollowsMachine` follows from the invariant by a case
split on who writes the status.

*Invoice.* `LinkAsksTotal` says nothing of a request that has read the items and not yet
stored its link, nor of what an edit may do to it; `RequestOK` does: a request at
`send.link` or `send.save` holds the current total, or an edit overlapped it. `Apart` says
that each new link is in the hands of one request, so that storing one does not touch
another's. `PaidLeftByStale` needs only that every handler which writes the status has
refused a paid invoice at its read, and that `RemoveProject` is no request's step. The proof again has a lemma per action; `Quiet` serves
all that only move a request.

*Release.* `IInv` says which worker a request holds at each await and that the transfer,
once made, names it. The refinement is by cases: `CreateTransfer` and `LoseAnswer` are
`Pay` or a stutter, `MarkReleased` is `Close`.

*Fiscal documents.* The flows read of the invoice only whether it exists and how many events
there were, so `FInv` speaks of the flows alone and the handlers of `Invoice` keep it at once.
`Basic` says what a flow has in hand at each await, whatever fails: from `store` on a document
that exists, at `at.save` a reported one. `Orderly` is `ColumnsAgree` made inductive: until a
flow loses its document or two overlap, at most one flow is between start and store, while it is
the row has no document, and every document there is is its own or the stored one. Lemmas
`MoveKeepsOrder` and `SearchKeepsOrder` serve the actions that leave it alone.

*Webhooks.* `Base` holds in spite of every fault: what a worker has in hand was read with an
attempt left, and what it is about to save was accepted. `Tidy` holds until the first fault: a
delivery is untouched until its dispatch has queued it, then it is one job or in one worker's
hands (`OnePlace`), and what that worker read is what the row says (`InHand`), which is why
counting on from the snapshot is right. The dispatch needs its own fact, that of the endpoints
it has yet to serve at most one has its row (`Dispatched`). Steps that fail make `Tidy` vacuous,
so only the others are looked at; cardinalities come in at the very end.

*Field work.* Each of the fifteen modules has an inductive invariant of its own, which adds to
the type and the promise what the requests on their way know; the theorems about
`FieldWorkSpec` follow from those of the parts they name, because the
specification of the whole implies each component's, and an invariant speaks of its own
component's variables alone. What each adds:

| Module | Besides its promise the invariant says |
|---|---|
| `Staffing` | a request that stands at an await holds a worker and a row of that worker (`StaffKnows`); a phase whose worker has no row is about to be cleared (`PhasesAreStaffed`); at most one contract waits for its lead, and until then the leads may differ unless a contract was written `alone` (`PendingIsOne`, `LeadIsContracts`) |
| `Tools` | an image that is stored and not saved is no other request's to remove (`ImageIsFresh`); a row whose image is gone has a request that will write it (`ImageIsThere`) |
| `Files` | a row to come has an id nobody has, and its object is stored unless it is bare or its path `doubled` (`RowIsNew`, `RequestIsAbout`); whoever removes a row takes the path it names (`RowIsKnown`); a row names its own path or the app's, and a path names one row unless `doubled` (`RowsAreNamed`, `RowsAreOne`) |
| `Reports` | an unfinished job has an attempt left and failures bound the late writes of `FAILED` (`AttemptsAreLeft`); past the upload the file is there (`FileIsStored`); until a rerun disturbs it nothing is to come after the write of `COMPLETED` (`UndisturbedIsLast`) |
| `Signatures` | past the check a person is alone or `crossed` (`PastIsAlone`); whoever has uploaded holds the drawing (`HasDrawing`) |
| `Lists` | nothing: `CachedIsCurrent` is inductive with the types |
| `Twins` | from the read of an empty id to its save one request is on its way and its copy is the first; afterwards everyone has read that id (`FirstTwin`) |
| `Organisations` | until two found at once, there is one organisation at most and whoever is to found one has found none (`FoundedOnce`) |
| `Accounts` | what a sync decided fits the account it read (`Decided`, `WorkIsKnown`); an invitation that is redeemed is that of the account read as long as it is open (`RedeemStands`), and an open one is the owner's (`OpenIsTheOwners`); a deletion is of no stub (`DeletingStands`); a missing profile or row is on its way (`ProfilesFollow`, `LoginsHaveRows`) |
| `Access` | what a request has read was true at some moment, and what it may still read is framed by what was true at some moment and all the time (`AskIsSound`); at each await, what it has passed and was there throughout has been read (`AskIsAt`, `HasRead`) |
| `Devices` | what a request relies on between its two statements (`RequestsRely`) |
| `Ratings` | an average in hand is of committed rows and the own (`OpenHasRead`), alone of all of them (`AloneHasReadAll`) |
| `Pricing` | a number is sent once, unless the sent invoice that had it has been `withdrawn` (`NumbersAreSentOnce`) |
| `Notices` | groups begun are groups told, but for the creations under way (`Counted`) |
| `Timeline` | what was shown stands before the cursor's event, what is due behind it (`ReadSoFar`) |

Three of them need mathematics that the library does not have ready. `SortsAfter`, `First` and
`FreshId` choose a least or greatest number: `LeastNumber` finds one in any set of naturals,
finite or not, from the well-foundedness of inclusion on finite sets, since induction itself is
out of reach. `EventList` chooses a sorted list: `SortedExists` shows that every finite set with
a total order has one, by the smallest subset that has none, whose last element (`LastExists`)
can be appended to the list of the others. `NoticesAreRight` counts groups with `Cardinality`, so
`AmongOneMore` relates the count to the next group. `PhasesAddUp` and `BillAddsUp` are proved for
all amounts from Euclid's division (`Division`).

*Closing.* `FinishedClosesUnlessCut` follows from the lifecycle's invariant and from
`StatusWrites`. When the status stays (`ClosersClose`), a step that finishes the last phase puts its
request on the way to the check, and a closer that runs on finds the phases still completed and
writes `closing`; so only `Fail` ends one. When the status is written (`LegalWritesClose`), the only
step out of `closing` or `closed` that the machine has leads to `closed`.

**Assumptions.** Each module names what it assumes of its constants. The less obvious ones:
`PaddedAssumption` says that `Padded`, a power, is a natural number, because the provers have no
rule for exponents. `StaffingAssumption` has finitely many workers, so that a crew is a
list of them. `AccessAssumption` keeps the value for "nobody" apart from accounts, and
`NoticesAssumption` gives an account one role, as the column `role` of `User` does: a worker is
no client and no admin. TLC evaluates all of them on the instances.

**Only model-checked:** the liveness properties `PaidIsHeld`, `PaymentIsRecorded`, `FlowsEnd`
and `DeliveryEnds`, which rest on fairness and are out of the proof system's reach, and the five
refuted statements, which are counterexamples. Every invariant and every action property of
the passing runs is a theorem.

## Plan

Done: the lifecycle and the release of its money, invoices and their fiscal documents,
outgoing webhooks, and the components around the project. What is left, in the order of what
it would add:

1. Staffing composed with `ProjectLifecycle`, of which it now has the contract's worker only:
   the deletion of a worker and the replacement of a contract are steps of both.
2. An abstract specification of a cached list (a register that may be read late) and the
   refinement from `Lists`; the same for a delivery that happens at least once and
   `WebhookDelivery`.
3. Liveness of the report and copy queues.

## Not modelled

Controllers, DTOs, guards and module wiring (routing and validation); the wording of
notifications and mails and the signals that only make an app reload; layout of reports and
fiscal documents; listings, statistics and dashboards; gallery links and likes, the edit of
crews, names, avatars, comments, skills and templates (single statements on one row); the public
portal, which reads; the OAuth token of TOConline; notes and field mappings of HubSpot; the
request to the captioning model; the conversion of a drawing to PNG; seeds and migrations.
They keep no state of their own, are pure input and output, or change one row in one statement.
Authentication is taken as given: who may call a handler is part of its guard only where an
answer depends on it.
