---------------------------- MODULE EscrowRelease ----------------------------
(***************************************************************************)
(* Releasing one escrow: PaymentsService.releaseEscrow, which checks the   *)
(* status, and StripeService.releaseSplitPayment, which transfers the      *)
(* worker's share, records two Payment rows and marks the escrow released. *)
(* The four steps are separate awaits and no transaction holds them        *)
(* together, so releases overlap and stop half way; what protects the      *)
(* money is the idempotency key of the transfer.                           *)
(***************************************************************************)
EXTENDS Integers

CONSTANTS Requests,     \* release requests that may be in flight at once
          Workers,
          NoWorker,
          Totals,       \* escrow amounts in cents the instance considers
          MaxReleases   \* bound: times Payment rows are written

ASSUME ReleaseAssumption ==
  /\ NoWorker \notin Workers
  /\ Totals \subseteq Nat
  /\ MaxReleases \in Nat

VARIABLES
  total,      \* EscrowTxn.amount in cents
  worker,     \* Contract.workerId
  connected,  \* workers with a stripeAccountId
  charged,    \* the escrow has its stripeSourceChargeId
  released,   \* EscrowTxn.status is 'released' (else 'held')
  transfer,   \* what Stripe keeps under the key worker_<escrowId>
  rows,       \* number of worker Payment rows per recipient and what they say
  pc, loc     \* per request: the await it stands at, the worker it read

vars == <<total, worker, connected, charged, released, transfer, rows, pc, loc>>

NoTransfer == [to |-> NoWorker, cents |-> 0]

\* Math.floor(totalCents * 0.7) in IEEE doubles.  The double 0.7 is below 7/10 by
\* 0.4 * 2^-53, so the product falls just short of an integer k = 7 * total / 10
\* and is rounded back to it only when half the gap between doubles below k is at
\* least the shortfall: with 2^e <= k < 2^(e+1), when 4 * (total / 10) <= 2^e.
\* Where 7 * total / 10 is no integer the error does not reach the floor.
RoundsDown(amount) ==
  /\ amount % 10 = 0
  /\ \E e \in 0..28 : /\ 2^e <= 7 * (amount \div 10)
                      /\ 7 * (amount \div 10) < 2 * 2^e
                      /\ 4 * (amount \div 10) > 2^e

\* Mutation: the share is rounded up instead of down.
WorkerCentsRounded(amount) == (7 * amount + 9) \div 10

WorkerCents(amount) == IF RoundsDown(amount) THEN (7 * amount) \div 10 - 1
                       ELSE (7 * amount) \div 10

PlatformCents(amount) == amount - WorkerCents(amount)

-----------------------------------------------------------------------------
Init ==
  /\ total \in Totals
  /\ worker \in Workers
  /\ connected \in SUBSET Workers
  /\ charged \in BOOLEAN
  /\ released = FALSE
  /\ transfer = NoTransfer
  /\ rows = [w \in Workers |-> [count |-> 0, worker |-> 0, platform |-> 0]]
  /\ pc = [r \in Requests |-> "idle"]
  /\ loc = [r \in Requests |-> NoWorker]

GoTo(r, at, w) == pc' = [pc EXCEPT ![r] = at] /\ loc' = [loc EXCEPT ![r] = w]

\* releaseEscrow: only a held escrow goes on.
CheckHeld(r) ==
  /\ pc[r] = "idle"
  /\ ~released
  /\ GoTo(r, "read", NoWorker)
  /\ UNCHANGED <<total, worker, connected, charged, released, transfer, rows>>

\* releaseSplitPayment reads the escrow again, with its contract and worker, but not
\* its status; it needs the worker's account and the charge.
ReadEscrow(r) ==
  /\ pc[r] = "read"
  /\ worker \in connected
  /\ charged
  /\ GoTo(r, "transfer", worker)
  /\ UNCHANGED <<total, worker, connected, charged, released, transfer, rows>>

\* Mutation: the transfer is created without an idempotency key.
StripeAcceptsAny(w) == TRUE

\* Stripe's side of an idempotency key: the first call makes the transfer, the same
\* call again returns it, a call with other parameters is refused.
StripeAccepts(w) == transfer = NoTransfer \/ transfer.to = w

\* The transfer is made and the call returns.
CreateTransfer(r) ==
  /\ pc[r] = "transfer"
  /\ StripeAccepts(loc[r])
  /\ transfer' = [to |-> loc[r], cents |-> WorkerCents(total)]
  /\ GoTo(r, "record", loc[r])
  /\ UNCHANGED <<total, worker, connected, charged, released, rows>>

\* The transfer is made, but the answer is lost and the call rejects.
LoseAnswer(r) ==
  /\ pc[r] = "transfer"
  /\ StripeAccepts(loc[r])
  /\ transfer' = [to |-> loc[r], cents |-> WorkerCents(total)]
  /\ GoTo(r, "idle", NoWorker)
  /\ UNCHANGED <<total, worker, connected, charged, released, rows>>

\* Mutation: the row names the contract's worker as it is by then.
RecordCurrentWorker(r) ==
  /\ pc[r] = "record"
  /\ rows[worker].count < MaxReleases
  /\ rows' = [rows EXCEPT ![worker] = [count |-> @.count + 1, worker |-> WorkerCents(total),
                                       platform |-> PlatformCents(total)]]
  /\ GoTo(r, "mark", loc[r])
  /\ UNCHANGED <<total, worker, connected, charged, released, transfer>>

\* payment.createMany: the worker's row and the platform's, in one statement.
RecordPayments(r) ==
  /\ pc[r] = "record"
  /\ rows[loc[r]].count < MaxReleases
  /\ rows' = [rows EXCEPT ![loc[r]] = [count |-> @.count + 1, worker |-> WorkerCents(total),
                                       platform |-> PlatformCents(total)]]
  /\ GoTo(r, "mark", loc[r])
  /\ UNCHANGED <<total, worker, connected, charged, released, transfer>>

MarkReleased(r) ==
  /\ pc[r] = "mark"
  /\ released' = TRUE
  /\ GoTo(r, "idle", NoWorker)
  /\ UNCHANGED <<total, worker, connected, charged, transfer, rows>>

\* Mutation: a failed release is put down as released, so nobody retries it.
FailReleased(r) ==
  /\ pc[r] # "idle"
  /\ released' = TRUE
  /\ GoTo(r, "idle", NoWorker)
  /\ UNCHANGED <<total, worker, connected, charged, transfer, rows>>

\* A check throws, a call rejects or the process dies: what is done stays done.
Fail(r) ==
  /\ pc[r] # "idle"
  /\ GoTo(r, "idle", NoWorker)
  /\ UNCHANGED <<total, worker, connected, charged, released, transfer, rows>>

-----------------------------------------------------------------------------
(* What other handlers change meanwhile.                                   *)

\* Mutation: the contract is taken from its worker in a write of its own.
ReassignInTwoWrites(w) ==
  /\ worker' \in {w, NoWorker}
  /\ UNCHANGED <<total, connected, charged, released, transfer, rows, pc, loc>>

\* ContractsService.create with an escrow gives the contract to another worker.
Reassign(w) ==
  /\ worker' = w
  /\ UNCHANGED <<total, connected, charged, released, transfer, rows, pc, loc>>

\* StripeService.createWorkerAccount.
Connect(w) ==
  /\ connected' = connected \cup {w}
  /\ UNCHANGED <<total, worker, charged, released, transfer, rows, pc, loc>>

\* activateEscrow adds the charge to an escrow that was created without it.
AddCharge ==
  /\ charged' = TRUE
  /\ UNCHANGED <<total, worker, connected, released, transfer, rows, pc, loc>>

Next ==
  \/ \E r \in Requests : \/ CheckHeld(r) \/ ReadEscrow(r)
                         \/ CreateTransfer(r) \/ LoseAnswer(r)
                         \/ RecordPayments(r) \/ MarkReleased(r) \/ Fail(r)
  \/ \E w \in Workers : Reassign(w) \/ Connect(w)
  \/ AddCharge

Spec == Init /\ [][Next]_vars

-----------------------------------------------------------------------------
(* Properties.                                                             *)

Row == [count : 0..MaxReleases, worker : Int, platform : Int]

\* The shape of the rows and of the requests in flight.
TypeOK ==
  /\ total \in Totals
  /\ worker \in Workers
  /\ connected \in SUBSET Workers
  /\ charged \in BOOLEAN
  /\ released \in BOOLEAN
  /\ transfer \in [to : Workers \cup {NoWorker}, cents : Int]
  /\ rows \in [Workers -> Row]
  /\ pc \in [Requests -> {"idle", "read", "transfer", "record", "mark"}]
  /\ loc \in [Requests -> Workers \cup {NoWorker}]

\* However releases overlap, fail, lose Stripe's answer or run across a reassignment
\* of the contract, the ledger credits nobody but the worker whose account Stripe paid.
LedgerNamesPayee == \A w \in Workers : rows[w].count > 0 => transfer.to = w

\* An escrow marked released has been transferred and is in the ledger: no order of
\* failures leaves it closed with the worker unpaid or the payment unrecorded.
ReleasedIsPaidAndRecorded ==
  released => transfer.to \in Workers /\ rows[transfer.to].count > 0

\* The rows of a release share out the escrow to the cent, and the worker's row,
\* which is what Stripe transferred, is at most two cents off seven tenths and
\* never above them.
SplitIsSound ==
  \A w \in Workers :
    rows[w].count > 0 =>
      /\ rows[w].worker = transfer.cents
      /\ rows[w].worker + rows[w].platform = total
      /\ 10 * rows[w].worker <= 7 * total
      /\ 7 * total < 10 * rows[w].worker + 20

\* Releasing implements PayOnce: the transfer is the payment, the status the closing.
Abstract == INSTANCE PayOnce WITH paidTo <- transfer.to, closed <- released
PaysOnce == Abstract!Spec

\* What the held check of releaseEscrow is for: one release, one payment in the
\* ledger that listWorkerPayments and getAdminPaymentStats read.
RecordedOnce == \A w \in Workers : rows[w].count <= 1
=============================================================================
