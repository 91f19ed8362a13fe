------------------------------- MODULE Invoice -------------------------------
(***************************************************************************)
(* One invoice: InvoiceService over its row, Stripe's payment links and    *)
(* intents for it, and the webhook that reports a payment.  Handlers check *)
(* the status they read and later write the row by id, as everywhere in    *)
(* this code, so edits, sends, payments, cancellations and deletions of    *)
(* one invoice overlap at every await.                                     *)
(***************************************************************************)
EXTENDS Naturals, FiniteSets

CONSTANTS Requests,   \* handler activations that may be in flight at once
          Totals,     \* amounts the items of the invoice can add up to
          MaxOffers,  \* bound: payment links and intents created at Stripe
          MaxEvents   \* bound: invoice events of one kind emitted

ASSUME InvoiceAssumption ==
  Totals \subseteq Nat \ {0} /\ Totals # {} /\ MaxOffers \in Nat /\ MaxEvents \in Nat

OfferIds == 1..MaxOffers
Triggers == {"sent", "paid"}

VARIABLES
  status,     \* Invoice.status, "none" when the row is deleted
  total,      \* Invoice.totalAmount, with the items it is made of
  link,       \* the offer behind stripePaymentLinkUrl, 0 for null
  paidBy,     \* the offer behind stripePaymentIntentId, 0 for null
  offers,     \* what the client can pay at Stripe, and what Stripe reports of it
  emitted,    \* how often invoice.sent and invoice.paid have been emitted
  cancelled,  \* history: the invoice was cancelled at some time
  overlapped, \* history: an edit of the draft was saved while or after it was sent
  pc, loc     \* per request: the await it stands at and what it has read

row  == <<status, total, link, paidBy>>
vars == <<status, total, link, paidBy, offers, emitted, cancelled, overlapped, pc, loc>>

NoOffer == [amount |-> 0, session |-> "none", acked |-> FALSE]
Nothing == [from |-> "none", total |-> 0, offer |-> 0]

GoTo(r, at, l) == /\ pc'  = [pc  EXCEPT ![r] = at]
                  /\ loc' = [loc EXCEPT ![r] = l]

\* A new payment link, which nobody has seen yet, or a new intent, whose secret the
\* client gets, asks for an amount.
Offer(o, amount, session) ==
  /\ offers[o] = NoOffer
  /\ \A q \in OfferIds : q < o => offers[q] # NoOffer
  /\ offers' = [offers EXCEPT ![o] = [NoOffer EXCEPT !.amount = amount, !.session = session]]

Emit(trigger) ==
  /\ emitted[trigger] < MaxEvents
  /\ emitted' = [emitted EXCEPT ![trigger] = @ + 1]

\* createInvoice leaves a draft.
Init ==
  /\ status = "draft"
  /\ total \in Totals
  /\ link = 0
  /\ paidBy = 0
  /\ offers = [o \in OfferIds |-> NoOffer]
  /\ emitted = [t \in Triggers |-> 0]
  /\ cancelled = FALSE
  /\ overlapped = FALSE
  /\ pc = [r \in Requests |-> "idle"]
  /\ loc = [r \in Requests |-> Nothing]

\* Mutation: the webhook controller catches every exception and answers 200.
FailAnswered(r) ==
  /\ pc[r] # "idle"
  /\ offers' = IF pc[r] \in {"pay.save", "pay.emit"}
               THEN [offers EXCEPT ![loc[r].offer].acked = TRUE] ELSE offers
  /\ GoTo(r, "idle", Nothing)
  /\ UNCHANGED <<row, emitted, cancelled, overlapped>>

\* A statement is refused, a call rejects or the process dies.
Fail(r) ==
  /\ pc[r] # "idle"
  /\ GoTo(r, "idle", Nothing)
  /\ UNCHANGED <<row, offers, emitted, cancelled, overlapped>>

-----------------------------------------------------------------------------
(* Editing and deleting a draft.                                           *)

Sending == \E r \in Requests : pc[r] \in {"send.link", "send.save"}

\* Mutation: a sent invoice may be edited.
EditReadSent(r) ==
  /\ pc[r] = "idle"
  /\ status \in {"draft", "sent"}
  /\ \E t \in Totals : GoTo(r, "edit.save", [Nothing EXCEPT !.from = status, !.total = t])
  /\ UNCHANGED <<row, offers, emitted, cancelled, overlapped>>

\* updateDraftInvoice up to its transaction: the new items, or the old ones summed
\* again, make the new total.
EditRead(r) ==
  /\ pc[r] = "idle"
  /\ status = "draft"
  /\ \E t \in Totals : GoTo(r, "edit.save", [Nothing EXCEPT !.from = status, !.total = t])
  /\ UNCHANGED <<row, offers, emitted, cancelled, overlapped>>

EditSave(r) ==
  /\ pc[r] = "edit.save"
  /\ status # "none"
  /\ total' = loc[r].total
  /\ overlapped' = (overlapped \/ (loc[r].from = "draft" /\ (status # "draft" \/ Sending)))
  /\ GoTo(r, "idle", Nothing)
  /\ UNCHANGED <<status, link, paidBy, offers, emitted, cancelled>>

DeleteRead(r) ==
  /\ pc[r] = "idle"
  /\ status = "draft"
  /\ GoTo(r, "delete.save", [Nothing EXCEPT !.from = status])
  /\ UNCHANGED <<row, offers, emitted, cancelled, overlapped>>

DeleteSave(r) ==
  /\ pc[r] = "delete.save"
  /\ status # "none"
  /\ status' = "none"
  /\ GoTo(r, "idle", Nothing)
  /\ UNCHANGED <<total, link, paidBy, offers, emitted, cancelled, overlapped>>

-----------------------------------------------------------------------------
(* Sending it.                                                             *)

\* An invoice that is sent and has its link is only mailed again: no step.
SendRead(r) ==
  /\ pc[r] = "idle"
  /\ status \notin {"none", "paid", "cancelled"}
  /\ ~(status = "sent" /\ link # 0)
  /\ GoTo(r, "send.link", [Nothing EXCEPT !.from = status, !.total = total])
  /\ UNCHANGED <<row, offers, emitted, cancelled, overlapped>>

\* createPaymentLink: the lines of the snapshot, adjusted to its total.
SendCreateLink(r, o) ==
  /\ pc[r] = "send.link"
  /\ Offer(o, loc[r].total, "made")
  /\ GoTo(r, "send.save", [loc[r] EXCEPT !.offer = o])
  /\ UNCHANGED <<row, emitted, cancelled, overlapped>>

SendSave(r) ==
  /\ pc[r] = "send.save"
  /\ status # "none"
  /\ status' = "sent"
  /\ link' = loc[r].offer
  /\ offers' = [offers EXCEPT ![loc[r].offer].session = "link"]
  /\ GoTo(r, "send.mail", loc[r])
  /\ UNCHANGED <<total, paidBy, emitted, cancelled, overlapped>>

\* The e-mail has gone out; invoice.sent is the last thing the handler does.
SendEmit(r) ==
  /\ pc[r] = "send.mail"
  /\ Emit("sent")
  /\ GoTo(r, "idle", Nothing)
  /\ UNCHANGED <<row, offers, cancelled, overlapped>>

-----------------------------------------------------------------------------
(* Paying it.                                                              *)

\* createPublicPaymentIntent, for the pay page behind the mailed link.
PublicRead(r) ==
  /\ pc[r] = "idle"
  /\ status \notin {"none", "paid", "draft", "cancelled"}
  /\ GoTo(r, "public.create", [Nothing EXCEPT !.from = status, !.total = total])
  /\ UNCHANGED <<row, offers, emitted, cancelled, overlapped>>

PublicCreate(r, o) ==
  /\ pc[r] = "public.create"
  /\ Offer(o, loc[r].total, "intent")
  /\ GoTo(r, "idle", Nothing)
  /\ UNCHANGED <<row, emitted, cancelled, overlapped>>

\* What the client does at Stripe.  A payment over a link by a delayed method completes
\* the checkout unpaid, and its money is silent: the link's intent, which is reported
\* when the money arrives, does not carry the invoice.  A link takes another payment, and
\* nothing withdraws an offer: a cancelled invoice can still be paid.
Progress == {<<"link", "completed">>, <<"link", "paid">>, <<"completed", "silent">>,
             <<"completed", "paid">>, <<"silent", "paid">>,
             <<"intent", "paid">>}
Checkout(o) ==
  /\ \E p \in Progress :
       /\ offers[o].session = p[1]
       /\ offers' = [offers EXCEPT ![o].session = p[2], ![o].acked = FALSE]
  /\ UNCHANGED <<row, emitted, cancelled, overlapped, pc, loc>>

\* Mutation: the handler does not look at the payment_status of the session.
Reported(o) == offers[o].session \in {"completed", "silent", "paid"}

\* Stripe reports that money has arrived: checkout.session.completed with payment_status
\* paid, or payment_intent.succeeded.
Settled(o) == offers[o].session \in {"silent", "paid"}

\* The report leads to the invoice, by the metadata of the link or of the intent, and
\* markAsPaid has something to record.
Recordable(o) == offers[o].session # "silent" /\ status \notin {"none", "paid", "cancelled"}

\* Mutation: the controller answers without awaiting markAsPaid.
DeliverUnawaited(r, o) ==
  /\ pc[r] = "idle"
  /\ Settled(o)
  /\ offers' = [offers EXCEPT ![o].acked = TRUE]
  /\ IF Recordable(o)
     THEN GoTo(r, "pay.save", [Nothing EXCEPT !.from = status, !.offer = o])
     ELSE UNCHANGED <<pc, loc>>
  /\ UNCHANGED <<row, emitted, cancelled, overlapped>>

\* The webhook arrives, the first time or again, and markAsPaid reads the row.
Deliver(r, o) ==
  /\ pc[r] = "idle"
  /\ Settled(o)
  /\ \/ /\ ~Recordable(o)
        /\ offers' = [offers EXCEPT ![o].acked = TRUE]
        /\ UNCHANGED <<pc, loc>>
     \/ /\ Recordable(o)
        /\ GoTo(r, "pay.save", [Nothing EXCEPT !.from = status, !.offer = o])
        /\ UNCHANGED offers
  /\ UNCHANGED <<row, emitted, cancelled, overlapped>>

PaySave(r) ==
  /\ pc[r] = "pay.save"
  /\ status # "none"
  /\ status' = "paid"
  /\ paidBy' = loc[r].offer
  /\ GoTo(r, "pay.emit", loc[r])
  /\ UNCHANGED <<total, link, offers, emitted, cancelled, overlapped>>

\* The lists are invalidated, invoice.paid is emitted and Stripe answered.
PayEmit(r) ==
  /\ pc[r] = "pay.emit"
  /\ Emit("paid")
  /\ offers' = [offers EXCEPT ![loc[r].offer].acked = TRUE]
  /\ GoTo(r, "idle", Nothing)
  /\ UNCHANGED <<row, cancelled, overlapped>>

-----------------------------------------------------------------------------
(* Cancelling it.                                                          *)

\* Mutation: the check forgets that an invoice can be paid.
CancelReadAny(r) ==
  /\ pc[r] = "idle"
  /\ status # "none"
  /\ GoTo(r, "cancel.save", [Nothing EXCEPT !.from = status])
  /\ UNCHANGED <<row, offers, emitted, cancelled, overlapped>>

CancelRead(r) ==
  /\ pc[r] = "idle"
  /\ status \notin {"none", "paid"}
  /\ GoTo(r, "cancel.save", [Nothing EXCEPT !.from = status])
  /\ UNCHANGED <<row, offers, emitted, cancelled, overlapped>>

\* Mutation: the status is spelt as Stripe spells it.
CancelSaveAsStripe(r) ==
  /\ pc[r] = "cancel.save"
  /\ status # "none"
  /\ status' = "canceled"
  /\ cancelled' = TRUE
  /\ GoTo(r, "idle", Nothing)
  /\ UNCHANGED <<total, link, paidBy, offers, emitted, overlapped>>

CancelSave(r) ==
  /\ pc[r] = "cancel.save"
  /\ status # "none"
  /\ status' = "cancelled"
  /\ cancelled' = TRUE
  /\ GoTo(r, "idle", Nothing)
  /\ UNCHANGED <<total, link, paidBy, offers, emitted, overlapped>>

-----------------------------------------------------------------------------
(* Removing its project.                                                   *)

\* ProjectsService.remove deletes a project that it read as a draft, and the foreign key
\* takes the invoices with it, whatever their status.  Nothing ties an invoice to the
\* status of its project, and an edit moves it to any project, so at every moment the
\* project may be one that a removal has read as a draft.
RemoveProject ==
  /\ status # "none"
  /\ status' = "none"
  /\ UNCHANGED <<total, link, paidBy, offers, emitted, cancelled, overlapped, pc, loc>>

-----------------------------------------------------------------------------
EditStep(r)   == EditRead(r) \/ EditSave(r) \/ DeleteRead(r) \/ DeleteSave(r)
SendStep(r)   == \/ SendRead(r) \/ SendSave(r) \/ SendEmit(r)
                 \/ \E o \in OfferIds : SendCreateLink(r, o)
PayStep(r)    == \/ PublicRead(r) \/ PaySave(r) \/ PayEmit(r)
                 \/ \E o \in OfferIds : PublicCreate(r, o) \/ Deliver(r, o)
CancelStep(r) == CancelRead(r) \/ CancelSave(r)

RequestStep(r) == EditStep(r) \/ SendStep(r) \/ PayStep(r) \/ CancelStep(r) \/ Fail(r)

Next == \/ \E r \in Requests : RequestStep(r)
        \/ \E o \in OfferIds : Checkout(o)
        \/ RemoveProject

Spec == Init /\ [][Next]_vars

\* As in ProjectLifecycle: awaits end, Stripe repeats what was not answered 200, and
\* a repeated webhook is not cut short for ever.
Redelivery(o) == ~offers[o].acked /\ \E r \in Requests : Deliver(r, o)
Fairness ==
  /\ \A r \in Requests : /\ WF_vars(pc[r] # "idle" /\ RequestStep(r))
                         /\ SF_vars(PaySave(r))
  /\ \A o \in OfferIds : SF_vars(Redelivery(o))

FairSpec == Spec /\ Fairness

-----------------------------------------------------------------------------
(* Properties.                                                             *)

Statuses == {"none", "draft", "sent", "paid", "cancelled"}
Awaits == {"idle", "edit.save", "delete.save", "send.link", "send.save", "send.mail",
           "public.create", "pay.save", "pay.emit", "cancel.save"}
OfferRow == [amount : Totals \cup {0}, acked : BOOLEAN,
             session : {"none", "made", "link", "intent", "completed", "silent", "paid"}]
Memory == [from : Statuses, total : Totals \cup {0}, offer : 0..MaxOffers]

\* The shape of the row, of Stripe's records and of the requests in flight.
TypeOK ==
  /\ status \in Statuses
  /\ total \in Totals
  /\ link \in 0..MaxOffers
  /\ paidBy \in 0..MaxOffers
  /\ offers \in [OfferIds -> OfferRow]
  /\ emitted \in [Triggers -> 0..MaxEvents]
  /\ cancelled \in BOOLEAN
  /\ overlapped \in BOOLEAN
  /\ pc \in [Requests -> Awaits]
  /\ loc \in [Requests -> Memory]

\* An invoice that is paid, or ever was, has been paid: the money of the offer its
\* row names has arrived.  Webhooks of sessions that are only completed, late ones
\* and repeated ones make no payment.
PaidIsSettled ==
  /\ status = "paid" => paidBy # 0
  /\ paidBy # 0 => offers[paidBy].session = "paid"

\* The invoice says by what it was paid, or is past paying.
Accounted == paidBy # 0 \/ cancelled \/ status = "none"

\* Stripe is told that a payment was handled only when the row says by what it was
\* paid, or the invoice had been cancelled or deleted: a webhook cut short comes again.
\* The delayed payment of a link is the exception: the event that reports it does not name
\* the invoice.
AnsweredIsRecorded ==
  (\E o \in OfferIds : offers[o].acked /\ offers[o].session # "silent") => Accounted

\* The link of an invoice that has gone out asks for its total, unless the edit of the
\* draft overlapped the sending: there is no other way to bill an amount that the
\* invoice does not show.
LinkAsksTotal ==
  status \in {"sent", "paid"} /\ ~overlapped => link # 0 /\ offers[link].amount = total

\* An invoice leaves paid only through a write decided before it was paid, or with its
\* project: no other way to lose a payment that was recorded.
PaidLeftByStaleWrites ==
  [][ status = "paid" /\ status' # "paid" =>
        \/ \E r \in Requests : pc'[r] # pc[r] /\ loc[r].from # "paid"
        \/ status' = "none" /\ UNCHANGED <<pc, paidBy, offers>> ]_vars

\* A payment that the invoice can be found by is recorded, unless the invoice was cancelled
\* or deleted: deliveries may be lost, crash or overlap with edits and sends.
PaymentIsRecorded ==
  \A o \in OfferIds : offers[o].session = "paid" ~> Accounted

\* What sendInvoice and cancelInvoice say ("invoice is already paid", "a paid invoice
\* cannot be cancelled"): while its row is there, paid is final.
PaidIsFinal == [][ status = "paid" => status' \in {"paid", "none"} ]_vars
=============================================================================
