----------------------------- MODULE InvoiceProofs -----------------------------
(***************************************************************************)
(* Proofs about Invoice: its invariants and its action property, for any   *)
(* number of requests, offers and amounts.                                 *)
(*                                                                         *)
(* The inductive invariant adds to the types what holds of the row and of  *)
(* Stripe's offers (RowOK), what a request at an await may rely on         *)
(* (RequestOK) and that no two requests are about to store one payment     *)
(* link (Apart).                                                           *)
(***************************************************************************)
EXTENDS Invoice, TLAPS

\* The amount behind a link is the total of the invoice, unless an edit overlapped.
RowOK ==
  /\ status = "draft" => link = 0
  /\ status = "cancelled" => cancelled
  /\ status \in {"sent", "paid"} => link # 0
  /\ \A o \in OfferIds : offers[o].session \notin {"none", "made"} => link # 0
  /\ link # 0 => offers[link].session # "none"
  /\ link # 0 => overlapped \/ offers[link].amount = total
  /\ PaidIsSettled
  /\ AnsweredIsRecorded

\* The awaits of a handler that will write the status and has refused a paid invoice.
UnpaidAwaits == {"delete.save", "send.link", "send.save", "pay.save", "cancel.save"}

\* What holds of a request at the await `at` that has read l.
RequestOK(at, l) ==
  /\ at = "edit.save" => l.from = "draft" /\ l.total \in Totals
  /\ at \in UnpaidAwaits => l.from # "paid"
  /\ at \in {"send.link", "send.save"} => overlapped \/ l.total = total
  /\ at = "send.save" => /\ l.offer \in OfferIds
                         /\ offers[l.offer].session = "made"
                         /\ offers[l.offer].amount = l.total
  /\ at = "public.create" => link # 0
  /\ at = "pay.save" => l.offer \in OfferIds /\ offers[l.offer].session = "paid"
  /\ at = "pay.emit" => paidBy # 0 /\ l.offer \in OfferIds

\* Each payment link is in the hands of one request.
Apart ==
  \A r, q \in Requests :
    pc[r] = "send.save" /\ pc[q] = "send.save" /\ loc[r].offer = loc[q].offer => r = q

IInv == TypeOK /\ RowOK /\ Apart /\ \A r \in Requests : RequestOK(pc[r], loc[r])

-----------------------------------------------------------------------------
\* What no step undoes for a request that waits at the await `at` with l.
Keeps(at, l) ==
  /\ overlapped => overlapped'
  /\ link # 0 => link' # 0
  /\ paidBy # 0 => paidBy' # 0
  /\ \A o \in OfferIds : offers[o].session = "paid" => offers'[o].session = "paid"
  /\ at = "send.save" => /\ offers'[l.offer].session = offers[l.offer].session
                         /\ offers'[l.offer].amount = offers[l.offer].amount
  /\ at \in {"send.link", "send.save"} => overlapped' \/ total' = total

\* A step of one request leaves what every other request relies on.
LEMMA OthersOK ==
  ASSUME IInv, NEW r \in Requests,
         \A q \in Requests \ {r} : /\ pc'[q] = pc[q] /\ loc'[q] = loc[q]
                                   /\ Keeps(pc[q], loc[q]),
         RequestOK(pc[r], loc[r])'
  PROVE  \A q \in Requests : RequestOK(pc[q], loc[q])'
<1> SUFFICES ASSUME NEW q \in Requests, q # r PROVE RequestOK(pc[q], loc[q])'
  OBVIOUS
<1>1. /\ RequestOK(pc[q], loc[q]) /\ Keeps(pc[q], loc[q])
      /\ pc'[q] = pc[q] /\ loc'[q] = loc[q]
  BY DEF IInv
<1>2. QED
  BY <1>1 DEF RequestOK, Keeps

\* Where GoTo takes a request.
LEMMA Moved ==
  ASSUME IInv, NEW r \in Requests, NEW at \in Awaits, NEW l \in Memory, GoTo(r, at, l)
  PROVE  /\ pc' \in [Requests -> Awaits] /\ loc' \in [Requests -> Memory]
         /\ pc'[r] = at /\ loc'[r] = l
         /\ \A q \in Requests \ {r} : pc'[q] = pc[q] /\ loc'[q] = loc[q]
  BY DEF IInv, TypeOK, GoTo

LEMMA NothingTyped ==
  /\ Nothing \in Memory
  /\ NoOffer \in OfferRow
  /\ \A o \in OfferIds : o \in 0..MaxOffers /\ o # 0
  /\ 0 \notin Totals
  BY InvoiceAssumption DEF Nothing, Memory, NoOffer, OfferRow, OfferIds, Statuses

\* A request that moves to an await at which no link is in its hands keeps links apart.
LEMMA StaysApart ==
  ASSUME IInv, NEW r \in Requests, pc'[r] # "send.save",
         \A q \in Requests \ {r} : pc'[q] = pc[q] /\ loc'[q] = loc[q]
  PROVE  Apart'
  BY DEF IInv, Apart

\* A step that only moves a request.
LEMMA Quiet ==
  ASSUME IInv, NEW r \in Requests, NEW at \in Awaits \ {"send.save"}, NEW l \in Memory,
         GoTo(r, at, l), UNCHANGED <<row, offers, cancelled, overlapped>>,
         emitted' \in [Triggers -> 0..MaxEvents], RequestOK(at, l)
  PROVE  IInv'
<1>1. TypeOK'
  BY Moved DEF IInv, TypeOK, row
<1>2. RequestOK(pc[r], loc[r])'
  BY Moved DEF RequestOK, row
<1>3. \A q \in Requests : RequestOK(pc[q], loc[q])'
  BY <1>2, Moved, OthersOK DEF Keeps, row
<1>4. Apart'
  BY Moved, StaysApart
<1>5. RowOK'
  BY DEF IInv, RowOK, PaidIsSettled, AnsweredIsRecorded, Accounted, row
<1>6. QED
  BY <1>1, <1>3, <1>4, <1>5 DEF IInv

-----------------------------------------------------------------------------
(* One lemma per action.                                                   *)

LEMMA FailOK == ASSUME IInv, NEW r \in Requests, Fail(r) PROVE IInv'
<1>1. RequestOK("idle", Nothing)
  BY DEF RequestOK, UnpaidAwaits
<1>2. QED
  BY <1>1, Quiet, NothingTyped DEF Fail, Awaits, IInv, TypeOK

LEMMA ReadsOK ==
  ASSUME IInv, NEW r \in Requests,
         EditRead(r) \/ DeleteRead(r) \/ SendRead(r) \/ PublicRead(r) \/ CancelRead(r)
  PROVE  IInv'
<1> DEFINE From(l) == [l EXCEPT !.from = status]
<1>1. /\ emitted' \in [Triggers -> 0..MaxEvents] /\ status \in Statuses /\ total \in Totals
      /\ UNCHANGED <<row, offers, cancelled, overlapped>>
  BY DEF IInv, TypeOK, EditRead, DeleteRead, SendRead, PublicRead, CancelRead
<1>2. CASE EditRead(r)
  <2>1. PICK t \in Totals : GoTo(r, "edit.save", [Nothing EXCEPT !.from = status, !.total = t])
    BY <1>2 DEF EditRead
  <2>2. [Nothing EXCEPT !.from = status, !.total = t] \in Memory
    BY <1>1, NothingTyped DEF Memory
  <2>3. RequestOK("edit.save", [Nothing EXCEPT !.from = status, !.total = t])
    BY <1>2 DEF RequestOK, UnpaidAwaits, EditRead, Nothing
  <2>4. QED
    BY <1>1, <2>1, <2>2, <2>3, Quiet DEF Awaits
<1>3. CASE DeleteRead(r)
  <2>1. [Nothing EXCEPT !.from = status] \in Memory
    BY <1>1, NothingTyped DEF Memory
  <2>2. RequestOK("delete.save", [Nothing EXCEPT !.from = status])
    BY <1>3 DEF RequestOK, UnpaidAwaits, DeleteRead, Nothing
  <2>3. QED
    BY <1>1, <1>3, <2>1, <2>2, Quiet DEF Awaits, DeleteRead
<1>4. CASE SendRead(r)
  <2>1. [Nothing EXCEPT !.from = status, !.total = total] \in Memory
    BY <1>1, NothingTyped DEF Memory
  <2>2. RequestOK("send.link", [Nothing EXCEPT !.from = status, !.total = total])
    BY <1>4 DEF RequestOK, UnpaidAwaits, SendRead, Nothing
  <2>3. QED
    BY <1>1, <1>4, <2>1, <2>2, Quiet DEF Awaits, SendRead
<1>5. CASE PublicRead(r)
  <2>1. [Nothing EXCEPT !.from = status, !.total = total] \in Memory
    BY <1>1, NothingTyped DEF Memory
  <2>2. link # 0
    BY <1>1, <1>5 DEF IInv, RowOK, PublicRead, Statuses
  <2>3. RequestOK("public.create", [Nothing EXCEPT !.from = status, !.total = total])
    BY <2>2 DEF RequestOK, UnpaidAwaits, Nothing
  <2>4. QED
    BY <1>1, <1>5, <2>1, <2>3, Quiet DEF Awaits, PublicRead
<1>6. CASE CancelRead(r)
  <2>1. [Nothing EXCEPT !.from = status] \in Memory
    BY <1>1, NothingTyped DEF Memory
  <2>2. RequestOK("cancel.save", [Nothing EXCEPT !.from = status])
    BY <1>6 DEF RequestOK, UnpaidAwaits, CancelRead, Nothing
  <2>3. QED
    BY <1>1, <1>6, <2>1, <2>2, Quiet DEF Awaits, CancelRead
<1>7. QED
  BY <1>2, <1>3, <1>4, <1>5, <1>6

LEMMA EditSaveOK == ASSUME IInv, NEW r \in Requests, EditSave(r) PROVE IInv'
<1>1. /\ GoTo(r, "idle", Nothing) /\ "idle" \in Awaits
      /\ UNCHANGED <<status, link, paidBy, offers, emitted, cancelled>>
      /\ loc[r].from = "draft" /\ total' = loc[r].total /\ total' \in Totals
      /\ overlapped' = (overlapped \/ status # "draft" \/ Sending)
  BY DEF EditSave, IInv, RequestOK, Awaits
<1>2. TypeOK'
  BY <1>1, Moved, NothingTyped DEF IInv, TypeOK
<1>3. ASSUME NEW q \in Requests \ {r} PROVE Keeps(pc[q], loc[q])
  BY <1>1 DEF Keeps, Sending
<1>4. RequestOK(pc[r], loc[r])'
  BY <1>1, Moved, NothingTyped DEF RequestOK, UnpaidAwaits
<1>5. \A q \in Requests : RequestOK(pc[q], loc[q])'
  BY <1>1, <1>3, <1>4, Moved, NothingTyped, OthersOK
<1>6. Apart'
  BY <1>1, Moved, NothingTyped, StaysApart
<1>7. RowOK'
  BY <1>1 DEF IInv, RowOK, PaidIsSettled, AnsweredIsRecorded, Accounted
<1>8. QED
  BY <1>2, <1>5, <1>6, <1>7 DEF IInv

LEMMA DeleteSaveOK == ASSUME IInv, NEW r \in Requests, DeleteSave(r) PROVE IInv'
<1>1. /\ GoTo(r, "idle", Nothing) /\ "idle" \in Awaits /\ status' = "none"
      /\ UNCHANGED <<total, link, paidBy, offers, emitted, cancelled, overlapped>>
  BY DEF DeleteSave, Awaits
<1>2. TypeOK'
  BY <1>1, Moved, NothingTyped DEF IInv, TypeOK, Statuses
<1>3. \A q \in Requests : RequestOK(pc[q], loc[q])'
  BY <1>1, Moved, NothingTyped, OthersOK DEF RequestOK, UnpaidAwaits, Keeps
<1>4. Apart'
  BY <1>1, Moved, NothingTyped, StaysApart
<1>5. RowOK'
  BY <1>1 DEF IInv, RowOK, PaidIsSettled, AnsweredIsRecorded, Accounted
<1>6. QED
  BY <1>2, <1>3, <1>4, <1>5 DEF IInv

LEMMA CancelSaveOK == ASSUME IInv, NEW r \in Requests, CancelSave(r) PROVE IInv'
<1>1. /\ GoTo(r, "idle", Nothing) /\ "idle" \in Awaits
      /\ status' = "cancelled" /\ cancelled' = TRUE
      /\ UNCHANGED <<total, link, paidBy, offers, emitted, overlapped>>
  BY DEF CancelSave, Awaits
<1>2. TypeOK'
  BY <1>1, Moved, NothingTyped DEF IInv, TypeOK, Statuses
<1>3. \A q \in Requests : RequestOK(pc[q], loc[q])'
  BY <1>1, Moved, NothingTyped, OthersOK DEF RequestOK, UnpaidAwaits, Keeps
<1>4. Apart'
  BY <1>1, Moved, NothingTyped, StaysApart
<1>5. RowOK'
  BY <1>1 DEF IInv, RowOK, PaidIsSettled, AnsweredIsRecorded, Accounted
<1>6. QED
  BY <1>2, <1>3, <1>4, <1>5 DEF IInv

\* What creating an offer does to the offers.
LEMMA Offered ==
  ASSUME IInv, NEW o \in OfferIds, NEW amount \in Totals \cup {0},
         NEW session \in {"made", "intent"}, Offer(o, amount, session)
  PROVE  /\ offers' \in [OfferIds -> OfferRow]
         /\ offers[o].session = "none" /\ ~offers[o].acked
         /\ offers'[o].session = session /\ offers'[o].amount = amount /\ ~offers'[o].acked
         /\ \A p \in OfferIds \ {o} : offers'[p] = offers[p]
<1>1. [NoOffer EXCEPT !.amount = amount, !.session = session] \in OfferRow
  BY DEF NoOffer, OfferRow
<1>2. QED
  BY <1>1 DEF Offer, IInv, TypeOK, NoOffer

LEMMA SendCreateLinkOK ==
  ASSUME IInv, NEW r \in Requests, NEW o \in OfferIds, SendCreateLink(r, o) PROVE IInv'
<1> DEFINE l == [loc[r] EXCEPT !.offer = o]
<1>1. /\ pc[r] = "send.link" /\ loc[r] \in Memory /\ RequestOK(pc[r], loc[r])
      /\ Offer(o, loc[r].total, "made") /\ GoTo(r, "send.save", l)
      /\ UNCHANGED <<row, emitted, cancelled, overlapped>>
  BY DEF SendCreateLink, IInv, TypeOK
<1>2. l \in Memory /\ l.offer = o /\ l.from = loc[r].from /\ l.total = loc[r].total
  BY <1>1, NothingTyped DEF Memory
<1>3. /\ pc' \in [Requests -> Awaits] /\ loc' \in [Requests -> Memory]
      /\ pc'[r] = "send.save" /\ loc'[r] = l
      /\ \A q \in Requests \ {r} : pc'[q] = pc[q] /\ loc'[q] = loc[q]
  BY <1>1, <1>2, Moved DEF Awaits
<1>4. /\ offers' \in [OfferIds -> OfferRow]
      /\ offers[o].session = "none"
      /\ offers'[o].session = "made" /\ offers'[o].amount = loc[r].total /\ ~offers'[o].acked
      /\ \A p \in OfferIds \ {o} : offers'[p] = offers[p]
  BY <1>1, Offered DEF Memory
<1>5. TypeOK'
  BY <1>1, <1>3, <1>4 DEF IInv, TypeOK, row
<1>6. \A q \in Requests : pc[q] = "send.save" => loc[q].offer # o /\ loc[q].offer \in OfferIds
  BY <1>4 DEF IInv, RequestOK
<1>7. RequestOK(pc[r], loc[r])'
  BY <1>1, <1>2, <1>3, <1>4 DEF RequestOK, UnpaidAwaits, row
<1>8. ASSUME NEW q \in Requests \ {r} PROVE Keeps(pc[q], loc[q])
  BY <1>1, <1>4, <1>6 DEF Keeps, row
<1>9. \A q \in Requests : RequestOK(pc[q], loc[q])'
  BY <1>3, <1>7, <1>8, OthersOK
<1>10. Apart'
  <2>1. \A q \in Requests \ {r} : pc'[q] = "send.save" => loc'[q].offer # o
    BY <1>3, <1>6
  <2>2. loc'[r].offer = o
    BY <1>2, <1>3
  <2>3. SUFFICES ASSUME NEW p \in Requests, NEW q \in Requests, p # q,
                        pc'[p] = "send.save", pc'[q] = "send.save", loc'[p].offer = loc'[q].offer
                 PROVE  FALSE
    BY DEF Apart
  <2>4. p # r /\ q # r
    BY <2>1, <2>2, <2>3
  <2>5. QED
    BY <1>3, <2>3, <2>4 DEF IInv, Apart
<1>11. RowOK'
  BY <1>1, <1>4, NothingTyped DEF IInv, TypeOK, RowOK, PaidIsSettled, AnsweredIsRecorded,
     Accounted, row,
     OfferIds
<1>12. QED
  BY <1>5, <1>9, <1>10, <1>11 DEF IInv

LEMMA PublicCreateOK ==
  ASSUME IInv, NEW r \in Requests, NEW o \in OfferIds, PublicCreate(r, o) PROVE IInv'
<1>1. /\ pc[r] = "public.create" /\ loc[r] \in Memory /\ link # 0
      /\ Offer(o, loc[r].total, "intent") /\ GoTo(r, "idle", Nothing)
      /\ UNCHANGED <<row, emitted, cancelled, overlapped>>
  BY DEF PublicCreate, IInv, TypeOK, RequestOK
<1>2. /\ pc' \in [Requests -> Awaits] /\ loc' \in [Requests -> Memory]
      /\ pc'[r] = "idle" /\ loc'[r] = Nothing
      /\ \A q \in Requests \ {r} : pc'[q] = pc[q] /\ loc'[q] = loc[q]
  BY <1>1, Moved, NothingTyped DEF Awaits
<1>3. /\ offers' \in [OfferIds -> OfferRow]
      /\ offers[o].session = "none"
      /\ offers'[o].session = "intent" /\ ~offers'[o].acked
      /\ \A p \in OfferIds \ {o} : offers'[p] = offers[p]
  BY <1>1, Offered DEF Memory
<1>4. TypeOK'
  BY <1>1, <1>2, <1>3 DEF IInv, TypeOK, row
<1>5. ASSUME NEW q \in Requests \ {r} PROVE Keeps(pc[q], loc[q])
  BY <1>1, <1>3 DEF IInv, RequestOK, Keeps, row
<1>6. \A q \in Requests : RequestOK(pc[q], loc[q])'
  BY <1>2, <1>5, OthersOK DEF RequestOK, UnpaidAwaits
<1>7. Apart'
  BY <1>2, StaysApart
<1>8. RowOK'
  BY <1>1, <1>3, NothingTyped DEF IInv, TypeOK, RowOK, PaidIsSettled, AnsweredIsRecorded,
     Accounted, row,
     OfferIds
<1>9. QED
  BY <1>4, <1>6, <1>7, <1>8 DEF IInv

LEMMA SendSaveOK == ASSUME IInv, NEW r \in Requests, SendSave(r) PROVE IInv'
<1> DEFINE o == loc[r].offer
<1>1. /\ pc[r] = "send.save" /\ loc[r] \in Memory /\ GoTo(r, "send.mail", loc[r])
      /\ status # "none" /\ status' = "sent" /\ link' = o
      /\ offers' = [offers EXCEPT ![o].session = "link"]
      /\ UNCHANGED <<total, paidBy, emitted, cancelled, overlapped>>
  BY DEF SendSave, IInv, TypeOK
<1>2. /\ o \in OfferIds /\ o \in 0..MaxOffers /\ o # 0 /\ offers[o].session = "made"
      /\ overlapped \/ offers[o].amount = total
  BY <1>1, NothingTyped DEF IInv, RequestOK
<1>3. /\ offers' \in [OfferIds -> OfferRow]
      /\ offers'[o].session = "link" /\ offers'[o].amount = offers[o].amount
      /\ offers'[o].acked = offers[o].acked
      /\ \A p \in OfferIds \ {o} : offers'[p] = offers[p]
  BY <1>1, <1>2 DEF IInv, TypeOK, OfferRow
<1>4. /\ pc' \in [Requests -> Awaits] /\ loc' \in [Requests -> Memory]
      /\ pc'[r] = "send.mail" /\ loc'[r] = loc[r]
      /\ \A q \in Requests \ {r} : pc'[q] = pc[q] /\ loc'[q] = loc[q]
  BY <1>1, Moved DEF Awaits
<1>5. TypeOK'
  BY <1>1, <1>2, <1>3, <1>4 DEF IInv, TypeOK, Statuses
<1>6. ASSUME NEW q \in Requests \ {r} PROVE Keeps(pc[q], loc[q])
  <2>1. pc[q] = "send.save" => loc[q].offer \in OfferIds \ {o}
    BY <1>1 DEF IInv, RequestOK, Apart
  <2>2. QED
    BY <1>1, <1>2, <1>3, <2>1 DEF Keeps
<1>7. \A q \in Requests : RequestOK(pc[q], loc[q])'
  BY <1>4, <1>6, OthersOK DEF RequestOK, UnpaidAwaits
<1>8. Apart'
  BY <1>4, StaysApart
<1>9. RowOK'
  BY <1>1, <1>2, <1>3, NothingTyped DEF IInv, TypeOK, RowOK, PaidIsSettled, AnsweredIsRecorded,
     Accounted,
     OfferIds
<1>10. QED
  BY <1>5, <1>7, <1>8, <1>9 DEF IInv

LEMMA SendEmitOK == ASSUME IInv, NEW r \in Requests, SendEmit(r) PROVE IInv'
<1>1. emitted' \in [Triggers -> 0..MaxEvents]
  BY InvoiceAssumption DEF SendEmit, Emit, IInv, TypeOK, Triggers
<1>2. RequestOK("idle", Nothing)
  BY DEF RequestOK, UnpaidAwaits
<1>3. QED
  BY <1>1, <1>2, Quiet, NothingTyped DEF SendEmit, Awaits

LEMMA CheckoutOK == ASSUME IInv, NEW o \in OfferIds, Checkout(o) PROVE IInv'
<1> DEFINE s == offers'[o].session
<1>1. /\ offers[o].session \in {"link", "intent", "completed", "silent"}
      /\ s \in {"completed", "silent", "paid"}
      /\ offers' = [offers EXCEPT ![o].session = s, ![o].acked = FALSE]
  <2>1. \A p \in Progress : /\ p[1] \in {"link", "intent", "completed", "silent"}
                            /\ p[2] \in {"completed", "silent", "paid"}
    BY DEF Progress
  <2>2. PICK p \in Progress :
          /\ offers[o].session = p[1]
          /\ offers' = [offers EXCEPT ![o].session = p[2], ![o].acked = FALSE]
    BY Zenon DEF Checkout
  <2>3. s = p[2]
    BY <2>2 DEF IInv, TypeOK, OfferRow
  <2>4. QED
    BY <2>1, <2>2, <2>3
<1>2. /\ offers' \in [OfferIds -> OfferRow]
      /\ offers'[o].session = s /\ offers'[o].amount = offers[o].amount
      /\ ~offers'[o].acked
      /\ \A p \in OfferIds \ {o} : offers'[p] = offers[p]
  BY <1>1 DEF IInv, TypeOK, OfferRow
<1>3. UNCHANGED <<row, emitted, cancelled, overlapped, pc, loc>>
  BY DEF Checkout
<1>4. TypeOK'
  BY <1>2, <1>3 DEF IInv, TypeOK, row
<1>5. ASSUME NEW q \in Requests PROVE RequestOK(pc[q], loc[q])'
  BY <1>1, <1>2, <1>3 DEF IInv, RequestOK, row
<1>6. Apart'
  BY <1>3 DEF IInv, Apart
<1>7. RowOK'
  <2>1. PaidIsSettled' /\ AnsweredIsRecorded'
    BY <1>1, <1>2, <1>3 DEF IInv, RowOK, PaidIsSettled, AnsweredIsRecorded, Accounted, row,
       TypeOK, OfferIds
  <2>2. \A p \in OfferIds : offers'[p].session \notin {"none", "made"} => link # 0
    BY <1>1, <1>2, <1>3 DEF IInv, RowOK
  <2>3. link # 0 => link \in OfferIds
    BY InvoiceAssumption DEF IInv, TypeOK, OfferIds
  <2>4. link # 0 => /\ offers'[link].session # "none"
                    /\ overlapped \/ offers'[link].amount = total
    BY <1>1, <1>2, <2>3 DEF IInv, RowOK
  <2>5. QED
    BY <1>3, <2>1, <2>2, <2>4 DEF IInv, RowOK, row
<1>8. QED
  BY <1>4, <1>5, <1>6, <1>7 DEF IInv

\* What answering the webhook of a paid offer does to the offers.
LEMMA Acked ==
  ASSUME IInv, NEW o \in OfferIds, offers' = [offers EXCEPT ![o].acked = TRUE]
  PROVE  /\ offers' \in [OfferIds -> OfferRow]
         /\ \A p \in OfferIds : /\ offers'[p].session = offers[p].session
                               /\ offers'[p].amount = offers[p].amount
  BY DEF IInv, TypeOK, OfferRow

LEMMA DeliverOK ==
  ASSUME IInv, NEW r \in Requests, NEW o \in OfferIds, Deliver(r, o) PROVE IInv'
<1>1. /\ offers[o].session \in {"silent", "paid"} /\ status \in Statuses
      /\ UNCHANGED <<row, emitted, cancelled, overlapped>>
  BY DEF Deliver, Settled, IInv, TypeOK
<1>2. CASE ~Recordable(o)
  <2>1. offers' = [offers EXCEPT ![o].acked = TRUE] /\ UNCHANGED <<pc, loc>>
    BY <1>2 DEF Deliver
  <2>2. TypeOK'
    BY <1>1, <2>1, Acked DEF IInv, TypeOK, row
  <2>3. ASSUME NEW q \in Requests PROVE RequestOK(pc[q], loc[q])'
    BY <1>1, <2>1, Acked DEF IInv, RequestOK, row
  <2>4. Apart'
    BY <2>1 DEF IInv, Apart
  <2>5. RowOK'
    <3>1. offers[o].session = "silent" \/ Accounted
      BY <1>1, <1>2 DEF Recordable, IInv, RowOK, PaidIsSettled, Accounted
    <3>2. \A p \in OfferIds \ {o} : offers'[p].acked = offers[p].acked
      BY <2>1 DEF IInv, TypeOK
    <3>3. AnsweredIsRecorded'
      BY <1>1, <2>1, <3>1, <3>2, Acked DEF IInv, RowOK, AnsweredIsRecorded, Accounted, row
    <3>4. QED
      BY <1>1, <2>1, <3>3, Acked, NothingTyped DEF IInv, TypeOK, RowOK, PaidIsSettled, row, OfferIds
  <2>6. QED
    BY <2>2, <2>3, <2>4, <2>5 DEF IInv
<1>3. CASE Recordable(o)
  <2> DEFINE l == [Nothing EXCEPT !.from = status, !.offer = o]
  <2>1. GoTo(r, "pay.save", l) /\ UNCHANGED offers
    BY <1>3 DEF Deliver
  <2>2. l \in Memory /\ l.from = status /\ l.offer = o
    BY <1>1, NothingTyped DEF Memory, Nothing
  <2>3. RequestOK("pay.save", l)
    BY <1>1, <1>3, <2>2 DEF RequestOK, UnpaidAwaits, Recordable
  <2>4. emitted' \in [Triggers -> 0..MaxEvents]
    BY <1>1 DEF IInv, TypeOK
  <2>5. QED
    BY <1>1, <2>1, <2>2, <2>3, <2>4, Quiet DEF Awaits
<1>4. QED
  BY <1>2, <1>3

\* The row goes with its project; whoever waits finds none to write.
LEMMA RemoveProjectOK == ASSUME IInv, RemoveProject PROVE IInv'
<1>1. /\ status' = "none"
      /\ UNCHANGED <<total, link, paidBy, offers, emitted, cancelled, overlapped, pc, loc>>
  BY DEF RemoveProject
<1>2. TypeOK'
  BY <1>1 DEF IInv, TypeOK, Statuses
<1>3. \A q \in Requests : RequestOK(pc[q], loc[q])'
  BY <1>1 DEF IInv, RequestOK
<1>4. Apart' /\ RowOK'
  BY <1>1 DEF IInv, Apart, RowOK, PaidIsSettled, AnsweredIsRecorded, Accounted
<1>5. QED
  BY <1>2, <1>3, <1>4 DEF IInv

LEMMA PaySaveOK == ASSUME IInv, NEW r \in Requests, PaySave(r) PROVE IInv'
<1> DEFINE o == loc[r].offer
<1>1. /\ pc[r] = "pay.save" /\ loc[r] \in Memory /\ GoTo(r, "pay.emit", loc[r])
      /\ status' = "paid" /\ paidBy' = o
      /\ UNCHANGED <<total, link, offers, emitted, cancelled, overlapped>>
  BY DEF PaySave, IInv, TypeOK
<1>2. o \in OfferIds /\ o \in 0..MaxOffers /\ o # 0 /\ offers[o].session = "paid"
  BY <1>1, NothingTyped DEF IInv, RequestOK
<1>3. /\ pc' \in [Requests -> Awaits] /\ loc' \in [Requests -> Memory]
      /\ pc'[r] = "pay.emit" /\ loc'[r] = loc[r]
      /\ \A q \in Requests \ {r} : pc'[q] = pc[q] /\ loc'[q] = loc[q]
  BY <1>1, Moved DEF Awaits
<1>4. TypeOK'
  BY <1>1, <1>2, <1>3 DEF IInv, TypeOK, Statuses
<1>5. RequestOK(pc[r], loc[r])'
  BY <1>1, <1>2, <1>3 DEF RequestOK, UnpaidAwaits
<1>6. \A q \in Requests : RequestOK(pc[q], loc[q])'
  BY <1>1, <1>2, <1>3, <1>5, OthersOK DEF Keeps
<1>7. Apart'
  BY <1>3, StaysApart
<1>8. RowOK'
  BY <1>1, <1>2 DEF IInv, RowOK, PaidIsSettled, AnsweredIsRecorded, Accounted
<1>9. QED
  BY <1>4, <1>6, <1>7, <1>8 DEF IInv

LEMMA PayEmitOK == ASSUME IInv, NEW r \in Requests, PayEmit(r) PROVE IInv'
<1>1. /\ pc[r] = "pay.emit" /\ loc[r].offer \in OfferIds /\ paidBy # 0
      /\ offers' = [offers EXCEPT ![loc[r].offer].acked = TRUE]
      /\ GoTo(r, "idle", Nothing) /\ UNCHANGED <<row, cancelled, overlapped>>
  BY DEF PayEmit, IInv, RequestOK
<1>2. emitted' \in [Triggers -> 0..MaxEvents]
  BY InvoiceAssumption DEF PayEmit, Emit, IInv, TypeOK, Triggers
<1>3. /\ offers' \in [OfferIds -> OfferRow]
      /\ \A p \in OfferIds : /\ offers'[p].session = offers[p].session
                            /\ offers'[p].amount = offers[p].amount
  BY <1>1, Acked
<1>4. /\ pc' \in [Requests -> Awaits] /\ loc' \in [Requests -> Memory]
      /\ pc'[r] = "idle" /\ loc'[r] = Nothing
      /\ \A q \in Requests \ {r} : pc'[q] = pc[q] /\ loc'[q] = loc[q]
  BY <1>1, Moved, NothingTyped DEF Awaits
<1>5. TypeOK'
  BY <1>1, <1>2, <1>3, <1>4 DEF IInv, TypeOK, row
<1>6. ASSUME NEW q \in Requests \ {r} PROVE Keeps(pc[q], loc[q])
  BY <1>1, <1>3 DEF IInv, RequestOK, Keeps, row
<1>7. \A q \in Requests : RequestOK(pc[q], loc[q])'
  BY <1>4, <1>6, OthersOK DEF RequestOK, UnpaidAwaits
<1>8. Apart'
  BY <1>4, StaysApart
<1>9. RowOK'
  <2>1. AnsweredIsRecorded'
    BY <1>1 DEF AnsweredIsRecorded, Accounted, row
  <2>2. QED
    BY <1>1, <1>3, <2>1, NothingTyped DEF IInv, TypeOK, RowOK, PaidIsSettled, row, OfferIds
<1>10. QED
  BY <1>5, <1>7, <1>8, <1>9 DEF IInv

-----------------------------------------------------------------------------
(* The theorems.                                                           *)

\* The row, the offers and the requests of an invoice satisfy the inductive invariant.
THEOREM InvariantHolds == Spec => []IInv
<1>1. Init => IInv
  <2> SUFFICES ASSUME Init PROVE IInv
    OBVIOUS
  <2>1. TypeOK
    <3>1. 0 \in 0..MaxEvents /\ 0 \in 0..MaxOffers /\ "idle" \in Awaits
      BY InvoiceAssumption DEF Awaits
    <3>2. /\ status \in Statuses /\ total \in Totals
          /\ link \in 0..MaxOffers /\ paidBy \in 0..MaxOffers
      BY <3>1 DEF Init, Statuses
    <3>3. cancelled \in BOOLEAN /\ overlapped \in BOOLEAN
      BY Zenon DEF Init
    <3>4. /\ emitted \in [Triggers -> 0..MaxEvents]
          /\ pc \in [Requests -> Awaits]
      BY <3>1 DEF Init
    <3>5. /\ offers \in [OfferIds -> OfferRow]
          /\ loc \in [Requests -> Memory]
      BY NothingTyped DEF Init
    <3>6. QED
      BY <3>2, <3>3, <3>4, <3>5 DEF TypeOK
  <2>2. \A o \in OfferIds : offers[o].session = "none" /\ ~offers[o].acked
    BY DEF Init, NoOffer
  <2>3. RowOK
    BY <2>2 DEF Init, RowOK, PaidIsSettled, AnsweredIsRecorded, Accounted
  <2>4. \A r \in Requests : pc[r] = "idle"
    BY DEF Init
  <2>5. QED
    BY <2>1, <2>3, <2>4 DEF IInv, Apart, RequestOK, UnpaidAwaits
<1>2. IInv /\ [Next]_vars => IInv'
  <2> SUFFICES ASSUME IInv, [Next]_vars PROVE IInv'
    OBVIOUS
  <2>1. ASSUME NEW r \in Requests, RequestStep(r) PROVE IInv'
    <3>1. CASE EditStep(r)
      BY <3>1, ReadsOK, EditSaveOK, DeleteSaveOK DEF EditStep
    <3>2. CASE SendStep(r)
      BY <3>2, ReadsOK, SendSaveOK, SendEmitOK, SendCreateLinkOK DEF SendStep
    <3>3. CASE PayStep(r)
      BY <3>3, ReadsOK, PaySaveOK, PayEmitOK, PublicCreateOK, DeliverOK DEF PayStep
    <3>4. CASE CancelStep(r)
      BY <3>4, ReadsOK, CancelSaveOK DEF CancelStep
    <3>5. CASE Fail(r)
      BY <3>5, FailOK
    <3>6. QED
      BY <2>1, <3>1, <3>2, <3>3, <3>4, <3>5 DEF RequestStep
  <2>2. ASSUME NEW o \in OfferIds, Checkout(o) PROVE IInv'
    BY <2>2, CheckoutOK
  <2>3. CASE UNCHANGED vars
    BY <2>3 DEF vars, row, IInv, TypeOK, RowOK, Apart, RequestOK, PaidIsSettled, AnsweredIsRecorded,
       Accounted
  <2>4. QED
    BY <2>1, <2>2, <2>3, RemoveProjectOK DEF Next
<1>3. QED
  BY <1>1, <1>2, PTL DEF Spec

\* Rows, offers and requests keep their shape for any number of them.
THEOREM TypeCorrect == Spec => []TypeOK
<1>1. IInv => TypeOK
  BY DEF IInv
<1>2. QED
  BY <1>1, InvariantHolds, PTL

\* An invoice is marked as paid only by money that has arrived.
THEOREM PaidMeansSettled == Spec => []PaidIsSettled
<1>1. IInv => PaidIsSettled
  BY DEF IInv, RowOK
<1>2. QED
  BY <1>1, InvariantHolds, PTL

\* Stripe is answered only when the payment is on record or the invoice was withdrawn,
\* except for the delayed payment of a link, which names no invoice.
THEOREM AnswerMeansRecorded == Spec => []AnsweredIsRecorded
<1>1. IInv => AnsweredIsRecorded
  BY DEF IInv, RowOK
<1>2. QED
  BY <1>1, InvariantHolds, PTL

\* The stored link asks for the total of the invoice unless an edit overlapped its sending.
THEOREM LinkIsRight == Spec => []LinkAsksTotal
<1>1. IInv => LinkAsksTotal
  BY DEF IInv, RowOK, LinkAsksTotal
<1>2. QED
  BY <1>1, InvariantHolds, PTL

\* Only a write that was decided before the payment, or the removal of its project, takes
\* an invoice out of paid.
THEOREM PaidLeftByStale == Spec => PaidLeftByStaleWrites
<1> DEFINE Stale == status = "paid" /\ status' # "paid" =>
                      \/ \E r \in Requests : pc'[r] # pc[r] /\ loc[r].from # "paid"
                      \/ status' = "none" /\ UNCHANGED <<pc, paidBy, offers>>
<1>1. IInv /\ [Next]_vars => [Stale]_vars
  <2> SUFFICES ASSUME IInv, [Next]_vars, status = "paid", status' # "paid", ~RemoveProject
               PROVE  \E r \in Requests : pc'[r] # pc[r] /\ loc[r].from # "paid"
    BY DEF RemoveProject
  <2>1. PICK r \in Requests : DeleteSave(r) \/ SendSave(r) \/ CancelSave(r) \/ PaySave(r)
    BY DEF Next, vars, row, RequestStep, EditStep, SendStep, PayStep, CancelStep, Fail, EditRead,
       EditSave, DeleteRead, SendRead, SendCreateLink, SendEmit, PublicRead, PublicCreate,
       Checkout, Deliver, PayEmit, CancelRead
  <2>2. loc[r].from # "paid"
    BY <2>1 DEF IInv, RequestOK, UnpaidAwaits, DeleteSave, SendSave, CancelSave, PaySave
  <2>3. pc'[r] # pc[r]
    BY <2>1 DEF IInv, TypeOK, DeleteSave, SendSave, CancelSave, PaySave, GoTo
  <2>4. QED
    BY <2>2, <2>3
<1>2. QED
  BY <1>1, InvariantHolds, PTL DEF Spec, PaidLeftByStaleWrites

=============================================================================
