------------------------ MODULE FiscalDocumentsProofs ------------------------
(***************************************************************************)
(* The fiscal documents of an invoice, for any number of handlers, flows   *)
(* and documents.  Basic says what a flow may rely on at each await,       *)
(* whatever fails.  Orderly adds what holds until a flow loses its         *)
(* document or two overlap: one flow at a time is on its way to a          *)
(* document, and every document there is is its own or the stored one.     *)
(***************************************************************************)
EXTENDS FiscalDocuments, FiniteSetTheorems, TLAPS

Memo  == [doc : 0..MaxDocs, try : 0..Tries]
Later == {"at", "at.save", "at.error", "pdf", "mail"}

\* The events are bounded; nothing else of the invoice matters to the flows' shape.
EmittedOK == emitted \in [Triggers -> 0..MaxEvents]

\* What a flow has in hand.
FlowOK(at, l) ==
  /\ at \in {"idle", "giveup"} => l.doc = 0
  /\ at \in {"client", "create"} => l.doc = 0 /\ l.try # 0
  /\ at = "store" => l.doc \in Made /\ l.try # 0
  /\ at \in Later => l.doc \in Made
  /\ at = "at.save" => docs[l.doc] = "reported"

Basic == /\ EmittedOK /\ FiscalTypeOK /\ SentAtIsReported
         /\ docId # 0 => docId \in Made
         /\ \A f \in Flows : FlowOK(fpc[f], floc[f])

\* What holds while no flow has lost its document and none have overlapped.
Orderly ==
  ~excused =>
    /\ \A f, g \in Flows : fpc[f] \in Unseen /\ fpc[g] \in Unseen => f = g
    /\ \A f \in Flows :
         /\ fpc[f] \in Unseen => docId = 0
         /\ fpc[f] \in {"client", "create"} => Made = {}
         /\ fpc[f] = "store" => Made = {floc[f].doc}
         /\ fpc[f] \in Later => floc[f].doc = docId
    /\ (\A f \in Flows : fpc[f] \notin Unseen) => Made \subseteq {docId}
    /\ pdf \in {0, docId}
    /\ atStatus = "sent_at" => docId # 0 /\ docs[docId] = "reported"

FInv == Basic /\ Orderly

LEMMA Documents == DocIds \subseteq 0..MaxDocs /\ 0 \notin DocIds /\ 0 \in 0..MaxDocs
BY FiscalAssumption DEF DocIds

LEMMA IdleOK == Idle \in Memo /\ Idle.doc = 0 /\ Idle.try = 0
BY Documents DEF Idle, Memo, Tries

LEMMA FlowStarts == Init /\ FiscalInit => FInv
<1> SUFFICES ASSUME Init, FiscalInit PROVE FInv
  OBVIOUS
<1>1. Made = {}
  BY DEF FiscalInit, Made
<1>2. EmittedOK /\ FiscalTypeOK
  <2>1. 0 \in 0..MaxEvents
    BY InvoiceAssumption
  <2> QED BY <2>1, Documents, IdleOK
          DEF Init, FiscalInit, EmittedOK, FiscalTypeOK, FlowAwaits, Memo
<1>3. \A f \in Flows : FlowOK(fpc[f], floc[f])
  BY IdleOK DEF FiscalInit, FlowOK, Later
<1> QED BY <1>1, <1>2, <1>3 DEF FInv, Basic, Orderly, SentAtIsReported, FiscalInit, Unseen, Later

\* The handlers of the invoice only add events.
LEMMA HandlersKeep == FInv /\ Next /\ UNCHANGED fiscal => FInv'
<1> SUFFICES ASSUME FInv, Next, UNCHANGED fiscal PROVE FInv'
  OBVIOUS
<1>1. EmittedOK'
  <2>1. ASSUME NEW t \in Triggers, Emit(t) PROVE EmittedOK'
    BY <2>1, InvoiceAssumption DEF Emit, EmittedOK, FInv, Basic
  <2>2. ASSUME UNCHANGED emitted PROVE EmittedOK'
    BY <2>2 DEF EmittedOK, FInv, Basic
  <2> QED BY <2>1, <2>2
     DEF Next, RequestStep, EditStep, SendStep, PayStep, CancelStep, Fail, EditRead, EditSave,
         DeleteRead, DeleteSave, SendRead, SendCreateLink, SendSave, SendEmit, PublicRead,
         PublicCreate, Deliver, PaySave, PayEmit, CancelRead, CancelSave, Checkout,
         RemoveProject, Triggers
<1>2. Made' = Made
  BY DEF Made, fiscal
<1>3. FiscalTypeOK' /\ SentAtIsReported' /\ Orderly'
  BY <1>2 DEF FInv, Basic, FiscalTypeOK, SentAtIsReported, Orderly, fiscal, Unseen, Later
<1>4. \A f \in Flows : FlowOK(fpc[f], floc[f])'
  BY <1>2 DEF FInv, Basic, FlowOK, fiscal
<1> QED BY <1>1, <1>2, <1>3, <1>4 DEF FInv, Basic, fiscal

LEMMA Flowed ==
  ASSUME FiscalTypeOK, NEW f \in Flows, NEW at \in FlowAwaits, NEW l \in Memo, FlowTo(f, at, l)
  PROVE  /\ fpc' \in [Flows -> FlowAwaits] /\ floc' \in [Flows -> Memo]
         /\ fpc'[f] = at /\ floc'[f] = l
         /\ \A g \in Flows \ {f} : fpc'[g] = fpc[g] /\ floc'[g] = floc[g]
BY DEF FiscalTypeOK, FlowTo, Memo

\* What a step of a flow must show for Basic: its documents only become more, and more
\* of them reported.
LEMMA FlowKeepsBasic ==
  ASSUME Basic, NEW f \in Flows, NEW at \in FlowAwaits, NEW l \in Memo, FlowTo(f, at, l),
         UNCHANGED emitted,
         started' \in [Triggers -> 0..MaxEvents],
         docs' \in [DocIds -> {"none", "created", "reported"}],
         docId' \in 0..MaxDocs, pdf' \in 0..MaxDocs, excused' \in BOOLEAN,
         atStatus' \in {"none", "pending", "sent_at", "error"},
         Made \subseteq Made',
         \A d \in DocIds : docs[d] = "reported" => docs'[d] = "reported",
         atStatus' = "sent_at" => atStatus = "sent_at" \/ \E d \in DocIds : docs'[d] = "reported",
         docId' # 0 => docId' \in Made',
         FlowOK(at, l)'
  PROVE  Basic'
<1>1. /\ fpc' \in [Flows -> FlowAwaits] /\ floc' \in [Flows -> Memo]
      /\ fpc'[f] = at /\ floc'[f] = l
      /\ \A g \in Flows \ {f} : fpc'[g] = fpc[g] /\ floc'[g] = floc[g]
  BY Flowed DEF Basic
<1>2. FiscalTypeOK' /\ EmittedOK'
  BY <1>1 DEF FiscalTypeOK, Basic, Memo, EmittedOK
<1>3. SentAtIsReported'
  BY DEF Basic, SentAtIsReported
<1>4. ASSUME NEW g \in Flows PROVE FlowOK(fpc[g], floc[g])'
  <2>1. CASE g = f
    BY <1>1, <2>1 DEF FlowOK
  <2>2. CASE g # f
    <3>1. FlowOK(fpc[g], floc[g]) /\ fpc'[g] = fpc[g] /\ floc'[g] = floc[g]
      BY <1>1, <2>2 DEF Basic
    <3>2. \A d \in Made : d \in DocIds
      BY DEF Made
    <3> QED BY <3>1, <3>2 DEF FlowOK, Later
  <2> QED BY <2>1, <2>2
<1> QED BY <1>2, <1>3, <1>4 DEF Basic

\* A flow that starts no search and no longer holds one leaves the order alone.
LEMMA MoveKeepsOrder ==
  ASSUME FInv, NEW f \in Flows, NEW at \in FlowAwaits \ Unseen, NEW l \in Memo,
         FlowTo(f, at, l),
         UNCHANGED docId, Made' = Made,
         ~excused' => /\ ~excused /\ fpc[f] # "store" /\ pdf' \in {pdf, docId}
                      /\ at \in Later => l.doc = docId
                      /\ atStatus' = "sent_at" => docId # 0 /\ docs'[docId] = "reported"
  PROVE  Orderly'
<1> SUFFICES ASSUME ~excused' PROVE Orderly'
  BY DEF Orderly
<1>1. /\ fpc'[f] = at /\ floc'[f] = l
      /\ \A g \in Flows \ {f} : fpc'[g] = fpc[g] /\ floc'[g] = floc[g]
  BY Flowed DEF FInv, Basic
<1>2. \A g, h \in Flows : fpc'[g] \in Unseen /\ fpc'[h] \in Unseen => g = h
  BY <1>1 DEF FInv, Orderly
<1>3. \A g \in Flows :
        /\ fpc'[g] \in Unseen => docId' = 0
        /\ fpc'[g] \in {"client", "create"} => Made' = {}
        /\ fpc'[g] = "store" => Made' = {floc'[g].doc}
        /\ fpc'[g] \in Later => floc'[g].doc = docId'
  BY <1>1 DEF FInv, Orderly, Unseen
<1>4. (\A g \in Flows : fpc'[g] \notin Unseen) => Made' \subseteq {docId'}
  <2>1. CASE fpc[f] \in Unseen
    <3>1. fpc[f] \in {"client", "create"}
      BY <2>1 DEF Unseen
    <3> QED BY <3>1 DEF FInv, Orderly
  <2>2. CASE fpc[f] \notin Unseen
    BY <1>1, <2>2 DEF FInv, Orderly
  <2> QED BY <2>1, <2>2
<1>5. /\ pdf' \in {0, docId'}
      /\ atStatus' = "sent_at" => docId' # 0 /\ docs'[docId'] = "reported"
  BY DEF FInv, Orderly
<1> QED BY <1>2, <1>3, <1>4, <1>5 DEF Orderly

\* Nor does one that goes on with its search, which has no document yet.
LEMMA SearchKeepsOrder ==
  ASSUME FInv, NEW f \in Flows, NEW at \in {"client", "create"}, NEW l \in Memo,
         FlowTo(f, at, l),
         UNCHANGED <<docId, docs, pdf>>, atStatus' \in {atStatus, "pending"},
         ~excused' => ~excused /\ fpc[f] \in {"client", "create"}
  PROVE  Orderly'
<1> SUFFICES ASSUME ~excused' PROVE Orderly'
  BY DEF Orderly
<1>1. /\ fpc'[f] = at /\ floc'[f] = l
      /\ \A g \in Flows \ {f} : fpc'[g] = fpc[g] /\ floc'[g] = floc[g]
  BY Flowed DEF FInv, Basic, FlowAwaits, Unseen
<1>2. Made' = Made
  BY DEF Made
<1>3. \A g \in Flows : fpc'[g] \in Unseen <=> fpc[g] \in Unseen
  BY <1>1 DEF Unseen
<1> QED BY <1>1, <1>2, <1>3 DEF FInv, Orderly, Later, Unseen

\* The next try, or the end of the last one.
LEMMA AgainIs ==
  ASSUME FInv, NEW f \in Flows, Again(f)
  PROVE  \E at \in {"client", "giveup"}, l \in Memo :
           FlowTo(f, at, l) /\ l.doc = 0 /\ (at = "client" => l.try # 0)
<1>1. CASE floc[f].try < Tries
  <2> DEFINE l == [Idle EXCEPT !.try = floc[f].try + 1]
  <2>1. floc[f].try \in 0..Tries
    BY DEF FInv, Basic, FiscalTypeOK
  <2>2. l \in Memo /\ l.doc = 0 /\ l.try = floc[f].try + 1 /\ l.try # 0
    BY <1>1, <2>1, IdleOK DEF Memo, Tries
  <2> QED BY <1>1, <2>2 DEF Again
<1>2. CASE ~(floc[f].try < Tries)
  BY <1>2, IdleOK DEF Again
<1> QED BY <1>1, <1>2

LEMMA ThrowKeeps == ASSUME FInv, NEW f \in Flows, FlowThrow(f), UNCHANGED emitted PROVE FInv'
<1>1. /\ fpc[f] \in {"client", "create", "store", "at.error", "pdf", "mail"}
      /\ excused' = (excused \/ (floc[f].try # 0 /\ floc[f].doc # 0))
      /\ UNCHANGED <<started, docs, docId, atStatus, pdf>>
  BY DEF FlowThrow
<1>2. PICK at \in {"idle", "client", "giveup"}, l \in Memo :
        /\ FlowTo(f, at, l) /\ l.doc = 0 /\ (at = "client" => l.try # 0)
        /\ at # "idle" => floc[f].try # 0
  BY AgainIs, IdleOK DEF FlowThrow
<1>3. Made' = Made /\ at \in FlowAwaits /\ FlowOK(at, l)'
  BY <1>1, <1>2 DEF Made, FlowAwaits, Unseen, FlowOK, Later
<1>4. Basic'
  BY <1>1, <1>2, <1>3, FlowKeepsBasic DEF FInv, Basic, FiscalTypeOK
<1>5. Orderly'
  <2>1. /\ fpc[f] = "store" => floc[f].try # 0 /\ floc[f].doc # 0
        /\ fpc[f] \in Later => floc[f].doc # 0
    BY Documents DEF FInv, Basic, FlowOK, Made
  <2>2. CASE at = "client"
    <3>1. fpc[f] \in {"client", "create"} \/ excused'
      BY <1>1, <1>2, <2>1, <2>2 DEF Later
    <3> QED BY <1>1, <1>2, <2>2, <3>1, SearchKeepsOrder
  <2>3. CASE at # "client"
    BY <1>1, <1>2, <1>3, <2>1, <2>3, MoveKeepsOrder DEF Unseen, Later, FInv, Orderly
  <2> QED BY <2>2, <2>3
<1> QED BY <1>4, <1>5 DEF FInv

\* A flow that ends, with the status it leaves.
LEMMA EndKeeps ==
  ASSUME FInv, NEW f \in Flows, FlowTo(f, "idle", Idle), UNCHANGED emitted,
         UNCHANGED <<started, docs, docId, pdf>>,
         atStatus' \in {atStatus, "error"},
         excused' = (excused \/ fpc[f] = "store")
  PROVE  FInv'
<1>1. Made' = Made /\ "idle" \in FlowAwaits \ Unseen /\ FlowOK("idle", Idle)'
  BY IdleOK DEF Made, FlowAwaits, Unseen, FlowOK, Later, Idle
<1>2. Basic'
  BY <1>1, IdleOK, FlowKeepsBasic DEF FInv, Basic, FiscalTypeOK
<1>3. Orderly'
  BY <1>1, IdleOK, MoveKeepsOrder DEF Later, FInv, Orderly
<1> QED BY <1>2, <1>3 DEF FInv

LEMMA EndsKeep ==
  ASSUME FInv, NEW f \in Flows, GiveUp(f) \/ FlowCrash(f) \/ Mail(f), UNCHANGED emitted
  PROVE  FInv'
BY EndKeeps DEF GiveUp, FlowCrash, Mail, FInv, Basic, FiscalTypeOK

LEMMA SyncKeeps == ASSUME FInv, NEW f \in Flows, SyncClient(f), UNCHANGED emitted PROVE FInv'
<1>1. /\ fpc[f] = "client" /\ atStatus' = "pending" /\ FlowTo(f, "create", floc[f])
      /\ UNCHANGED <<started, docs, docId, pdf, excused>>
  BY DEF SyncClient
<1>2. PICK l \in Memo : l = floc[f]
  BY DEF FInv, Basic, FiscalTypeOK, Memo
<1>3. Made' = Made /\ "create" \in FlowAwaits /\ FlowOK("create", l)'
  BY <1>1, <1>2 DEF Made, FlowAwaits, Unseen, FlowOK, Later, FInv, Basic
<1>4. Basic'
  BY <1>1, <1>2, <1>3, FlowKeepsBasic DEF FInv, Basic, FiscalTypeOK
<1>5. Orderly'
  BY <1>1, <1>2, SearchKeepsOrder
<1> QED BY <1>4, <1>5 DEF FInv

LEMMA CreateKeeps ==
  ASSUME FInv, NEW f \in Flows, NEW d \in DocIds, CreateDocument(f, d), UNCHANGED emitted
  PROVE  FInv'
<1>1. /\ fpc[f] = "create" /\ docs[d] = "none"
      /\ docs' = [docs EXCEPT ![d] = "created"]
      /\ UNCHANGED <<started, docId, atStatus, pdf>>
  BY DEF CreateDocument
<1>2. /\ docs' \in [DocIds -> {"none", "created", "reported"}]
      /\ Made' = Made \cup {d} /\ d # 0 /\ d \in 0..MaxDocs
      /\ \A e \in DocIds : docs[e] = "reported" => docs'[e] = "reported"
  BY <1>1, Documents DEF FInv, Basic, FiscalTypeOK, Made
<1>3. CASE Again(f) /\ excused' = TRUE
  <2>1. PICK at \in {"client", "giveup"}, l \in Memo :
          FlowTo(f, at, l) /\ l.doc = 0 /\ (at = "client" => l.try # 0)
    BY <1>3, AgainIs
  <2>2. at \in FlowAwaits /\ FlowOK(at, l)'
    BY <2>1 DEF FlowAwaits, Unseen, FlowOK, Later
  <2>3. Basic'
    BY <1>1, <1>2, <1>3, <2>1, <2>2, FlowKeepsBasic DEF FInv, Basic, FiscalTypeOK
  <2> QED BY <1>3, <2>3 DEF FInv, Orderly
<1>4. CASE FlowTo(f, "store", [floc[f] EXCEPT !.doc = d]) /\ UNCHANGED excused
  <2>1. PICK l \in Memo : /\ l = [floc[f] EXCEPT !.doc = d]
                          /\ l.doc = d /\ l.try = floc[f].try
    <3>1. PICK m \in Memo : m = floc[f]
      BY DEF FInv, Basic, FiscalTypeOK, Memo
    <3> DEFINE k == [m EXCEPT !.doc = d]
    <3>2. k \in Memo /\ k.doc = d /\ k.try = m.try
      BY <1>2 DEF Memo
    <3> HIDE DEF k
    <3> QED BY <3>1, <3>2 DEF k
  <2>2. "store" \in FlowAwaits /\ FlowOK("store", l)'
    BY <1>1, <1>2, <2>1 DEF FlowAwaits, Unseen, FlowOK, Later, FInv, Basic
  <2>3. Basic'
    BY <1>1, <1>2, <1>4, <2>1, <2>2, FlowKeepsBasic DEF FInv, Basic, FiscalTypeOK
  <2>4. /\ fpc'[f] = "store" /\ floc'[f] = l
        /\ \A g \in Flows \ {f} : fpc'[g] = fpc[g] /\ floc'[g] = floc[g]
    BY <1>4, <2>1, <2>2, Flowed DEF FInv, Basic
  <2>5. Orderly'
    <3> SUFFICES ASSUME ~excused PROVE Orderly'
      BY <1>4 DEF Orderly
    <3>1. /\ Made = {} /\ docId = 0 /\ pdf = 0 /\ atStatus # "sent_at"
          /\ \A g \in Flows \ {f} : fpc[g] \notin Unseen /\ fpc[g] \notin Later
      BY <1>1, Documents DEF FInv, Orderly, Unseen, Basic, FlowOK
    <3>2. fpc'[f] \in Unseen /\ fpc'[f] \notin Later /\ fpc'[f] \notin {"client", "create"}
      BY <2>4 DEF Unseen, Later
    <3>3. \A g \in Flows \ {f} : fpc'[g] \notin Unseen /\ fpc'[g] \notin Later
                                 /\ fpc'[g] \notin {"client", "create"} /\ fpc'[g] # "store"
      BY <2>4, <3>1 DEF Unseen
    <3>4. Made' = {floc'[f].doc}
      BY <1>2, <2>1, <2>4, <3>1
    <3> QED BY <1>1, <3>1, <3>2, <3>3, <3>4 DEF Orderly
  <2> QED BY <2>3, <2>5 DEF FInv
<1> QED BY <1>3, <1>4 DEF CreateDocument

LEMMA StoreKeeps == ASSUME FInv, NEW f \in Flows, StoreDocument(f), UNCHANGED emitted PROVE FInv'
<1>1. /\ fpc[f] = "store" /\ docId' = floc[f].doc
      /\ UNCHANGED <<started, docs, atStatus, pdf, excused>>
  BY DEF StoreDocument
<1>2. PICK at \in {"at", "pdf"} : FlowTo(f, at, floc[f])
  BY DEF StoreDocument
<1>3. PICK l \in Memo : l = floc[f]
  BY DEF FInv, Basic, FiscalTypeOK, Memo
<1>4. Made' = Made /\ at \in FlowAwaits /\ FlowOK(at, l)' /\ l.doc \in Made /\ l.doc \in 0..MaxDocs
      /\ l.doc # 0
  BY <1>1, <1>3, Documents DEF Made, FlowAwaits, Unseen, FlowOK, Later, FInv, Basic
<1>5. Basic'
  BY <1>1, <1>2, <1>3, <1>4, FlowKeepsBasic DEF FInv, Basic, FiscalTypeOK
<1>6. Orderly'
  <2> SUFFICES ASSUME ~excused PROVE Orderly'
    BY <1>1 DEF Orderly
  <2>1. /\ fpc'[f] = at /\ floc'[f] = l
        /\ \A g \in Flows \ {f} : fpc'[g] = fpc[g] /\ floc'[g] = floc[g]
    BY <1>2, <1>3, <1>4, Flowed DEF FInv, Basic
  <2>2. /\ Made = {l.doc} /\ docId = 0 /\ pdf = 0 /\ atStatus # "sent_at"
        /\ \A g \in Flows \ {f} : fpc[g] \notin Unseen /\ fpc[g] \notin Later
    <3>1. fpc[f] \in Unseen
      BY <1>1 DEF Unseen
    <3>2. Made = {l.doc} /\ docId = 0 /\ pdf = 0 /\ atStatus # "sent_at"
      BY <1>1, <1>3, <3>1 DEF FInv, Orderly
    <3>3. ASSUME NEW g \in Flows \ {f} PROVE fpc[g] \notin Unseen
      BY <3>1 DEF FInv, Orderly
    <3>4. ASSUME NEW g \in Flows, fpc[g] \in Later PROVE FALSE
      <4>1. floc[g].doc = 0
        BY <3>2, <3>4 DEF FInv, Orderly
      <4>2. floc[g].doc \in Made
        BY <3>4 DEF FInv, Basic, FlowOK
      <4> QED BY <4>1, <4>2, Documents DEF Made
    <3> QED BY <3>2, <3>3, <3>4
  <2>3. fpc'[f] \notin Unseen /\ fpc'[f] \notin {"client", "create"} /\ fpc'[f] # "store"
    BY <2>1 DEF Unseen
  <2>4. \A g \in Flows \ {f} : fpc'[g] \notin Unseen /\ fpc'[g] \notin Later
                               /\ fpc'[g] \notin {"client", "create"} /\ fpc'[g] # "store"
    BY <2>1, <2>2 DEF Unseen
  <2> QED BY <1>1, <1>3, <1>4, <2>1, <2>2, <2>3, <2>4 DEF Orderly
<1> QED BY <1>5, <1>6 DEF FInv

\* A flow with its document that goes on, to say what became of it.
LEMMA LaterKeeps ==
  ASSUME FInv, NEW f \in Flows, NEW at \in Later, NEW l \in Memo, FlowTo(f, at, l),
         UNCHANGED <<emitted, started, docId, excused>>,
         docs' \in [DocIds -> {"none", "created", "reported"}], Made' = Made,
         \A d \in DocIds : docs[d] = "reported" => docs'[d] = "reported",
         l.doc \in Made, ~excused => l.doc = docId /\ fpc[f] # "store",
         at = "at.save" => docs'[l.doc] = "reported",
         pdf' \in {pdf, l.doc},
         \/ atStatus' \in {atStatus, "error"}
         \/ atStatus' = "sent_at" /\ docs'[l.doc] = "reported"
  PROVE  FInv'
<1>1. /\ at \in FlowAwaits \ Unseen /\ l.doc \in DocIds /\ FlowOK(at, l)'
  BY DEF Later, FlowAwaits, Unseen, Made, FlowOK
<1>2. Basic'
  <2>1. /\ started' \in [Triggers -> 0..MaxEvents] /\ docId' \in 0..MaxDocs
        /\ excused' \in BOOLEAN /\ pdf' \in 0..MaxDocs
        /\ atStatus' \in {"none", "pending", "sent_at", "error"}
    BY <1>1, Documents DEF FInv, Basic, FiscalTypeOK
  <2>2. docId' # 0 => docId' \in Made'
    BY DEF FInv, Basic
  <2>3. atStatus' = "sent_at" => atStatus = "sent_at" \/ \E d \in DocIds : docs'[d] = "reported"
    BY <1>1
  <2> QED BY <1>1, <2>1, <2>2, <2>3, FlowKeepsBasic DEF FInv
<1>3. Orderly'
  <2>1. ~excused' => /\ ~excused /\ fpc[f] # "store" /\ pdf' \in {pdf, docId}
                     /\ at \in Later => l.doc = docId
                     /\ atStatus' = "sent_at" => docId # 0 /\ docs'[docId] = "reported"
    BY <1>1, Documents DEF FInv, Orderly, Basic, Made
  <2> QED BY <1>1, <2>1, MoveKeepsOrder
<1> QED BY <1>2, <1>3 DEF FInv

\* What a flow with its document has in hand.
LEMMA InHand ==
  ASSUME FInv, NEW f \in Flows, fpc[f] \in Later
  PROVE  \E l \in Memo :
           /\ l = floc[f] /\ l.doc \in Made
           /\ ~excused => l.doc = docId /\ fpc[f] # "store"
           /\ fpc[f] = "at.save" => docs[l.doc] = "reported"
<1>1. floc[f] \in Memo
  BY DEF FInv, Basic, FiscalTypeOK, Memo
<1> QED BY <1>1 DEF FInv, Basic, FlowOK, Orderly, Later

LEMMA CommunicateKeeps ==
  ASSUME FInv, NEW f \in Flows, Communicate(f), UNCHANGED emitted
  PROVE  FInv'
<1>1. fpc[f] = "at" /\ fpc[f] \in Later /\ UNCHANGED <<started, docId, atStatus, pdf, excused>>
  BY DEF Communicate, Later
<1>2. PICK l \in Memo : /\ l = floc[f] /\ l.doc \in Made
                        /\ ~excused => l.doc = docId /\ fpc[f] # "store"
  BY <1>1, InHand
<1>3. CASE /\ docs' = [docs EXCEPT ![l.doc] = "reported"]
           /\ \E at \in {"at.save", "at.error"} : FlowTo(f, at, l)
  <2>1. PICK at \in {"at.save", "at.error"} : FlowTo(f, at, l)
    BY <1>3
  <2>2. /\ docs' \in [DocIds -> {"none", "created", "reported"}]
        /\ Made' = Made /\ docs'[l.doc] = "reported"
        /\ \A d \in DocIds : docs[d] = "reported" => docs'[d] = "reported"
    BY <1>2, <1>3 DEF FInv, Basic, FiscalTypeOK, Made
  <2> QED BY <1>1, <1>2, <2>1, <2>2, LaterKeeps DEF Later
<1>4. CASE FlowTo(f, "at.error", l) /\ UNCHANGED docs
  <2>1. docs' \in [DocIds -> {"none", "created", "reported"}] /\ Made' = Made
    BY <1>4 DEF FInv, Basic, FiscalTypeOK, Made
  <2> QED BY <1>1, <1>2, <1>4, <2>1, LaterKeeps DEF Later
<1> QED BY <1>2, <1>3, <1>4 DEF Communicate

LEMMA ReportKeeps ==
  ASSUME FInv, NEW f \in Flows, SaveReported(f) \/ SaveAtError(f) \/ SavePdf(f),
         UNCHANGED emitted
  PROVE  FInv'
<1>1. /\ fpc[f] \in {"at.save", "at.error", "pdf"} /\ fpc[f] \in Later
      /\ UNCHANGED <<started, docs, docId, excused>>
  BY DEF SaveReported, SaveAtError, SavePdf, Later
<1>2. PICK l \in Memo : /\ l = floc[f] /\ l.doc \in Made
                        /\ ~excused => l.doc = docId /\ fpc[f] # "store"
                        /\ fpc[f] = "at.save" => docs[l.doc] = "reported"
  BY <1>1, InHand
<1>3. docs' \in [DocIds -> {"none", "created", "reported"}] /\ Made' = Made
  BY <1>1 DEF FInv, Basic, FiscalTypeOK, Made
<1>4. CASE SaveReported(f)
  BY <1>1, <1>2, <1>3, <1>4, LaterKeeps DEF SaveReported, Later
<1>5. CASE SaveAtError(f)
  <2>1. /\ atStatus' = "error" /\ UNCHANGED pdf
        /\ FlowTo(f, "idle", Idle) \/ FlowTo(f, "pdf", l)
    BY <1>2, <1>5 DEF SaveAtError
  <2>2. CASE FlowTo(f, "idle", Idle)
    <3>1. fpc[f] # "store"
      BY <1>1
    <3> QED BY <1>1, <2>1, <2>2, <3>1, EndKeeps DEF FInv, Basic, FiscalTypeOK
  <2>3. CASE FlowTo(f, "pdf", l)
    BY <1>1, <1>2, <1>3, <2>1, <2>3, LaterKeeps DEF Later
  <2> QED BY <2>1, <2>2, <2>3
<1>6. CASE SavePdf(f)
  <2>1. /\ UNCHANGED atStatus /\ pdf' \in {pdf, l.doc}
        /\ FlowTo(f, "idle", Idle) \/ FlowTo(f, "mail", l)
    BY <1>2, <1>6 DEF SavePdf
  <2>2. CASE FlowTo(f, "mail", l)
    BY <1>1, <1>2, <1>3, <2>1, <2>2, LaterKeeps DEF Later
  <2>3. CASE FlowTo(f, "idle", Idle)
    <3>1. "idle" \in FlowAwaits \ Unseen /\ FlowOK("idle", Idle)'
      BY IdleOK DEF FlowAwaits, Unseen, FlowOK, Later, Idle
    <3>2. l.doc \in 0..MaxDocs /\ pdf' \in 0..MaxDocs
      BY <1>2, <2>1, Documents DEF Made, FInv, Basic, FiscalTypeOK
    <3>3. Basic'
      BY <1>1, <1>3, <2>1, <2>3, <3>1, <3>2, IdleOK, FlowKeepsBasic DEF FInv, Basic, FiscalTypeOK
    <3>4. Orderly'
      BY <1>1, <1>2, <1>3, <2>1, <2>3, <3>1, IdleOK, MoveKeepsOrder DEF Later, FInv, Orderly
    <3> QED BY <3>3, <3>4 DEF FInv
  <2> QED BY <2>1, <2>2, <2>3
<1> QED BY <1>4, <1>5, <1>6

LEMMA AdminKeeps ==
  ASSUME FInv, NEW f \in Flows, RetryReport(f) \/ PullPdf(f), UNCHANGED emitted
  PROVE  FInv'
<1> DEFINE l == [Idle EXCEPT !.doc = docId]
<1>1. /\ fpc[f] = "idle" /\ docId # 0
      /\ \E at \in {"at", "at.error", "pdf"} : FlowTo(f, at, l)
      /\ UNCHANGED <<started, docs, docId, atStatus, pdf, excused>>
  BY DEF RetryReport, PullPdf
<1>2. l \in Memo /\ l.doc = docId
  BY IdleOK DEF FInv, Basic, FiscalTypeOK, Memo
<1>3. docs' \in [DocIds -> {"none", "created", "reported"}] /\ Made' = Made /\ docId \in Made
  BY <1>1 DEF FInv, Basic, FiscalTypeOK, Made
<1> HIDE DEF l
<1>4. PICK at \in {"at", "at.error", "pdf"} : FlowTo(f, at, l)
  BY <1>1
<1>5. PICK k \in Memo : k = l
  BY <1>2
<1> QED BY <1>1, <1>2, <1>3, <1>4, <1>5, LaterKeeps DEF Later

LEMMA StartKeeps ==
  ASSUME FInv, NEW f \in Flows, NEW t \in Triggers, FlowStart(f, t), UNCHANGED emitted
  PROVE  FInv'
<1>1. /\ fpc[f] = "idle" /\ docId = 0 /\ started[t] < emitted[t]
      /\ started' = [started EXCEPT ![t] = @ + 1]
      /\ FlowTo(f, "client", [Idle EXCEPT !.try = 1])
      /\ excused' = (excused \/ \E g \in Flows \ {f} : fpc[g] \in Unseen)
      /\ UNCHANGED <<docs, docId, atStatus, pdf>>
  BY DEF FlowStart
<1>2. PICK l \in Memo : l = [Idle EXCEPT !.try = 1] /\ l.doc = 0 /\ l.try # 0
  <2> DEFINE k == [Idle EXCEPT !.try = 1]
  <2>1. k \in Memo /\ k.doc = 0 /\ k.try = 1
    BY IdleOK DEF Memo, Tries
  <2>2. k.try # 0
    BY <2>1
  <2> QED BY <2>1, <2>2
<1>3. Made' = Made /\ "client" \in FlowAwaits /\ FlowOK("client", l)'
  BY <1>1, <1>2 DEF Made, FlowAwaits, Unseen, FlowOK, Later
<1>4. Basic'
  <2>1. started' \in [Triggers -> 0..MaxEvents]
    BY <1>1, InvoiceAssumption DEF FInv, Basic, FiscalTypeOK, EmittedOK
  <2> QED BY <1>1, <1>2, <1>3, <2>1, FlowKeepsBasic DEF FInv, Basic, FiscalTypeOK
<1>5. Orderly'
  <2> SUFFICES ASSUME ~excused' PROVE Orderly'
    BY DEF Orderly
  <2>1. /\ fpc'[f] = "client" /\ floc'[f] = l
        /\ \A g \in Flows \ {f} : fpc'[g] = fpc[g] /\ floc'[g] = floc[g]
    BY <1>1, <1>2, <1>3, Flowed DEF FInv, Basic
  <2>2. ~excused /\ \A g \in Flows : fpc[g] \notin Unseen
    BY <1>1 DEF Unseen
  <2>3. Made = {}
    BY <1>1, <2>2, Documents DEF FInv, Orderly, Made
  <2>4. \A g \in Flows \ {f} : fpc'[g] \notin Unseen /\ fpc'[g] \notin {"client", "create", "store"}
    BY <2>1, <2>2 DEF Unseen
  <2>5. \A g \in Flows : fpc'[g] \in Later => floc'[g].doc = docId
    BY <2>1, <2>2 DEF FInv, Orderly, Later
  <2>6. fpc'[f] \in Unseen
    BY <2>1 DEF Unseen
  <2>7. pdf \in {0, docId} /\ (atStatus = "sent_at" => docId # 0 /\ docs[docId] = "reported")
    BY <2>2 DEF FInv, Orderly
  <2> QED BY <1>1, <1>3, <2>1, <2>3, <2>4, <2>5, <2>6, <2>7 DEF Orderly
<1> QED BY <1>4, <1>5 DEF FInv

\* An event that starts no flow only advances its counter.
LEMMA DroppedKeeps == ASSUME FInv, NEW t \in Triggers, FlowEnd(t), UNCHANGED emitted PROVE FInv'
<1>1. /\ started[t] < emitted[t] /\ started' = [started EXCEPT ![t] = @ + 1]
      /\ UNCHANGED <<docs, docId, atStatus, pdf, excused, fpc, floc>>
  BY DEF FlowEnd
<1>2. started' \in [Triggers -> 0..MaxEvents]
  BY <1>1, InvoiceAssumption DEF FInv, Basic, FiscalTypeOK, EmittedOK
<1>3. Made' = Made
  BY <1>1 DEF Made
<1> QED BY <1>1, <1>2, <1>3
        DEF FInv, Basic, EmittedOK, FiscalTypeOK, SentAtIsReported, FlowOK, Orderly

LEMMA ComposedKeeps == FInv /\ [ComposedNext]_allVars => FInv'
<1> SUFFICES ASSUME FInv, [ComposedNext]_allVars PROVE FInv'
  OBVIOUS
<1>1. CASE UNCHANGED allVars
  BY <1>1 DEF allVars, vars, fiscal, FInv, Basic, EmittedOK, FiscalTypeOK, SentAtIsReported, FlowOK,
     Orderly, Made
<1>2. CASE Next /\ UNCHANGED fiscal
  BY <1>2, HandlersKeep
<1>3. ASSUME FiscalNext, UNCHANGED vars PROVE FInv'
  <2>1. UNCHANGED emitted
    BY <1>3 DEF vars
  <2>2. ASSUME NEW f \in Flows, FlowStep(f) PROVE FInv'
    BY <2>1, <2>2, ThrowKeeps, EndsKeep, SyncKeeps, CreateKeeps, StoreKeeps, CommunicateKeeps,
       ReportKeeps, AdminKeeps, StartKeeps DEF FlowStep
  <2> QED BY <1>3, <2>1, <2>2, DroppedKeeps DEF FiscalNext
<1> QED BY <1>1, <1>2, <1>3 DEF ComposedNext

\* The invariant is kept by the handlers of the invoice and by every flow.
THEOREM FlowsAreInOrder == FiscalSpec => []FInv
BY FlowStarts, ComposedKeeps, PTL DEF FiscalSpec

\* The fiscal columns, the documents and the flows keep their shape: a flow never tries
\* more than three times.
THEOREM FiscalShape == FiscalSpec => []FiscalTypeOK
<1>1. FInv => FiscalTypeOK
  BY DEF FInv, Basic
<1> QED BY <1>1, FlowsAreInOrder, PTL

\* toconlineStatus says sent_at only of an invoice of which a document has reached the
\* tax authority, whatever fails and overlaps; and the three fiscal columns speak of one
\* document, unless a flow lost its own or two overlapped.
THEOREM OneDocumentInTheRow == FiscalSpec => []ColumnsAgree
<1>1. FInv => ColumnsAgree
  BY DEF FInv, Basic, Orderly, ColumnsAgree
<1> QED BY <1>1, FlowsAreInOrder, PTL

\* No invoice gets a second document in any other way.
THEOREM NoSecondDocument == FiscalSpec => []SecondDocumentIsExcused
<1>1. FInv => SecondDocumentIsExcused
  <2> SUFFICES ASSUME FInv, ~excused PROVE ~(Cardinality(Made) > 1)
    BY DEF SecondDocumentIsExcused
  <2>1. \E d : Made \subseteq {d}
    BY DEF FInv, Orderly, Unseen
  <2>2. PICK d : Made = {} \/ Made = {d}
    BY <2>1
  <2>3. Cardinality(Made) = 0 \/ Cardinality(Made) = 1
    BY <2>2, FS_EmptySet, FS_Singleton
  <2> QED BY <2>3
<1> QED BY <1>1, FlowsAreInOrder, PTL
=============================================================================
