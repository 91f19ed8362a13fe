--------------------------- MODULE FiscalDocuments ---------------------------
(***************************************************************************)
(* The fiscal documents of an invoice at TOConline.  The listeners of      *)
(* invoice.sent and invoice.paid each start a flow of                      *)
(* ToconlineFiscalService, which nobody awaits: it creates a document,     *)
(* reports it to the tax authority (AT), stores its PDF and mails it, and  *)
(* tries up to three times with the invoice as it was read at the start.   *)
(* This module composes these flows with the handlers of Invoice.          *)
(***************************************************************************)
EXTENDS Invoice

CONSTANTS Flows,          \* fiscal flows that may run at once
          MaxDocs,        \* bound: documents created at TOConline
          AtCredentials   \* whether the credentials of the AT are configured

ASSUME FiscalAssumption == MaxDocs \in Nat /\ AtCredentials \in BOOLEAN

DocIds == 1..MaxDocs
Tries  == 3

VARIABLES
  started,   \* how many of the emitted events have reached their listener
  docs,      \* documents at TOConline: none, created, or reported to the AT
  docId,     \* Invoice.toconlineDocId, 0 for null
  atStatus,  \* Invoice.toconlineStatus
  pdf,       \* the document whose PDF toconlinePdfUrl shows, 0 for null
  excused,   \* history: a flow lost its document half way, or two overlapped
  fpc, floc  \* per flow: the await it stands at, its document and its try

fiscal  == <<started, docs, docId, atStatus, pdf, excused, fpc, floc>>
allVars == <<vars, fiscal>>

Idle == [doc |-> 0, try |-> 0]
Made == {d \in DocIds : docs[d] # "none"}

FlowTo(f, at, l) == /\ fpc'  = [fpc  EXCEPT ![f] = at]
                    /\ floc' = [floc EXCEPT ![f] = l]

FiscalInit ==
  /\ started = [t \in Triggers |-> 0]
  /\ docs = [d \in DocIds |-> "none"]
  /\ docId = 0
  /\ atStatus = "none"
  /\ pdf = 0
  /\ excused = FALSE
  /\ fpc = [f \in Flows |-> "idle"]
  /\ floc = [f \in Flows |-> Idle]

-----------------------------------------------------------------------------
(* orchestrateFiscalFlow.                                                  *)

\* Between client and store a flow has not yet told the others of its document.
Unseen == {"client", "create", "store"}

\* An event reaches its listener, which reads the invoice; an event whose process
\* has died, or whose invoice is gone, cancelled, a draft or documented, ends here.
FlowEnd(t) ==
  /\ started[t] < emitted[t]
  /\ started' = [started EXCEPT ![t] = @ + 1]
  /\ UNCHANGED <<docs, docId, atStatus, pdf, excused, fpc, floc>>

\* Mutation: the flow does not look for an earlier document.
FlowStartAgain(f, t) ==
  /\ fpc[f] = "idle"
  /\ started[t] < emitted[t]
  /\ status \notin {"none", "cancelled", "draft"}
  /\ started' = [started EXCEPT ![t] = @ + 1]
  /\ FlowTo(f, "client", [Idle EXCEPT !.try = 1])
  /\ excused' = (excused \/ \E g \in Flows \ {f} : fpc[g] \in Unseen)
  /\ UNCHANGED <<docs, docId, atStatus, pdf>>

FlowStart(f, t) ==
  /\ fpc[f] = "idle"
  /\ started[t] < emitted[t]
  /\ docId = 0
  /\ status \notin {"none", "cancelled", "draft"}
  /\ started' = [started EXCEPT ![t] = @ + 1]
  /\ FlowTo(f, "client", [Idle EXCEPT !.try = 1])
  /\ excused' = (excused \/ \E g \in Flows \ {f} : fpc[g] \in Unseen)
  /\ UNCHANGED <<docs, docId, atStatus, pdf>>

\* Mutation: one try more than there are.
AgainOnceMore(f) ==
  IF floc[f].try <= Tries THEN FlowTo(f, "client", [Idle EXCEPT !.try = floc[f].try + 1])
  ELSE FlowTo(f, "giveup", Idle)

\* Mutation: a failed try does not count.
AgainUncounted(f) == FlowTo(f, "client", [Idle EXCEPT !.try = floc[f].try])

\* A try has thrown: the next one starts over, the last one gives up.
Again(f) ==
  IF floc[f].try < Tries THEN FlowTo(f, "client", [Idle EXCEPT !.try = floc[f].try + 1])
  ELSE FlowTo(f, "giveup", Idle)

\* A call rejects or a statement is refused.  A flow that an admin started (try 0)
\* reports the error and ends.
FlowThrow(f) ==
  /\ fpc[f] \in {"client", "create", "store", "at.error", "pdf", "mail"}
  /\ IF floc[f].try = 0 THEN FlowTo(f, "idle", Idle) ELSE Again(f)
  /\ excused' = (excused \/ (floc[f].try # 0 /\ floc[f].doc # 0))
  /\ UNCHANGED <<started, docs, docId, atStatus, pdf>>

GiveUp(f) ==
  /\ fpc[f] = "giveup"
  /\ status # "none"
  /\ atStatus' = "error"
  /\ FlowTo(f, "idle", Idle)
  /\ UNCHANGED <<started, docs, docId, pdf, excused>>

\* The process dies, or the last update is refused because the invoice is gone.
FlowCrash(f) ==
  /\ fpc[f] # "idle"
  /\ FlowTo(f, "idle", Idle)
  /\ excused' = (excused \/ fpc[f] = "store")
  /\ UNCHANGED <<started, docs, docId, atStatus, pdf>>

-----------------------------------------------------------------------------
(* runOnce.                                                                *)

SyncClient(f) ==
  /\ fpc[f] = "client"
  /\ status # "none"
  /\ atStatus' = "pending"
  /\ FlowTo(f, "create", floc[f])
  /\ UNCHANGED <<started, docs, docId, pdf, excused>>

\* TOConline creates the document, and the answer arrives or is lost.
CreateDocument(f, d) ==
  /\ fpc[f] = "create"
  /\ docs[d] = "none"
  /\ \A e \in DocIds : e < d => docs[e] # "none"
  /\ docs' = [docs EXCEPT ![d] = "created"]
  /\ \/ FlowTo(f, "store", [floc[f] EXCEPT !.doc = d]) /\ UNCHANGED excused
     \/ Again(f) /\ excused' = TRUE
  /\ UNCHANGED <<started, docId, atStatus, pdf>>

StoreDocument(f) ==
  /\ fpc[f] = "store"
  /\ status # "none"
  /\ docId' = floc[f].doc
  /\ FlowTo(f, IF AtCredentials THEN "at" ELSE "pdf", floc[f])
  /\ UNCHANGED <<started, docs, atStatus, pdf, excused>>

\* Mutation: the PATCH to the AT is not awaited.
CommunicateUnawaited(f) ==
  /\ fpc[f] = "at"
  /\ FlowTo(f, "at.save", floc[f])
  /\ UNCHANGED <<started, docs, docId, atStatus, pdf, excused>>

\* The AT takes the document and answers, takes it and the answer is lost, or refuses.
Communicate(f) ==
  /\ fpc[f] = "at"
  /\ \/ /\ docs' = [docs EXCEPT ![floc[f].doc] = "reported"]
        /\ \E at \in {"at.save", "at.error"} : FlowTo(f, at, floc[f])
     \/ FlowTo(f, "at.error", floc[f]) /\ UNCHANGED docs
  /\ UNCHANGED <<started, docId, atStatus, pdf, excused>>

\* The catch around both covers the update, too.
SaveReported(f) ==
  /\ fpc[f] = "at.save"
  /\ \/ status # "none" /\ atStatus' = "sent_at" /\ FlowTo(f, "pdf", floc[f])
     \/ FlowTo(f, "at.error", floc[f]) /\ UNCHANGED atStatus
  /\ UNCHANGED <<started, docs, docId, pdf, excused>>

SaveAtError(f) ==
  /\ fpc[f] = "at.error"
  /\ status # "none"
  /\ atStatus' = "error"
  /\ IF floc[f].try = 0 THEN FlowTo(f, "idle", Idle) ELSE FlowTo(f, "pdf", floc[f])
  /\ UNCHANGED <<started, docs, docId, pdf, excused>>

\* Three downloads are tried; with a PDF its address is stored and it is mailed.
SavePdf(f) ==
  /\ fpc[f] = "pdf"
  /\ \/ /\ status # "none"
        /\ pdf' = floc[f].doc
        /\ IF floc[f].try = 0 THEN FlowTo(f, "idle", Idle) ELSE FlowTo(f, "mail", floc[f])
     \/ /\ status # "none" \/ floc[f].try = 0
        /\ FlowTo(f, "idle", Idle)
        /\ UNCHANGED pdf
  /\ UNCHANGED <<started, docs, docId, atStatus, excused>>

Mail(f) ==
  /\ fpc[f] = "mail"
  /\ FlowTo(f, "idle", Idle)
  /\ UNCHANGED <<started, docs, docId, atStatus, pdf, excused>>

-----------------------------------------------------------------------------
(* What an admin may ask for: retryCommunicateToAT, pullFiscalPdf.          *)

RetryReport(f) ==
  /\ fpc[f] = "idle"
  /\ status # "none" /\ docId # 0
  /\ FlowTo(f, IF AtCredentials THEN "at" ELSE "at.error", [Idle EXCEPT !.doc = docId])
  /\ UNCHANGED <<started, docs, docId, atStatus, pdf, excused>>

PullPdf(f) ==
  /\ fpc[f] = "idle"
  /\ status # "none" /\ docId # 0
  /\ FlowTo(f, "pdf", [Idle EXCEPT !.doc = docId])
  /\ UNCHANGED <<started, docs, docId, atStatus, pdf, excused>>

-----------------------------------------------------------------------------
FlowStep(f) ==
  \/ FlowThrow(f) \/ GiveUp(f) \/ FlowCrash(f)
  \/ SyncClient(f) \/ StoreDocument(f) \/ Communicate(f) \/ SaveReported(f)
  \/ SaveAtError(f) \/ SavePdf(f) \/ Mail(f) \/ RetryReport(f) \/ PullPdf(f)
  \/ \E d \in DocIds : CreateDocument(f, d)
  \/ \E t \in Triggers : FlowStart(f, t)

FiscalNext == (\E f \in Flows : FlowStep(f)) \/ \E t \in Triggers : FlowEnd(t)

ComposedNext == \/ Next /\ UNCHANGED fiscal
                \/ FiscalNext /\ UNCHANGED vars

FiscalSpec == Init /\ FiscalInit /\ [][ComposedNext]_allVars

\* A flow in progress runs on: every await of it resolves or rejects.
FlowFairness ==
  \A f \in Flows : WF_fiscal(fpc[f] # "idle" /\ FlowStep(f))

FairFiscalSpec == FiscalSpec /\ FlowFairness

-----------------------------------------------------------------------------
(* Properties.                                                             *)

FlowAwaits == Unseen \cup {"idle", "at", "at.save", "at.error", "pdf", "mail", "giveup"}

\* The shape of the fiscal columns, of the documents and of the flows.
FiscalTypeOK ==
  /\ started \in [Triggers -> 0..MaxEvents]
  /\ docs \in [DocIds -> {"none", "created", "reported"}]
  /\ docId \in 0..MaxDocs
  /\ atStatus \in {"none", "pending", "sent_at", "error"}
  /\ pdf \in 0..MaxDocs
  /\ excused \in BOOLEAN
  /\ fpc \in [Flows -> FlowAwaits]
  /\ floc \in [Flows -> [doc : 0..MaxDocs, try : 0..Tries]]

\* toconlineStatus says sent_at only when a document of the invoice has reached the
\* tax authority, whatever tries, overlapping flows and repeats by an admin do to it.
SentAtIsReported == atStatus = "sent_at" => \E d \in DocIds : docs[d] = "reported"

\* Moreover the three fiscal columns speak of one document, the one the row names: its
\* PDF is the stored one and it is the one that was reported, unless a flow failed half
\* way or two overlapped.
ColumnsAgree ==
  /\ SentAtIsReported
  /\ ~excused => /\ pdf \in {0, docId}
                 /\ atStatus = "sent_at" => docId # 0 /\ docs[docId] = "reported"

\* An invoice gets a second fiscal document only when a flow failed after it asked for
\* the first, or when the flows of sent and paid overlapped before either stored it.
SecondDocumentIsExcused == Cardinality(Made) > 1 => excused

\* A flow always comes to an end: three tries, and no wait that has no way out.
FlowsEnd == \A f \in Flows : fpc[f] # "idle" ~> fpc[f] = "idle"
=============================================================================
