----------------------------- MODULE Signatures -----------------------------
(***************************************************************************)
(* The drawn signatures of SignaturesService: somebody who may see the     *)
(* project signs a phase's validation, a contract, a report or an          *)
(* inspection.  The row is looked for, the image uploaded under a fresh    *)
(* path and the row created, in three steps that nothing keeps together.   *)
(* Entities do not touch each other: the model follows one.                *)
(***************************************************************************)
EXTENDS Naturals, FiniteSets

CONSTANTS SgRequests,   \* requests served at once
          SgSigners,    \* people with an account
          SgImages,     \* bound: signatures ever drawn, 1..n
          NoSigner

ASSUME SignatureAssumption == SgImages \subseteq Nat \ {0} /\ NoSigner \notin SgSigners

VARIABLES
  target,      \* the kind of the entity
  placed,      \* whether the entity's project belongs to an organisation
  mayMake,     \* people ensureReportProjectAccess lets through
  exists,      \* whether the entity is still there
  signatures,  \* rows: who signed, and the image the row links to
  drawn,       \* images stored in the bucket
  unsigned,    \* history: images whose row was never written
  crossed,     \* history: people two of whose requests were past the check at once
  sgpc, sgloc  \* per request: the await it stands at, its signer and image

signatureVars == <<target, placed, mayMake, exists, signatures, drawn,
                   unsigned, crossed, sgpc, sgloc>>

Targets == {"PHASE_VALIDATION", "CONTRACT", "PROJECT_REPORT", "INSPECTION"}
NoDrawing == [signer |-> NoSigner, image |-> 0]

SignatureInit ==
  /\ target \in Targets /\ placed \in BOOLEAN
  /\ mayMake \in SUBSET SgSigners
  /\ exists = TRUE
  /\ signatures = {} /\ drawn = {} /\ unsigned = {} /\ crossed = {}
  /\ sgpc = [r \in SgRequests |-> "idle"]
  /\ sgloc = [r \in SgRequests |-> NoDrawing]

SgGo(r, at, l) == sgpc' = [sgpc EXCEPT ![r] = at] /\ sgloc' = [sgloc EXCEPT ![r] = l]
entity == <<target, placed, mayMake, exists>>
past   == {"checked", "uploaded"}

-----------------------------------------------------------------------------
(* create.                                                                 *)

\* A report carries its organisation, the others ask their project for it.
Resolved == exists /\ (target = "PROJECT_REPORT" \/ placed)

\* The entity's project, the access to it and the row are read.
BeginSignature(r, u) ==
  /\ sgpc[r] = "idle" /\ Resolved /\ u \in mayMake
  /\ SgGo(r, "resolved", [signer |-> u, image |-> 0])
  /\ UNCHANGED <<entity, signatures, drawn, unsigned, crossed>>

\* findFirst finds no row of this signer.
FindSignature(r) ==
  LET u == sgloc[r].signer
      others == {q \in SgRequests \ {r} : sgpc[q] \in past /\ sgloc[q].signer = u} IN
  /\ sgpc[r] = "resolved"
  /\ \A s \in signatures : s.signer # u
  /\ SgGo(r, "checked", sgloc[r])
  /\ crossed' = IF others = {} THEN crossed ELSE crossed \cup {u}
  /\ UNCHANGED <<entity, signatures, drawn, unsigned>>

\* The row is there, the drawing is no image or the bucket refuses it: 4xx or 500.
RefuseSignature(r) ==
  /\ \/ sgpc[r] = "resolved" /\ \E s \in signatures : s.signer = sgloc[r].signer
     \/ sgpc[r] = "checked"
  /\ SgGo(r, "idle", NoDrawing)
  /\ UNCHANGED <<entity, signatures, drawn, unsigned, crossed>>

\* The path is new every time and the upload does not overwrite.
UploadDrawing(r, i) ==
  /\ sgpc[r] = "checked"
  /\ i \in SgImages \ drawn /\ \A j \in SgImages \ drawn : i <= j
  /\ drawn' = drawn \cup {i}
  /\ SgGo(r, "uploaded", [sgloc[r] EXCEPT !.image = i])
  /\ UNCHANGED <<entity, signatures, unsigned, crossed>>

\* The row names the entity by its id alone: nothing holds it to an entity that exists.
CreateSignature(r) ==
  /\ sgpc[r] = "uploaded"
  /\ signatures' = signatures \cup {sgloc[r]}
  /\ SgGo(r, "idle", NoDrawing)
  /\ UNCHANGED <<entity, drawn, unsigned, crossed>>

\* The database refuses the row or the process dies: the image stays.
LoseSignature(r) ==
  /\ sgpc[r] = "uploaded"
  /\ unsigned' = unsigned \cup {sgloc[r].image}
  /\ SgGo(r, "idle", NoDrawing)
  /\ UNCHANGED <<entity, signatures, drawn, crossed>>

\* A replaced contract, a removed document or a deleted project takes the entity away.
DeleteEntity ==
  /\ exists /\ exists' = FALSE
  /\ UNCHANGED <<target, placed, mayMake, signatures, drawn, unsigned, crossed, sgpc, sgloc>>

SignatureNext ==
  \/ DeleteEntity
  \/ \E r \in SgRequests :
       \/ FindSignature(r) \/ RefuseSignature(r) \/ CreateSignature(r) \/ LoseSignature(r)
       \/ \E u \in SgSigners : BeginSignature(r, u)
       \/ \E i \in SgImages : UploadDrawing(r, i)

SignatureSpec == SignatureInit /\ [][SignatureNext]_signatureVars

-----------------------------------------------------------------------------
SignatureTypeOK ==
  /\ target \in Targets /\ placed \in BOOLEAN /\ exists \in BOOLEAN
  /\ mayMake \subseteq SgSigners /\ crossed \subseteq SgSigners
  /\ signatures \subseteq [signer : SgSigners, image : SgImages]
  /\ drawn \subseteq SgImages /\ unsigned \subseteq SgImages
  /\ sgpc \in [SgRequests -> {"idle", "resolved", "checked", "uploaded"}]
  /\ sgloc \in [SgRequests -> [signer : SgSigners \cup {NoSigner}, image : SgImages \cup {0}]]

\* Nobody signs an entity twice unless two of their requests were past the check at
\* once (the ConflictException of create).
SignedOnce == \A s, t \in signatures : s.signer = t.signer /\ s # t => s.signer \in crossed

\* Every signature shows a stored image, and an image without its signature is one
\* whose row could not be written (upload and create of SignaturesService).
DrawingHasRow ==
  /\ {s.image : s \in signatures} \subseteq drawn
  /\ \A i \in drawn \ unsigned :
       \/ \E s \in signatures : s.image = i
       \/ \E r \in SgRequests : sgloc[r].image = i

SignaturesAgree == SignedOnce /\ DrawingHasRow
=============================================================================
