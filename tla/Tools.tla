------------------------------- MODULE Tools -------------------------------
(***************************************************************************)
(* Tools of the yard: ToolsService lends them to workers, takes them back  *)
(* through a request that an administrator confirms or skips, and keeps    *)
(* one image per tool in the storage.  A request reads and then writes by  *)
(* id; nothing locks what it has read.                                     *)
(***************************************************************************)
EXTENDS Naturals, FiniteSets

CONSTANTS TRequests,     \* requests served at once
          TWorkers,
          TCopies,       \* bound: checkouts of one worker that are open or read
          TImages,       \* bound: images stored or named
          NoImage

ASSUME ToolsAssumption == NoImage \notin TImages /\ TCopies \subseteq Nat

CheckoutIds == TWorkers \X TCopies

VARIABLES
  tool,       \* the Tool row: not yet made, there or deleted, and its imageUrl
  category,   \* whether the tool's category exists
  checkouts,  \* ToolCheckout by id: its status, or "none" when there is no such row
  images,     \* objects of the bucket tool-images
  toolCut,    \* history: a request failed that had removed the image its row still names
  lentTwice,  \* history: two checks passed together, or a stale return reopened a checkout
  tpc, tloc   \* per request: the await it stands at and what it read

toolVars == <<tool, category, checkouts, images, toolCut, lentTwice, tpc, tloc>>

NewTool  == [is |-> "new", image |-> NoImage]
GoneTool == [is |-> "gone", image |-> NoImage]
NoLoan == [id |-> <<>>, image |-> NoImage, old |-> NoImage, seen |-> {}]

ToolInit ==
  /\ tool = NewTool /\ category = TRUE
  /\ checkouts = [i \in CheckoutIds |-> "none"]
  /\ images = {}
  /\ toolCut = FALSE /\ lentTwice = FALSE
  /\ tpc = [r \in TRequests |-> "idle"]
  /\ tloc = [r \in TRequests |-> NoLoan]

\* ACTIVE_TOOL_CHECKOUT_STATUSES
Open      == {"CHECKED_OUT", "RETURN_PENDING"}
OpenLoans == {i \in CheckoutIds : checkouts[i] \in Open}

\* Checkouts that are over are kept: their id stands for a new one once nobody knows it.
FreeLoans(w) == {i \in CheckoutIds : /\ i[1] = w /\ checkouts[i] \in {"none", "RETURNED"}
                                    /\ \A r \in TRequests : tloc[r].id # i}
FreeImages == {m \in TImages : m \notin images /\ m # tool.image
                               /\ \A r \in TRequests : m \notin {tloc[r].image, tloc[r].old}}
Pick(S) == CHOOSE x \in S : TRUE

TGo(r, at, l) == /\ tpc'  = [tpc  EXCEPT ![r] = at]
                 /\ tloc' = [tloc EXCEPT ![r] = l]
TDone(r) == TGo(r, "idle", NoLoan)

-----------------------------------------------------------------------------
(* Categories and tools.                                                   *)

\* Mutation: the tools of the category are not counted and nothing refuses.
RemoveCategoryAnyway ==
  /\ category
  /\ category' = FALSE
  /\ UNCHANGED <<tool, checkouts, images, toolCut, lentTwice, tpc, tloc>>

\* removeCategory counts the tools and then deletes; the foreign key refuses a late one.
RemoveCategory ==
  /\ category /\ tool.is # "there"
  /\ category' = FALSE
  /\ UNCHANGED <<tool, checkouts, images, toolCut, lentTwice, tpc, tloc>>

CreateCategory ==
  /\ ~category
  /\ category' = TRUE
  /\ UNCHANGED <<tool, checkouts, images, toolCut, lentTwice, tpc, tloc>>

\* createTool writes the row first and the image's url when it is stored.
CreateTool(r) ==
  /\ tpc[r] = "idle"
  /\ category /\ tool.is = "new"
  /\ tool' = [is |-> "there", image |-> NoImage]
  /\ \/ TGo(r, "upload", NoLoan)
     \/ UNCHANGED <<tpc, tloc>>
  /\ UNCHANGED <<category, checkouts, images, toolCut, lentTwice>>

UpdateTool(r) ==
  /\ tpc[r] = "idle"
  /\ tool.is = "there"
  /\ TGo(r, IF tool.image = NoImage THEN "upload" ELSE "remove", [NoLoan EXCEPT !.old = tool.image])
  /\ UNCHANGED <<tool, category, checkouts, images, toolCut, lentTwice>>

\* removeToolImageFromStorage is best-effort: the object may stay.
RemoveOldImage(r) ==
  /\ tpc[r] = "remove"
  /\ images' \in {images, images \ {tloc[r].old}}
  /\ TGo(r, "upload", tloc[r])
  /\ UNCHANGED <<tool, category, checkouts, toolCut, lentTwice>>

\* The path has the time in it: every upload is an object of its own.
UploadImage(r) ==
  /\ tpc[r] = "upload"
  /\ FreeImages # {}
  /\ images' = images \cup {Pick(FreeImages)}
  /\ TGo(r, "save", [tloc[r] EXCEPT !.image = Pick(FreeImages)])
  /\ UNCHANGED <<tool, category, checkouts, toolCut, lentTwice>>

SaveImage(r) ==
  /\ tpc[r] = "save"
  /\ tool.is = "there"
  /\ tool' = [tool EXCEPT !.image = tloc[r].image]
  /\ TDone(r)
  /\ UNCHANGED <<category, checkouts, images, toolCut, lentTwice>>

\* removeTool: no checkout is open; the image goes before the row, whose checkouts cascade.
RemoveToolCheck(r) ==
  /\ tpc[r] = "idle"
  /\ tool.is = "there"
  /\ OpenLoans = {}
  /\ TGo(r, "purge", [NoLoan EXCEPT !.old = tool.image])
  /\ UNCHANGED <<tool, category, checkouts, images, toolCut, lentTwice>>

PurgeImage(r) ==
  /\ tpc[r] = "purge"
  /\ images' \in {images, images \ {tloc[r].old}}
  /\ TGo(r, "delete", tloc[r])
  /\ UNCHANGED <<tool, category, checkouts, toolCut, lentTwice>>

DeleteTool(r) ==
  /\ tpc[r] = "delete"
  /\ tool.is = "there"
  /\ tool' = GoneTool
  /\ checkouts' = [i \in CheckoutIds |-> "none"]
  /\ TDone(r)
  /\ UNCHANGED <<category, images, toolCut, lentTwice>>

-----------------------------------------------------------------------------
(* Checkouts.                                                              *)

\* Mutation: the tool is lent whatever is open.
CheckoutUnchecked(r, w) ==
  /\ tpc[r] = "idle"
  /\ tool.is = "there"
  /\ TGo(r, "lend", [NoLoan EXCEPT !.id = <<w>>, !.seen = OpenLoans])
  /\ UNCHANGED <<tool, category, checkouts, images, toolCut, lentTwice>>

CheckoutCheck(r, w) ==
  /\ tpc[r] = "idle"
  /\ tool.is = "there"
  /\ OpenLoans = {}
  /\ TGo(r, "lend", [NoLoan EXCEPT !.id = <<w>>, !.seen = OpenLoans])
  /\ UNCHANGED <<tool, category, checkouts, images, toolCut, lentTwice>>

CheckoutCreate(r) ==
  LET free == FreeLoans(tloc[r].id[1]) IN
  /\ tpc[r] = "lend"
  /\ tool.is = "there"
  /\ free # {}
  /\ checkouts' = [checkouts EXCEPT ![Pick(free)] = "CHECKED_OUT"]
  /\ lentTwice' = (lentTwice \/ OpenLoans \ tloc[r].seen # {})
  /\ TDone(r)
  /\ UNCHANGED <<tool, category, images, toolCut>>

\* returnTool: a pending request of the worker's is answered as it is.
ReturnRead(r, i) ==
  /\ tpc[r] = "idle"
  /\ checkouts[i] = "CHECKED_OUT"
  /\ \A j \in CheckoutIds : j[1] = i[1] => checkouts[j] # "RETURN_PENDING"
  /\ TGo(r, "return", [NoLoan EXCEPT !.id = i])
  /\ UNCHANGED <<tool, category, checkouts, images, toolCut, lentTwice>>

\* The update goes by id: it reopens a checkout that was ended in between.
ReturnSave(r) ==
  /\ tpc[r] = "return"
  /\ checkouts[tloc[r].id] # "none"
  /\ checkouts' = [checkouts EXCEPT ![tloc[r].id] = "RETURN_PENDING"]
  /\ lentTwice' = (lentTwice \/ checkouts[tloc[r].id] = "RETURNED")
  /\ TDone(r)
  /\ UNCHANGED <<tool, category, images, toolCut>>

ConfirmRead(r, i) ==
  /\ tpc[r] = "idle"
  /\ checkouts[i] = "RETURN_PENDING"
  /\ TGo(r, "end", [NoLoan EXCEPT !.id = i])
  /\ UNCHANGED <<tool, category, checkouts, images, toolCut, lentTwice>>

ForceRead(r, i) ==
  /\ tpc[r] = "idle"
  /\ checkouts[i] \in Open
  /\ TGo(r, "end", [NoLoan EXCEPT !.id = i])
  /\ UNCHANGED <<tool, category, checkouts, images, toolCut, lentTwice>>

EndSave(r) ==
  /\ tpc[r] = "end"
  /\ checkouts[tloc[r].id] # "none"
  /\ checkouts' = [checkouts EXCEPT ![tloc[r].id] = "RETURNED"]
  /\ TDone(r)
  /\ UNCHANGED <<tool, category, images, toolCut, lentTwice>>

\* A statement or the storage fails, or the process dies.
TFail(r) ==
  /\ tpc[r] # "idle"
  /\ toolCut' = \/ toolCut
                \/ /\ tpc[r] \in {"upload", "save", "delete"}
                   /\ tool.image # NoImage /\ tool.image = tloc[r].old
  /\ TDone(r)
  /\ UNCHANGED <<tool, category, checkouts, images, lentTwice>>

ToolNext ==
  \/ RemoveCategory \/ CreateCategory
  \/ \E r \in TRequests :
       \/ CreateTool(r) \/ UpdateTool(r) \/ RemoveOldImage(r) \/ UploadImage(r) \/ SaveImage(r)
       \/ RemoveToolCheck(r) \/ PurgeImage(r) \/ DeleteTool(r)
       \/ \E w \in TWorkers : CheckoutCheck(r, w)
       \/ CheckoutCreate(r) \/ ReturnSave(r) \/ EndSave(r)
       \/ \E i \in CheckoutIds : ReturnRead(r, i) \/ ConfirmRead(r, i) \/ ForceRead(r, i)
       \/ TFail(r)

ToolSpec == ToolInit /\ [][ToolNext]_toolVars

-----------------------------------------------------------------------------
(* Properties.                                                             *)

ToolTypeOK ==
  /\ tool \in [is : {"new", "there", "gone"}, image : TImages \cup {NoImage}]
  /\ category \in BOOLEAN /\ (tool.is = "there" => category)
  /\ checkouts \in [CheckoutIds -> Open \cup {"none", "RETURNED"}]
  /\ images \subseteq TImages
  /\ toolCut \in BOOLEAN /\ lentTwice \in BOOLEAN
  /\ tpc \in [TRequests -> {"idle", "remove", "upload", "save", "purge", "delete", "lend",
                            "return", "end"}]

\* A tool is lent to one worker at a time, unless two requests passed the check together
\* or a return that was asked for came after the checkout had been ended: then the tool
\* may have been lent again, and the old checkout is open beside the new one.
OneOpenCheckout == lentTwice \/ Cardinality(OpenLoans) <= 1

\* The image a tool's row names is in the storage, but for the time a request is replacing
\* or purging it and after one that failed when it had removed it.
ToolImageExists ==
  \/ tool.image \in images \cup {NoImage}
  \/ toolCut
  \/ \E r \in TRequests : tloc[r].old = tool.image /\ tpc[r] # "idle"
=============================================================================
