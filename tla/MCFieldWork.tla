---------------------------- MODULE MCFieldWork ----------------------------
(***************************************************************************)
(* FieldWork for TLC.  The services share no variables, so it is enough to *)
(* explore them side by side: part names the service that moves in a       *)
(* behaviour, and the others stay in an initial state.                     *)
(***************************************************************************)
EXTENDS FieldWork, TLC

VARIABLE part

Parts == {"staffing", "tools", "files", "lists", "access", "timeline",
          "notices", "devices", "accounts", "organisations", "twins",
          "reports", "ratings", "pricing", "signatures"}

\* The e-mails are alike: the project is registered for one of them.
FirstEmail  == CHOOSE e \in Addresses : TRUE
FirstInvite == CHOOSE i \in Invites : TRUE
OtherEmails == Emails \ {FirstEmail}
Inviting    == \E i \in Invites : invite[i].is # "none"

\* Bounds: each stops a component where nothing new happens.
StaffingBound == \/ excuse = {}
                 \/ excuse \in {{"direct"}, {"alone"}} /\ \E r \in SRequests : spc[r] = "idle"
ToolBound     == ~lentTwice
FileBound     == /\ ~doubled
                 /\ keyed \/ ~fileCut
                 /\ (keyed /\ kind = "project") \/ \A r \in FRequests : floc'[r].path # FreePath
                 /\ FreePath \notin objects'
AccessBound   == LET one == CHOOSE w \in AWorkers : TRUE
                     other == CHOOSE a \in AAdmins : TRUE IN
                 /\ assigned' \subseteq {one} /\ members' \in {{}, {one}, {other}}
                 /\ \A w \in AWorkers \ {one} : tier'[w] = "standard"
                 /\ owner' \in AClients \cup {other}
                 /\ \A r \in ARequests :
                      /\ asks'[r].user \in AWorkers =>
                           /\ asks'[r].user = one /\ members' \subseteq {one}
                           /\ owner' \in AClients /\ ~closed'
                      /\ asks'[r].user \in AClients \cup AAdmins =>
                           /\ assigned' = {} /\ tier'[one] = "standard" /\ lead' # one
                           /\ members' \subseteq {other}
DeviceBound   == left = {}
AccountBound  == /\ doubts = {} /\ (doubts' = {} \/ ~Inviting)
                 /\ \A e \in OtherEmails : account'[e].role = "client" /\ e \notin byAdmin'
                 /\ Inviting' =>
                      /\ invite'[FirstInvite].is # "none"
                      /\ account'[FirstEmail] = [NoUser EXCEPT !.is = "real"]
                      /\ \A r \in URequests : /\ upc'[r] \notin {"row", "delete", "unlogin"}
                                              /\ uloc'[r].role = "client"
                                              /\ upc'[r] \in {"update", "profile"} => uloc'[r].e # FirstEmail
                                              /\ upc'[r] = "give" => uloc'[r].e = FirstEmail
                 /\ Inviting' \/ \A e \in OtherEmails : /\ e \in Addresses => account'[e].is = "none"
                                                       /\ e \notin login'
TwinBound     == /\ twinned \subseteq {"customer"}
                 /\ twinned = {} \/ \A k \in Synced : made[k] = 0
RatingBound   == Cardinality(ratings) <= 3
PriceBound    == /\ budget = NoBudget /\ bill = NoBill
                 /\ Cardinality(withdrawn) <= 1 /\ Cardinality({i \in Numbers : shownTo[i] > 0}) <= 1
                 /\ \A i \in Numbers : shownTo[i] <= 1
                 /\ Used # {} => <<budget, bill>>' = <<budget, bill>>
                 /\ Used' = {} \/ Cardinality(Used \ Used') <= 1

Init ==
  /\ part \in Parts
  /\ StaffingInit
  /\ ToolInit
  /\ FileInit /\ (part # "files" => kind = "document")
  /\ ListInit /\ (part # "lists" => family = "projects")
  /\ AccessInit /\ (part # "access" => hasOrg /\ owner = CHOOSE c \in AClients : TRUE)
  /\ TimelineInit
  /\ NoticeInit /\ (part # "notices" =>
       /\ event = "user.created" /\ client \in NAdmins
       /\ leadWorker = Nobody /\ named = client)
  /\ DeviceInit
  /\ AccountInit
  /\ OrgInit
  /\ TwinInit
  /\ ReportInit
  /\ RatingInit
  /\ PriceInit
  /\ SignatureInit /\ (part # "signatures" => target = "CONTRACT" /\ placed /\ mayMake = {})

StaffingMoves ==
  /\ part = "staffing" /\ StaffingNext
  /\ StaffingBound
  /\ UNCHANGED <<part, toolVars, fileVars, listVars, accessVars, timelineVars,
                noticeVars, deviceVars, accountVars, orgVars, twinVars,
                reportVars, ratingVars, priceVars, signatureVars>>

ToolMoves ==
  /\ part = "tools" /\ ToolNext
  /\ ToolBound
  /\ UNCHANGED <<part, staffingVars, fileVars, listVars, accessVars, timelineVars,
                noticeVars, deviceVars, accountVars, orgVars, twinVars,
                reportVars, ratingVars, priceVars, signatureVars>>

FileMoves ==
  /\ part = "files" /\ FileNext
  /\ FileBound
  /\ UNCHANGED <<part, staffingVars, toolVars, listVars, accessVars, timelineVars,
                noticeVars, deviceVars, accountVars, orgVars, twinVars,
                reportVars, ratingVars, priceVars, signatureVars>>

ListMoves ==
  /\ part = "lists" /\ ListNext
  /\ UNCHANGED <<part, staffingVars, toolVars, fileVars, accessVars, timelineVars,
                noticeVars, deviceVars, accountVars, orgVars, twinVars,
                reportVars, ratingVars, priceVars, signatureVars>>

AccessMoves ==
  /\ part = "access" /\ AccessNext
  /\ AccessBound
  /\ UNCHANGED <<part, staffingVars, toolVars, fileVars, listVars, timelineVars,
                noticeVars, deviceVars, accountVars, orgVars, twinVars,
                reportVars, ratingVars, priceVars, signatureVars>>

TimelineMoves ==
  /\ part = "timeline" /\ TimelineNext
  /\ UNCHANGED <<part, staffingVars, toolVars, fileVars, listVars, accessVars,
                noticeVars, deviceVars, accountVars, orgVars, twinVars,
                reportVars, ratingVars, priceVars, signatureVars>>

NoticeMoves ==
  /\ part = "notices" /\ NoticeNext
  /\ UNCHANGED <<part, staffingVars, toolVars, fileVars, listVars, accessVars,
                timelineVars, deviceVars, accountVars, orgVars, twinVars,
                reportVars, ratingVars, priceVars, signatureVars>>

DeviceMoves ==
  /\ part = "devices" /\ DeviceNext
  /\ DeviceBound
  /\ UNCHANGED <<part, staffingVars, toolVars, fileVars, listVars, accessVars,
                timelineVars, noticeVars, accountVars, orgVars, twinVars,
                reportVars, ratingVars, priceVars, signatureVars>>

AccountMoves ==
  /\ part = "accounts" /\ AccountNext
  /\ AccountBound
  /\ UNCHANGED <<part, staffingVars, toolVars, fileVars, listVars, accessVars,
                timelineVars, noticeVars, deviceVars, orgVars, twinVars,
                reportVars, ratingVars, priceVars, signatureVars>>

OrgMoves ==
  /\ part = "organisations" /\ OrgNext
  /\ UNCHANGED <<part, staffingVars, toolVars, fileVars, listVars, accessVars,
                timelineVars, noticeVars, deviceVars, accountVars, twinVars,
                reportVars, ratingVars, priceVars, signatureVars>>

TwinMoves ==
  /\ part = "twins" /\ TwinNext
  /\ TwinBound
  /\ UNCHANGED <<part, staffingVars, toolVars, fileVars, listVars, accessVars,
                timelineVars, noticeVars, deviceVars, accountVars, orgVars,
                reportVars, ratingVars, priceVars, signatureVars>>

ReportMoves ==
  /\ part = "reports" /\ ReportNext
  /\ UNCHANGED <<part, staffingVars, toolVars, fileVars, listVars, accessVars,
                timelineVars, noticeVars, deviceVars, accountVars, orgVars,
                twinVars, ratingVars, priceVars, signatureVars>>

RatingMoves ==
  /\ part = "ratings" /\ RatingNext
  /\ RatingBound
  /\ UNCHANGED <<part, staffingVars, toolVars, fileVars, listVars, accessVars,
                timelineVars, noticeVars, deviceVars, accountVars, orgVars,
                twinVars, reportVars, priceVars, signatureVars>>

PriceMoves ==
  /\ part = "pricing" /\ PriceNext /\ PriceBound
  /\ UNCHANGED <<part, staffingVars, toolVars, fileVars, listVars, accessVars,
                timelineVars, noticeVars, deviceVars, accountVars, orgVars,
                twinVars, reportVars, ratingVars, signatureVars>>

SignatureMoves ==
  /\ part = "signatures" /\ SignatureNext
  /\ UNCHANGED <<part, staffingVars, toolVars, fileVars, listVars, accessVars,
                timelineVars, noticeVars, deviceVars, accountVars, orgVars,
                twinVars, reportVars, ratingVars, priceVars>>

Next ==
  \/ StaffingMoves \/ ToolMoves \/ FileMoves \/ ListMoves \/ AccessMoves
  \/ TimelineMoves \/ NoticeMoves \/ DeviceMoves \/ AccountMoves \/ OrgMoves
  \/ TwinMoves \/ ReportMoves \/ RatingMoves \/ PriceMoves
  \/ SignatureMoves

fieldVars == <<part, staffingVars, toolVars, fileVars, listVars, accessVars,
               timelineVars, noticeVars, deviceVars, accountVars, orgVars,
               twinVars, reportVars, ratingVars, priceVars, signatureVars>>

\* The requests of every part are r1 and r2, and no part tells one from the other.
Symmetry == Permutations(SRequests) \cup Permutations(SWorkers)

MCSpec == Init /\ [][Next]_fieldVars
=============================================================================
