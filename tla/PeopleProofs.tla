---------------------------- MODULE PeopleProofs -----------------------------
(***************************************************************************)
(* People, for any numbers of accounts and requests: how an administrator  *)
(* comes to an organisation, who works on a project, accounts with their   *)
(* logins and invitations, who sees a project, devices that are pushed to  *)
(* and the ratings of a worker.  For each component an inductive invariant *)
(* (its name ends in Inv), one lemma a step and what follows.              *)
(***************************************************************************)
EXTENDS Organisations, Staffing, Accounts, Access, Devices, Ratings, TLAPS, FiniteSetTheorems

-----------------------------------------------------------------------------
(***************************************************************************)
(* Organisations.  An administrator without membership joins the first     *)
(* organisation, or founds one.  FoundedOnce says that until two have      *)
(* founded at once there is one organisation at most, and that whoever is  *)
(* about to found one has found none.                                      *)
(***************************************************************************)

\* Where a request may stand.
OrgStands == {"idle", "first", "found", "founded", "join", "upsert"}
OrgLocals == [a : OAdmins \cup {NoAdmin}, o : OrgIds \cup {0}]

\* A request on its way has an admin, and an organisation that was made once it is to join it.
OrgRequestsKnow ==
  \A r \in ORequests :
    /\ opc[r] # "idle" => oloc[r].a \in OAdmins
    /\ opc[r] \in {"founded", "join", "upsert"} => oloc[r].o \in orgs

\* Nobody belongs to an organisation that was not made.
MembersOfOrgs == \A a \in OAdmins, o \in OrgIds : member[a][o] # "none" => o \in orgs

\* Until two have founded at once there is one organisation, and a request that is about to
\* found it has found none.
FoundedOnce ==
  ~atOnce => /\ \A o, p \in orgs : o = p
             /\ \A r \in ORequests : opc[r] = "found" => orgs = {}

\* The inductive invariant.
OrgIInv ==
  /\ OrgTypeOK
  /\ OrgRequestsKnow /\ MembersOfOrgs /\ FoundedOnce
  /\ wroteTo \subseteq orgs

\* Nobody is member of anything.
LEMMA OrgInitial == OrgInit => OrgIInv
<1> SUFFICES ASSUME OrgInit PROVE OrgIInv
  OBVIOUS
<1>1. OrgTypeOK
  BY DEF OrgInit, OrgTypeOK, NoOrg
<1>2. MembersOfOrgs
  BY DEF OrgInit, MembersOfOrgs
<1> QED BY <1>1, <1>2 DEF OrgInit, OrgIInv, OrgRequestsKnow, FoundedOnce


\* A set of numbers that is not empty has a least one: of the sets 0..n of its members one
\* includes no other, as inclusion of finite sets is well-founded.
LEMMA LeastNumber ==
  ASSUME NEW T, T \subseteq Nat, T # {}
  PROVE  \E m \in T : \A n \in T : m <= n
<1> DEFINE Below(n) == 0 .. n
           U == {Below(n) : n \in T}
<1>1. U \subseteq FiniteSubsetsOf(Nat) /\ U # {}
  <2>1. \A n \in T : IsFiniteSet(0 .. n) /\ 0 .. n \in SUBSET Nat
    BY FS_Interval
  <2> QED BY <2>1 DEF FiniteSubsetsOf
<1>2. PICK X \in U : \A Y \in U : ~ (<<Y, X>> \in StrictSubsetOrdering(Nat))
  BY <1>1, FS_StrictSubsetOrderingWellFounded, WFMin
<1>3. PICK m \in T : X = 0 .. m
  BY <1>2
<1>4. ASSUME NEW n \in T, n < m PROVE FALSE
  <2>1. <<0 .. n, 0 .. m>> \in (SUBSET Nat) \X (SUBSET Nat)
    OBVIOUS
  <2>2. 0 .. n \subseteq 0 .. m /\ m \in 0 .. m /\ m \notin 0 .. n
    BY <1>4
  <2>3. <<0 .. n, 0 .. m>> \in StrictSubsetOrdering(Nat)
    BY <2>1, <2>2 DEF StrictSubsetOrdering
  <2> QED BY <1>2, <1>3, <2>3
<1> QED BY <1>4

\* There is a first organisation once there is one.
LEMMA FirstExists ==
  ASSUME orgs \subseteq OrgIds, orgs # {}
  PROVE  First \in orgs
<1>1. \E o \in orgs : \A p \in orgs : o <= p
  BY OrganisationsAssumption, LeastNumber
<1> QED BY <1>1 DEF First

\* A request goes to another await; the others stay.
LEMMA OrgGoes ==
  ASSUME OrgIInv, NEW r \in ORequests, NEW at \in OrgStands, NEW l \in OrgLocals, OGo(r, at, l)
  PROVE  /\ opc' \in [ORequests -> OrgStands] /\ oloc' \in [ORequests -> OrgLocals]
         /\ opc'[r] = at /\ oloc'[r] = l
         /\ \A q \in ORequests \ {r} : opc'[q] = opc[q] /\ oloc'[q] = oloc[q]
BY DEF OrgIInv, OrgTypeOK, OGo, OrgStands, OrgLocals

\* A step that makes no organisation: its request goes where it may, and what it writes is
\* written to organisations there are.
LEMMA OrgStays ==
  ASSUME OrgIInv, NEW r \in ORequests, NEW at \in OrgStands, NEW l \in OrgLocals, OGo(r, at, l),
         at # "idle" => l.a \in OAdmins,
         at \in {"founded", "join", "upsert"} => l.o \in orgs,
         at = "found" => orgs = {},
         orgs' = orgs, atOnce' = atOnce, wroteTo' \subseteq orgs,
         member' \in [OAdmins -> [OrgIds -> {"none", "other", "admin"}]], MembersOfOrgs'
  PROVE  OrgIInv'
<1>1. /\ opc' \in [ORequests -> OrgStands] /\ oloc' \in [ORequests -> OrgLocals]
      /\ opc'[r] = at /\ oloc'[r] = l
      /\ \A q \in ORequests \ {r} : opc'[q] = opc[q] /\ oloc'[q] = oloc[q]
  BY OrgGoes
<1>2. OrgTypeOK'
  BY <1>1 DEF OrgIInv, OrgTypeOK, OrgStands, OrgLocals
<1>3. OrgRequestsKnow'
  BY <1>1 DEF OrgIInv, OrgRequestsKnow
<1>4. FoundedOnce'
  BY <1>1 DEF OrgIInv, FoundedOnce
<1> QED BY <1>2, <1>3, <1>4 DEF OrgIInv

\* What an idle request holds.
LEMMA NoOrgIsLocal == NoOrg \in OrgLocals /\ "idle" \in OrgStands
BY DEF NoOrg, OrgLocals, OrgStands

\* An admin writes to the organisation they administer, or goes on to come to one.
LEMMA LookKeeps ==
  ASSUME OrgIInv, NEW r \in ORequests, NEW a \in OAdmins, Look(r, a)
  PROVE  OrgIInv'
<1>0. /\ orgs' = orgs /\ member' = member /\ atOnce' = atOnce
      /\ member' \in [OAdmins -> [OrgIds -> {"none", "other", "admin"}]] /\ MembersOfOrgs'
  BY DEF Look, OrgIInv, OrgTypeOK, MembersOfOrgs
<1>1. CASE \E o \in With(a, {"admin"}) : wroteTo' = wroteTo \cup {o} /\ ODone(r)
  <2>1. OGo(r, "idle", NoOrg)
    BY <1>1 DEF ODone
  <2>2. wroteTo' \subseteq orgs
    BY <1>1 DEF OrgIInv, MembersOfOrgs, With
  <2> QED BY <1>0, <2>1, <2>2, NoOrgIsLocal, OrgStays
<1>2. CASE \E o \in With(a, {"other"}) : OGo(r, "join", [a |-> a, o |-> o]) /\ wroteTo' = wroteTo
  <2>1. PICK o \in With(a, {"other"}) : OGo(r, "join", [a |-> a, o |-> o])
    BY <1>2
  <2>2. o \in orgs /\ o \in OrgIds
    BY <2>1 DEF OrgIInv, MembersOfOrgs, With
  <2>3. [a |-> a, o |-> o] \in OrgLocals /\ "join" \in OrgStands
    BY <2>2 DEF OrgLocals, OrgStands
  <2> QED BY <1>0, <1>2, <2>1, <2>2, <2>3, OrgStays DEF OrgIInv
<1>3. CASE OGo(r, "first", [a |-> a, o |-> 0]) /\ wroteTo' = wroteTo
  <2>1. [a |-> a, o |-> 0] \in OrgLocals /\ "first" \in OrgStands
    BY DEF OrgLocals, OrgStands
  <2> QED BY <1>0, <1>3, <2>1, OrgStays DEF OrgIInv
<1> QED BY <1>1, <1>2, <1>3 DEF Look

\* It looks for the first organisation there is.
LEMMA FindFirstKeeps ==
  ASSUME OrgIInv, NEW r \in ORequests, FindFirst(r)
  PROVE  OrgIInv'
<1>0. /\ orgs' = orgs /\ member' = member /\ atOnce' = atOnce /\ wroteTo' \subseteq orgs
      /\ member' \in [OAdmins -> [OrgIds -> {"none", "other", "admin"}]] /\ MembersOfOrgs'
  BY DEF FindFirst, OrgIInv, OrgTypeOK, MembersOfOrgs
<1>1. oloc[r] \in OrgLocals /\ oloc[r].a \in OAdmins
  BY DEF FindFirst, OrgIInv, OrgTypeOK, OrgLocals, OrgRequestsKnow
<1>2. CASE orgs = {}
  <2>1. OGo(r, "found", oloc[r]) /\ "found" \in OrgStands
    BY <1>2 DEF FindFirst, OrgStands
  <2> QED BY <1>0, <1>1, <1>2, <2>1, OrgStays
<1>3. CASE orgs # {}
  <2> DEFINE l == [oloc[r] EXCEPT !.o = First]
  <2>1. First \in orgs /\ First \in OrgIds
    BY <1>3, FirstExists DEF OrgIInv, OrgTypeOK
  <2>2. l \in OrgLocals /\ l.a = oloc[r].a /\ l.o = First
    BY <1>1, <2>1 DEF OrgLocals
  <2>3. OGo(r, "join", l) /\ "join" \in OrgStands
    BY <1>3 DEF FindFirst, OrgStands
  <2> HIDE DEF l
  <2> QED BY <1>0, <1>1, <2>1, <2>2, <2>3, OrgStays
<1> QED BY <1>2, <1>3

\* Whoever founds with nobody else about to found finds none, or it is written down.
LEMMA FoundKeeps ==
  ASSUME OrgIInv, NEW r \in ORequests, NEW o \in OrgIds, Found(r, o)
  PROVE  OrgIInv'
<1> DEFINE l == [oloc[r] EXCEPT !.o = o]
<1>1. oloc[r] \in OrgLocals /\ oloc[r].a \in OAdmins
  BY DEF Found, OrgIInv, OrgTypeOK, OrgLocals, OrgRequestsKnow
<1>2. l \in OrgLocals /\ l.a \in OAdmins /\ l.o = o
  BY <1>1 DEF OrgLocals
<1>3. OGo(r, "founded", l) /\ "founded" \in OrgStands
  BY DEF Found, OrgStands
<1> HIDE DEF l
<1>4. /\ opc' \in [ORequests -> OrgStands] /\ oloc' \in [ORequests -> OrgLocals]
      /\ opc'[r] = "founded" /\ oloc'[r] = l
      /\ \A q \in ORequests \ {r} : opc'[q] = opc[q] /\ oloc'[q] = oloc[q]
  BY <1>2, <1>3, OrgGoes
<1>5. /\ orgs' = orgs \cup {o} /\ member' = member /\ wroteTo' = wroteTo /\ opc[r] = "found"
      /\ atOnce' = (atOnce \/ \E q \in ORequests \ {r} : opc[q] \in {"found", "founded"})
  BY DEF Found
<1>6. OrgTypeOK'
  BY <1>4, <1>5 DEF OrgIInv, OrgTypeOK, OrgStands, OrgLocals
<1>7. OrgRequestsKnow' /\ MembersOfOrgs' /\ wroteTo' \subseteq orgs'
  BY <1>2, <1>4, <1>5 DEF OrgIInv, OrgRequestsKnow, MembersOfOrgs
<1>8. FoundedOnce'
  BY <1>4, <1>5 DEF OrgIInv, FoundedOnce
<1> QED BY <1>6, <1>7, <1>8 DEF OrgIInv

\* A membership is written to an organisation that was made.
LEMMA MemberWritten ==
  ASSUME OrgIInv, NEW a \in OAdmins, NEW o \in orgs, NEW role \in {"other", "admin"},
         member' = [member EXCEPT ![a][o] = role], orgs' = orgs
  PROVE  member' \in [OAdmins -> [OrgIds -> {"none", "other", "admin"}]] /\ MembersOfOrgs'
BY DEF OrgIInv, OrgTypeOK, MembersOfOrgs

\* It makes its administrator a member of the one it found or founded.
LEMMA JoinKeeps ==
  ASSUME OrgIInv, NEW r \in ORequests, Join(r) \/ Upsert(r)
  PROVE  OrgIInv'
<1>1. /\ OGo(r, "idle", NoOrg) /\ orgs' = orgs /\ atOnce' = atOnce
      /\ opc[r] \in {"founded", "join", "upsert"}
      /\ member' = [member EXCEPT ![oloc[r].a][oloc[r].o] = "admin"]
      /\ wroteTo' \in {wroteTo, wroteTo \cup {oloc[r].o}}
  BY DEF Join, Upsert, ODone
<1>2. oloc[r].a \in OAdmins /\ oloc[r].o \in orgs
  BY <1>1 DEF OrgIInv, OrgRequestsKnow
<1>3. member' \in [OAdmins -> [OrgIds -> {"none", "other", "admin"}]] /\ MembersOfOrgs'
  BY <1>1, <1>2, MemberWritten
<1>4. wroteTo' \subseteq orgs
  BY <1>1, <1>2 DEF OrgIInv
<1> QED BY <1>1, <1>3, <1>4, NoOrgIsLocal, OrgStays

\* An admin who signs in goes to make a membership in the first organisation.
LEMMA SignInKeeps ==
  ASSUME OrgIInv, NEW r \in ORequests, NEW a \in OAdmins, SignIn(r, a)
  PROVE  OrgIInv'
<1>1. /\ orgs' = orgs /\ member' = member /\ atOnce' = atOnce /\ wroteTo' \subseteq orgs
      /\ member' \in [OAdmins -> [OrgIds -> {"none", "other", "admin"}]] /\ MembersOfOrgs'
  BY DEF SignIn, OrgIInv, OrgTypeOK, MembersOfOrgs
<1>2. First \in orgs /\ First \in OrgIds
  BY FirstExists DEF SignIn, OrgIInv, OrgTypeOK
<1>3. [a |-> a, o |-> First] \in OrgLocals /\ "upsert" \in OrgStands
  BY <1>2 DEF OrgLocals, OrgStands
<1> QED BY <1>1, <1>2, <1>3, OrgStays DEF SignIn

\* A membership is entered beside the requests, in the first organisation.
LEMMA ByHandKeeps ==
  ASSUME OrgIInv, NEW a \in OAdmins, ByHand(a)
  PROVE  OrgIInv'
<1>1. First \in orgs
  BY FirstExists DEF ByHand, OrgIInv, OrgTypeOK
<1>2. member' \in [OAdmins -> [OrgIds -> {"none", "other", "admin"}]] /\ MembersOfOrgs'
  BY <1>1, MemberWritten DEF ByHand
<1> QED BY <1>2 DEF ByHand, OrgIInv, OrgTypeOK, OrgRequestsKnow, FoundedOnce

\* A request fails and leaves what it has written.
LEMMA OFailKeeps ==
  ASSUME OrgIInv, NEW r \in ORequests, OFail(r)
  PROVE  OrgIInv'
<1>1. /\ orgs' = orgs /\ member' = member /\ atOnce' = atOnce /\ wroteTo' \subseteq orgs
      /\ member' \in [OAdmins -> [OrgIds -> {"none", "other", "admin"}]] /\ MembersOfOrgs'
  BY DEF OFail, OrgIInv, OrgTypeOK, MembersOfOrgs
<1> QED BY <1>1, NoOrgIsLocal, OrgStays DEF OFail, ODone

\* Every step keeps the invariant.
LEMMA OrgStep == OrgIInv /\ [OrgNext]_orgVars => OrgIInv'
<1> SUFFICES ASSUME OrgIInv, [OrgNext]_orgVars PROVE OrgIInv'
  OBVIOUS
<1>1. CASE UNCHANGED orgVars
  BY <1>1 DEF orgVars, OrgIInv, OrgTypeOK, OrgRequestsKnow, MembersOfOrgs, FoundedOnce
<1> QED
  BY <1>1, LookKeeps, SignInKeeps, FindFirstKeeps, JoinKeeps, OFailKeeps, FoundKeeps, ByHandKeeps
     DEF OrgNext, CreateCrew, CaptureItem

\* The invariant holds of every behaviour.
LEMMA OrganisationsHold == OrgSpec => []OrgIInv
BY OrgInitial, OrgStep, PTL DEF OrgSpec

\* The invariant is more than the types and that an administrator has one organisation.
LEMMA OneOrganisationFollows == OrgIInv => OrgTypeOK /\ OneOrganisation
<1> SUFFICES ASSUME OrgIInv, ~atOnce PROVE Cardinality(orgs) <= 1
  BY DEF OrgIInv, OneOrganisation
<1>1. CASE orgs = {}
  BY <1>1, FS_EmptySet
<1>2. CASE orgs # {}
  <2>1. PICK o : orgs = {o}
    BY <1>2 DEF OrgIInv, FoundedOnce
  <2> QED BY <2>1, FS_Singleton
<1> QED BY <1>1, <1>2

-----------------------------------------------------------------------------
(***************************************************************************)
(* Who works on a project.  Assignment rows, the contract and the phases   *)
(* are written in several statements.  PhasesAreStaffed lets a phase's     *)
(* worker be without a row while a request is on its way to clear the      *)
(* phase, LeadIsContracts lets the leads differ from the contract's worker *)
(* while one is on its way to sync them, and the history excuses what a    *)
(* crash, a race or a contract made alone leaves.                          *)
(***************************************************************************)

\* Where a request may stand.
StaffStands == {"idle", "assign", "create", "remove", "clear", "contract", "leads", "sync",
                "commit", "member", "phase"}
StaffLocals == [w : SWorkers \cup {NoWorker}, role : Roles, id : RowIds \cup {NoId}, rest : Seq(SWorkers),
                lead : BOOLEAN, seen : SUBSET RowIds, leads : SUBSET SWorkers, gone : SUBSET RowIds,
                phases : SUBSET SPhases]

\* The types, of the requests' places and of what they hold too.
StaffTypes ==
  /\ StaffingTypeOK /\ spc \in [SRequests -> StaffStands] /\ sloc \in [SRequests -> StaffLocals]

\* What a request that stands there knows: who it is for, that it found no row to assign
\* beside, and that the row it works on is theirs.
StaffKnows(at, l) ==
  /\ at \notin {"idle", "member"} => l.w \in SWorkers
  /\ at = "create" => l.seen = {}
  /\ at = "remove" => l.id \in RowIds /\ l.id[1] = l.w
  /\ at = "commit" => l.id = NoId \/ (l.id \in RowIds /\ l.id[1] = l.w)
  /\ at = "member" => l.rest # <<>>

\* The leads that go are of workers whose phases go.
LeadsAreKnown(r) == spc[r] = "commit" => Workers(sloc[r].gone) \subseteq sloc[r].leads

\* A worker has one row.
RowsAreAlone == \A i, j \in RowIds : rows[i] # "none" /\ rows[j] # "none" /\ i[1] = j[1] => i = j

\* The worker of a phase has a row, or a request that removes one has yet to clear it.
PhasesAreStaffed ==
  \A p \in SPhases : phaseOf[p] # NoWorker => RowsOf(phaseOf[p]) # {} \/ Clearing(phaseOf[p])

\* One contract at a time waits for its lead, and it is the one that counts.
PendingIsOne ==
  \A r \in SRequests : LeadPending(r) =>
    /\ contractOf = sloc[r].w \/ sloc[r].w \notin staff
    /\ \A q \in SRequests : LeadPending(q) => q = r

\* The leads are the contract's worker, or a request has yet to make them so.
LeadIsContracts == (\E r \in SRequests : LeadPending(r)) \/ \A i \in Leads : i[1] = contractOf

\* The leads are right, if requests did not race, since the last one that set them right.
LeadsClear == excuse \cap {"direct", "alone"} = {}
LeadOK == "raced" \notin excuse => PendingIsOne /\ (LeadsClear => LeadIsContracts)

\* The inductive invariant.
StaffIInv ==
  /\ StaffTypes
  /\ \A r \in SRequests : StaffKnows(spc[r], sloc[r])
  /\ "raced" \notin excuse => RowsAreAlone /\ \A r \in SRequests : LeadsAreKnown(r)
  /\ excuse \cap {"raced", "cut"} = {} => PhasesAreStaffed
  /\ LeadOK

\* The id of a row tells its worker.
LEMMA RowIdParts ==
  /\ \A i \in RowIds : i[1] \in SWorkers /\ i[2] \in Nat /\ i # NoId
  /\ NoId[1] = NoWorker
<1>1. NoId[1] = NoWorker
  BY DEF NoId
<1>2. ASSUME NEW i \in RowIds PROVE i[1] \in SWorkers /\ i[2] \in Nat
  BY StaffingAssumption DEF RowIds
<1> QED BY <1>1, <1>2, StaffingAssumption

\* What an idle request holds.
LEMMA NoStaffingIsLocal ==
  /\ NoStaffing \in StaffLocals /\ NoStaffing.w = NoWorker /\ NoStaffing.id = NoId /\ NoStaffing.seen = {}
  /\ NoStaffing.gone = {} /\ NoStaffing.rest = <<>>
BY DEF NoStaffing, StaffLocals, Roles

\* Nobody works on the project.
LEMMA StaffInitial == StaffingInit => StaffIInv
<1> SUFFICES ASSUME StaffingInit PROVE StaffIInv
  OBVIOUS
<1>1. StaffTypes
  <2>1. \A i \in RowIds : rows[i] = "none"
    BY DEF StaffingInit
  <2>2. Workers({i \in RowIds : rows[i] # "none"}) \subseteq staff
    BY <2>1 DEF Workers
  <2> QED BY <2>2, NoStaffingIsLocal DEF StaffingInit, StaffTypes, StaffingTypeOK, StaffStands, Roles
<1>2. RowsAreAlone /\ PhasesAreStaffed
  BY DEF StaffingInit, RowsAreAlone, PhasesAreStaffed
<1>3. PendingIsOne /\ LeadIsContracts
  BY DEF StaffingInit, PendingIsOne, LeadIsContracts, LeadPending, Leads
<1> QED BY <1>1, <1>2, <1>3 DEF StaffingInit, StaffIInv, LeadOK, StaffKnows, LeadsAreKnown

\* A request goes to another await; the others stay.
LEMMA StaffGoes ==
  ASSUME StaffTypes, NEW r \in SRequests, NEW at \in StaffStands, NEW l \in StaffLocals, SGo(r, at, l)
  PROVE  /\ spc' \in [SRequests -> StaffStands] /\ sloc' \in [SRequests -> StaffLocals]
         /\ spc'[r] = at /\ sloc'[r] = l
         /\ \A q \in SRequests \ {r} : spc'[q] = spc[q] /\ sloc'[q] = sloc[q]
BY DEF StaffTypes, SGo

\* Who has finished a member's turn, or its request, stands where it knows enough.
LEMMA StaffNextTurn ==
  ASSUME StaffTypes, NEW r \in SRequests, NEW l \in StaffLocals, SNext(r, l)
  PROVE  /\ spc' \in [SRequests -> StaffStands] /\ sloc' \in [SRequests -> StaffLocals]
         /\ spc'[r] \in {"idle", "member"} /\ StaffKnows(spc'[r], sloc'[r])
         /\ \A q \in SRequests \ {r} : spc'[q] = spc[q] /\ sloc'[q] = sloc[q]
<1>1. CASE l.rest = <<>>
  BY <1>1, NoStaffingIsLocal, StaffGoes DEF SNext, SDone, StaffKnows, StaffStands
<1>2. CASE l.rest # <<>>
  <2> DEFINE m == [NoStaffing EXCEPT !.rest = l.rest, !.lead = l.lead]
  <2>1. m \in StaffLocals /\ m.rest # <<>>
    BY <1>2 DEF NoStaffing, StaffLocals, Roles
  <2>2. SGo(r, "member", m)
    BY <1>2 DEF SNext
  <2> HIDE DEF m
  <2> QED BY <2>1, <2>2, StaffGoes DEF StaffKnows, StaffStands
<1> QED BY <1>1, <1>2

\* A request ends; the others stay.
LEMMA StaffEnds ==
  ASSUME StaffTypes, NEW r \in SRequests, SDone(r)
  PROVE  /\ spc' \in [SRequests -> StaffStands] /\ sloc' \in [SRequests -> StaffLocals]
         /\ spc'[r] = "idle" /\ sloc'[r] = NoStaffing /\ StaffKnows(spc'[r], sloc'[r])
         /\ \A q \in SRequests \ {r} : spc'[q] = spc[q] /\ sloc'[q] = sloc[q]
BY NoStaffingIsLocal, StaffGoes DEF SDone, StaffKnows, StaffStands

\* A request that goes on and writes nothing.
LEMMA StaffTurnKeeps ==
  ASSUME StaffIInv, NEW r \in SRequests,
         spc' \in [SRequests -> StaffStands], sloc' \in [SRequests -> StaffLocals],
         \A q \in SRequests \ {r} : spc'[q] = spc[q] /\ sloc'[q] = sloc[q],
         StaffKnows(spc'[r], sloc'[r]),
         staff' = staff, rows' = rows, contractOf' = contractOf, phaseOf' = phaseOf,
         excuse \subseteq excuse', excuse' \subseteq {"raced", "cut", "direct", "alone"},
         "raced" \notin excuse' => LeadsAreKnown(r)',
         spc[r] = "clear" => "cut" \in excuse',
         LeadPending(r)' => LeadPending(r) /\ sloc'[r].w = sloc[r].w,
         LeadPending(r) => LeadPending(r)' \/ "alone" \in excuse'
  PROVE  StaffIInv'
<1>1. StaffTypes'
  BY DEF StaffIInv, StaffTypes, StaffingTypeOK, StaffStands
<1>2. \A q \in SRequests : StaffKnows(spc[q], sloc[q])'
  BY DEF StaffIInv
<1>3. "raced" \notin excuse' => RowsAreAlone' /\ \A q \in SRequests : LeadsAreKnown(q)'
  BY DEF StaffIInv, RowsAreAlone, LeadsAreKnown
<1>4. excuse' \cap {"raced", "cut"} = {} => PhasesAreStaffed'
  BY DEF StaffIInv, PhasesAreStaffed, RowsOf, Clearing
<1>5. LeadOK'
  <2> SUFFICES ASSUME "raced" \notin excuse' PROVE PendingIsOne' /\ (LeadsClear' => LeadIsContracts')
    BY DEF LeadOK
  <2>1. \A q \in SRequests : /\ LeadPending(q)' => LeadPending(q) /\ sloc'[q].w = sloc[q].w
                             /\ LeadPending(q) => LeadPending(q)' \/ "alone" \in excuse'
    BY DEF LeadPending
  <2>2. PendingIsOne'
    BY <2>1 DEF StaffIInv, LeadOK, PendingIsOne
  <2>3. LeadsClear' => LeadIsContracts'
    BY <2>1 DEF StaffIInv, LeadOK, LeadsClear, LeadIsContracts, Leads
  <2> QED BY <2>2, <2>3
<1> QED BY <1>1, <1>2, <1>3, <1>4, <1>5 DEF StaffIInv

\* A step that writes nothing keeps what is said of rows, phases and leads.
LEMMA StaffUnchanged ==
  ASSUME UNCHANGED <<staff, staffRows, excuse>>, StaffIInv
  PROVE  /\ staff' = staff /\ rows' = rows /\ contractOf' = contractOf /\ phaseOf' = phaseOf
         /\ excuse' = excuse /\ excuse' \subseteq {"raced", "cut", "direct", "alone"}
BY DEF staffRows, StaffIInv, StaffTypes, StaffingTypeOK

\* The turns: from where to where, with what.
LEMMA StaffMoveKeeps ==
  ASSUME StaffIInv, NEW r \in SRequests, NEW at \in StaffStands, NEW l \in StaffLocals, SGo(r, at, l),
         UNCHANGED <<staff, staffRows, excuse>>, StaffKnows(at, l), spc[r] # "clear", at # "commit",
         at \in {"leads", "sync"} <=> spc[r] \in {"leads", "sync", "commit"},
         spc[r] \in {"leads", "sync", "commit"} => l.w = sloc[r].w
  PROVE  StaffIInv'
<1>1. /\ spc' \in [SRequests -> StaffStands] /\ sloc' \in [SRequests -> StaffLocals]
      /\ spc'[r] = at /\ sloc'[r] = l
      /\ \A q \in SRequests \ {r} : spc'[q] = spc[q] /\ sloc'[q] = sloc[q]
  BY StaffGoes DEF StaffIInv
<1>2. LeadsAreKnown(r)'
  BY <1>1 DEF LeadsAreKnown
<1>3. LeadPending(r)' <=> LeadPending(r)
  BY <1>1 DEF LeadPending
<1>4. LeadPending(r) => sloc'[r].w = sloc[r].w
  BY <1>1 DEF LeadPending
<1> QED BY <1>1, <1>2, <1>3, <1>4, StaffUnchanged, StaffTurnKeeps

\* The reads of AssignmentsService, CrewsService and PhasesService.
LEMMA StaffReadsKeep ==
  ASSUME StaffIInv, NEW r \in SRequests,
         \/ \E w \in SWorkers :
              \/ \E role \in Roles : AssignCheck(r, "idle", [NoStaffing EXCEPT !.w = w, !.role = role])
              \/ \E i \in RowIds : UnassignRead(r, w, i)
              \/ PhaseCheck(r, w)
         \/ AssignCheck(r, "assign", sloc[r])
  PROVE  StaffIInv'
<1>1. ASSUME NEW w \in SWorkers, NEW role \in Roles, AssignCheck(r, "idle", [NoStaffing EXCEPT !.w = w, !.role = role])
      PROVE  StaffIInv'
  <2> DEFINE k == [NoStaffing EXCEPT !.w = w, !.role = role]
             l == [k EXCEPT !.seen = RowsOf(k.w)]
  <2>1. k \in StaffLocals /\ k.w = w
    BY NoStaffingIsLocal DEF StaffLocals
  <2>2. /\ SGo(r, "create", l) /\ spc[r] = "idle" /\ RowsOf(k.w) = {} /\ UNCHANGED <<staff, staffRows, excuse>>
    BY <1>1 DEF AssignCheck
  <2> HIDE DEF k
  <2>3. l \in StaffLocals /\ l.w = w /\ l.seen = {}
    BY <2>1, <2>2 DEF StaffLocals
  <2> HIDE DEF l
  <2> QED BY <2>2, <2>3, StaffMoveKeeps DEF StaffStands, StaffKnows
<1>2. ASSUME NEW w \in SWorkers, NEW i \in RowIds, UnassignRead(r, w, i) PROVE StaffIInv'
  <2> DEFINE l == [NoStaffing EXCEPT !.w = w, !.id = i]
  <2>1. l \in StaffLocals /\ l.w = w /\ l.id = i
    BY NoStaffingIsLocal DEF StaffLocals
  <2>2. /\ SGo(r, "remove", l) /\ spc[r] = "idle" /\ i[1] = w /\ UNCHANGED <<staff, staffRows, excuse>>
    BY <1>2 DEF UnassignRead, RowsOf
  <2> HIDE DEF l
  <2> QED BY <2>1, <2>2, StaffMoveKeeps DEF StaffStands, StaffKnows
<1>3. ASSUME NEW w \in SWorkers, PhaseCheck(r, w) PROVE StaffIInv'
  <2> DEFINE l == [NoStaffing EXCEPT !.w = w, !.seen = RowsOf(w)]
  <2>1. l \in StaffLocals /\ l.w = w
    BY NoStaffingIsLocal DEF StaffLocals, RowsOf
  <2>2. /\ SGo(r, "phase", l) /\ spc[r] = "idle" /\ UNCHANGED <<staff, staffRows, excuse>>
    BY <1>3 DEF PhaseCheck
  <2> HIDE DEF l
  <2> QED BY <2>1, <2>2, StaffMoveKeeps DEF StaffStands, StaffKnows
<1>4. CASE AssignCheck(r, "assign", sloc[r])
  <2> DEFINE l == [sloc[r] EXCEPT !.seen = RowsOf(sloc[r].w)]
  <2>1. sloc[r] \in StaffLocals /\ sloc[r].w \in SWorkers
    BY <1>4 DEF StaffIInv, StaffTypes, StaffKnows, AssignCheck
  <2>2. /\ SGo(r, "create", l) /\ spc[r] = "assign" /\ RowsOf(sloc[r].w) = {} /\ UNCHANGED <<staff, staffRows, excuse>>
    BY <1>4 DEF AssignCheck
  <2>3. l \in StaffLocals /\ l.w = sloc[r].w /\ l.seen = {}
    BY <2>1, <2>2 DEF StaffLocals
  <2> HIDE DEF l
  <2> QED BY <2>1, <2>2, <2>3, StaffMoveKeeps DEF StaffStands, StaffKnows
<1> QED BY <1>1, <1>2, <1>3, <1>4

\* The transaction that follows a contract reads the leads.
LEMMA SyncLeadsKeeps ==
  ASSUME StaffIInv, NEW r \in SRequests, SyncLeads(r)
  PROVE  StaffIInv'
<1> DEFINE l == [sloc[r] EXCEPT !.leads = Workers(OthersLead(sloc[r].w))]
<1>1. sloc[r] \in StaffLocals /\ sloc[r].w \in SWorkers
  BY DEF StaffIInv, StaffTypes, StaffKnows, SyncLeads
<1>2. Workers(OthersLead(sloc[r].w)) \in SUBSET SWorkers
  BY RowIdParts DEF Workers, OthersLead, Leads
<1>3. /\ SGo(r, "sync", l) /\ spc[r] = "leads" /\ UNCHANGED <<staff, staffRows, excuse>>
  BY DEF SyncLeads
<1>4. l \in StaffLocals /\ l.w = sloc[r].w
  BY <1>1, <1>2 DEF StaffLocals
<1> HIDE DEF l
<1> QED BY <1>1, <1>3, <1>4, StaffMoveKeeps DEF StaffStands, StaffKnows

\* Its statements, which nobody sees before the commit.
LEMMA SyncStatementsKeeps ==
  ASSUME StaffIInv, NEW r \in SRequests, SyncStatements(r)
  PROVE  StaffIInv'
<1> DEFINE w == sloc[r].w
           gone == OthersLead(w)
           clear == {p \in SPhases : phaseOf[p] \in sloc[r].leads}
           l(i) == [sloc[r] EXCEPT !.gone = gone, !.id = i, !.phases = clear]
<1>1. sloc[r] \in StaffLocals /\ w \in SWorkers
  BY DEF StaffIInv, StaffTypes, StaffKnows, SyncStatements
<1>2. PICK i \in IF RowsOf(w) = {} THEN {NoId} ELSE RowsOf(w) : SGo(r, "commit", l(i))
  BY DEF SyncStatements
<1>3. i \in RowIds \cup {NoId} /\ (i = NoId \/ (i \in RowIds /\ i[1] = w))
  BY <1>2 DEF RowsOf
<1>4. gone \subseteq RowIds /\ clear \subseteq SPhases
  BY DEF OthersLead, Leads
<1>5. l(i) \in StaffLocals /\ l(i).w = w /\ l(i).id = i /\ l(i).gone = gone /\ l(i).leads = sloc[r].leads
  BY <1>1, <1>3, <1>4 DEF StaffLocals
<1>6. /\ staff' = staff /\ rows' = rows /\ contractOf' = contractOf /\ phaseOf' = phaseOf /\ spc[r] = "sync"
      /\ excuse \subseteq excuse' /\ excuse' \subseteq excuse \cup {"raced"}
      /\ "raced" \notin excuse' => Workers(gone) \subseteq sloc[r].leads
  BY DEF SyncStatements, Excuse, staffRows
<1>7. PICK k \in StaffLocals : k = l(i)
  BY <1>5
<1>8. SGo(r, "commit", k) /\ k.w = w /\ k.id = i /\ k.gone = gone /\ k.leads = sloc[r].leads
  BY <1>2, <1>5, <1>7
<1>9. /\ spc' \in [SRequests -> StaffStands] /\ sloc' \in [SRequests -> StaffLocals]
      /\ spc'[r] = "commit" /\ sloc'[r] = k
      /\ \A q \in SRequests \ {r} : spc'[q] = spc[q] /\ sloc'[q] = sloc[q]
  BY <1>8, StaffGoes DEF StaffIInv, StaffStands
<1>10. StaffKnows(spc'[r], sloc'[r])
  BY <1>1, <1>3, <1>8, <1>9 DEF StaffKnows
<1>11. "raced" \notin excuse' => LeadsAreKnown(r)'
  BY <1>6, <1>8, <1>9 DEF LeadsAreKnown
<1>12. (LeadPending(r)' <=> LeadPending(r)) /\ sloc'[r].w = sloc[r].w
  BY <1>6, <1>8, <1>9 DEF LeadPending
<1>13. excuse' \subseteq {"raced", "cut", "direct", "alone"}
  BY <1>6 DEF StaffIInv, StaffTypes, StaffingTypeOK
<1> QED BY <1>6, <1>9, <1>10, <1>11, <1>12, <1>13, StaffTurnKeeps

\* A crew is assigned member by member.
LEMMA CrewTurnsKeep ==
  ASSUME StaffIInv, NEW r \in SRequests,
         (\E crew \in CrewLists : AssignCrew(r, crew)) \/ CrewSkip(r) \/ CrewMember(r)
  PROVE  StaffIInv'
<1> USE StaffUnchanged
<1>1. ASSUME NEW l \in StaffLocals, SNext(r, l), spc[r] \in {"idle", "member"}, UNCHANGED <<staff, staffRows, excuse>>
      PROVE  StaffIInv'
  <2>1. /\ spc' \in [SRequests -> StaffStands] /\ sloc' \in [SRequests -> StaffLocals]
        /\ spc'[r] \in {"idle", "member"} /\ StaffKnows(spc'[r], sloc'[r])
        /\ \A q \in SRequests \ {r} : spc'[q] = spc[q] /\ sloc'[q] = sloc[q]
    BY <1>1, StaffNextTurn DEF StaffIInv
  <2>2. LeadsAreKnown(r)' /\ ~LeadPending(r) /\ ~LeadPending(r)'
    BY <1>1, <2>1 DEF LeadsAreKnown, LeadPending
  <2> QED BY <1>1, <2>1, <2>2, StaffTurnKeeps
<1>2. ASSUME NEW crew \in CrewLists, AssignCrew(r, crew) PROVE StaffIInv'
  <2> DEFINE l == [NoStaffing EXCEPT !.rest = crew, !.lead = Leads # {} \/ contractOf # NoWorker]
  <2>1. crew \in Seq(SWorkers)
    BY StaffingAssumption, FS_CardinalityType DEF CrewLists
  <2>2. l \in StaffLocals
    BY <2>1 DEF NoStaffing, StaffLocals, Roles
  <2>3. SNext(r, l) /\ spc[r] = "idle" /\ UNCHANGED <<staff, staffRows, excuse>>
    BY <1>2 DEF AssignCrew
  <2> HIDE DEF l
  <2> QED BY <1>1, <2>2, <2>3
<1>3. ASSUME CrewSkip(r) PROVE StaffIInv'
  <2> DEFINE l == [sloc[r] EXCEPT !.rest = Tail(@)]
  <2>1. sloc[r] \in StaffLocals /\ sloc[r].rest # <<>> /\ sloc[r].rest \in Seq(SWorkers)
    BY <1>3 DEF StaffIInv, StaffTypes, StaffKnows, CrewSkip, StaffLocals
  <2>2. Tail(sloc[r].rest) \in Seq(SWorkers)
    BY <2>1
  <2>3. l \in StaffLocals
    BY <2>1, <2>2 DEF StaffLocals
  <2>4. SNext(r, l) /\ spc[r] = "member" /\ UNCHANGED <<staff, staffRows, excuse>>
    BY <1>3 DEF CrewSkip
  <2> HIDE DEF l
  <2> QED BY <1>1, <2>3, <2>4
<1>4. ASSUME CrewMember(r) PROVE StaffIInv'
  <2> DEFINE w == Head(sloc[r].rest)
             l == [sloc[r] EXCEPT !.w = w, !.rest = Tail(@)]
  <2>1. sloc[r] \in StaffLocals /\ sloc[r].rest # <<>> /\ sloc[r].rest \in Seq(SWorkers)
    BY <1>4 DEF StaffIInv, StaffTypes, StaffKnows, CrewMember, StaffLocals
  <2>2. Tail(sloc[r].rest) \in Seq(SWorkers) /\ w \in SWorkers
    BY <2>1
  <2>3. l \in StaffLocals /\ l.w = w
    BY <2>1, <2>2 DEF StaffLocals
  <2>4. /\ SGo(r, IF l.lead THEN "assign" ELSE "contract", l) /\ spc[r] = "member"
        /\ UNCHANGED <<staff, staffRows, excuse>>
    BY <1>4 DEF CrewMember
  <2> HIDE DEF l, w
  <2> QED BY <2>2, <2>3, <2>4, StaffMoveKeeps DEF StaffStands, StaffKnows
<1> QED BY <1>2, <1>3, <1>4

\* A request fails between two statements.
LEMMA SFailKeeps ==
  ASSUME StaffIInv, NEW r \in SRequests, SFail(r)
  PROVE  StaffIInv'
<1>1. /\ staff' = staff /\ rows' = rows /\ contractOf' = contractOf /\ phaseOf' = phaseOf /\ SDone(r)
      /\ excuse \subseteq excuse' /\ excuse' \subseteq excuse \cup {"cut", "alone"}
      /\ spc[r] = "clear" => "cut" \in excuse'
      /\ LeadPending(r) => "alone" \in excuse'
  BY DEF SFail, Excuse, staffRows
<1>2. /\ spc' \in [SRequests -> StaffStands] /\ sloc' \in [SRequests -> StaffLocals]
      /\ spc'[r] = "idle" /\ StaffKnows(spc'[r], sloc'[r])
      /\ \A q \in SRequests \ {r} : spc'[q] = spc[q] /\ sloc'[q] = sloc[q]
  BY <1>1, StaffEnds DEF StaffIInv
<1>3. LeadsAreKnown(r)' /\ ~LeadPending(r)'
  BY <1>2 DEF LeadsAreKnown, LeadPending
<1>4. excuse' \subseteq {"raced", "cut", "direct", "alone"}
  BY <1>1 DEF StaffIInv, StaffTypes, StaffingTypeOK
<1> QED BY <1>1, <1>2, <1>3, <1>4, StaffTurnKeeps

\* A row that is made has an id nobody else has.
LEMMA FreshRow ==
  ASSUME NEW w \in SWorkers, FreeIds(w) # {}
  PROVE  FreshId(w) \in RowIds /\ FreshId(w)[1] = w /\ rows[FreshId(w)] = "none"
<1> DEFINE T == {i[2] : i \in FreeIds(w)}
<1>1. T \subseteq Nat /\ T # {}
  BY RowIdParts DEF FreeIds
<1>2. PICK m \in T : \A n \in T : m <= n
  BY <1>1, LeastNumber
<1>3. \E i \in FreeIds(w) : \A j \in FreeIds(w) : i[2] <= j[2]
  BY <1>2
<1>4. FreshId(w) \in FreeIds(w)
  BY <1>3 DEF FreshId
<1> QED BY <1>4 DEF FreeIds

\* Assigning: the row is the worker's first, or requests raced.
LEMMA AssignCreateKeeps ==
  ASSUME StaffIInv, NEW r \in SRequests, AssignCreate(r)
  PROVE  StaffIInv'
<1>1. PICK w \in SWorkers : w = sloc[r].w
  BY DEF AssignCreate, StaffIInv, StaffKnows
<1>2. PICK i \in RowIds : i = FreshId(w) /\ i[1] = w /\ rows[i] = "none"
  BY <1>1, FreshRow DEF AssignCreate
<1>3. PICK role \in Roles : role = sloc[r].role
  BY DEF StaffIInv, StaffTypes, StaffLocals
<1>4. sloc[r] \in StaffLocals /\ sloc[r].seen = {}
  BY DEF AssignCreate, StaffIInv, StaffTypes, StaffKnows
<1>5. /\ rows' = [rows EXCEPT ![i] = role] /\ w \in staff /\ SNext(r, sloc[r]) /\ spc[r] = "create"
      /\ excuse \subseteq excuse' /\ excuse' \subseteq excuse \cup {"raced", "direct"}
      /\ "raced" \notin excuse' => RowsOf(w) = {}
      /\ role = "lead_worker" => "direct" \in excuse'
      /\ staff' = staff /\ contractOf' = contractOf /\ phaseOf' = phaseOf
  BY <1>1, <1>2, <1>3, <1>4 DEF AssignCreate
<1>6. /\ spc' \in [SRequests -> StaffStands] /\ sloc' \in [SRequests -> StaffLocals]
      /\ spc'[r] \in {"idle", "member"} /\ StaffKnows(spc'[r], sloc'[r])
      /\ \A q \in SRequests \ {r} : spc'[q] = spc[q] /\ sloc'[q] = sloc[q]
  BY <1>4, <1>5, StaffNextTurn DEF StaffIInv
<1>7. /\ rows' \in [RowIds -> Roles \cup {"none"}] /\ rows'[i] = role /\ role # "none"
      /\ \A j \in RowIds \ {i} : rows'[j] = rows[j]
  BY <1>5 DEF StaffIInv, StaffTypes, StaffingTypeOK, Roles
<1>8. StaffTypes'
  <2>1. Workers({j \in RowIds : rows'[j] # "none"}) \subseteq staff'
    BY <1>2, <1>5, <1>7 DEF StaffIInv, StaffTypes, StaffingTypeOK, Workers
  <2>2. excuse' \subseteq {"raced", "cut", "direct", "alone"}
    BY <1>5 DEF StaffIInv, StaffTypes, StaffingTypeOK
  <2> QED BY <1>5, <1>6, <1>7, <2>1, <2>2 DEF StaffIInv, StaffTypes, StaffingTypeOK, StaffStands
<1>9. \A q \in SRequests : StaffKnows(spc[q], sloc[q])'
  BY <1>6 DEF StaffIInv
<1>10. "raced" \notin excuse' => RowsAreAlone' /\ \A q \in SRequests : LeadsAreKnown(q)'
  <2> SUFFICES ASSUME "raced" \notin excuse' PROVE RowsAreAlone' /\ \A q \in SRequests : LeadsAreKnown(q)'
    OBVIOUS
  <2>1. RowsAreAlone'
    BY <1>2, <1>5, <1>7 DEF StaffIInv, RowsAreAlone, RowsOf
  <2>2. \A q \in SRequests : LeadsAreKnown(q)'
    BY <1>5, <1>6 DEF StaffIInv, LeadsAreKnown
  <2> QED BY <2>1, <2>2
<1>11. excuse' \cap {"raced", "cut"} = {} => PhasesAreStaffed'
  <2> SUFFICES ASSUME excuse' \cap {"raced", "cut"} = {}, NEW p \in SPhases, NEW v, v = phaseOf[p], v # NoWorker
               PROVE  RowsOf(v)' # {} \/ Clearing(v)'
    BY <1>5 DEF PhasesAreStaffed
  <2>1. RowsOf(v) # {} \/ Clearing(v)
    BY <1>5 DEF StaffIInv, PhasesAreStaffed
  <2>2. RowsOf(v) \subseteq RowsOf(v)'
    BY <1>5, <1>7 DEF RowsOf
  <2>3. Clearing(v) => Clearing(v)'
    BY <1>5, <1>6 DEF Clearing
  <2> QED BY <2>1, <2>2, <2>3
<1>12. LeadOK'
  <2> SUFFICES ASSUME "raced" \notin excuse' PROVE PendingIsOne' /\ (LeadsClear' => LeadIsContracts')
    BY DEF LeadOK
  <2>1. \A q \in SRequests : (LeadPending(q)' <=> LeadPending(q)) /\ (LeadPending(q) => sloc'[q].w = sloc[q].w)
    BY <1>5, <1>6 DEF LeadPending
  <2>2. LeadsClear' => Leads' \subseteq Leads
    BY <1>5, <1>7 DEF Leads, LeadsClear
  <2>3. PendingIsOne'
    BY <1>5, <2>1 DEF StaffIInv, LeadOK, PendingIsOne
  <2>4. LeadsClear' => LeadIsContracts'
    BY <1>5, <2>1, <2>2 DEF StaffIInv, LeadOK, LeadsClear, LeadIsContracts
  <2> QED BY <2>3, <2>4
<1> QED BY <1>8, <1>9, <1>10, <1>11, <1>12 DEF StaffIInv

\* The row goes before the phases are cleared.
LEMMA UnassignRowKeeps ==
  ASSUME StaffIInv, NEW r \in SRequests, UnassignRow(r)
  PROVE  StaffIInv'
<1>1. PICK w \in SWorkers : w = sloc[r].w
  BY DEF UnassignRow, StaffIInv, StaffKnows
<1>2. PICK i \in RowIds : i = sloc[r].id /\ i[1] = w
  BY <1>1 DEF UnassignRow, StaffIInv, StaffKnows
<1>3. /\ rows' = [rows EXCEPT ![i] = "none"] /\ SGo(r, "clear", sloc[r]) /\ spc[r] = "remove"
      /\ staff' = staff /\ contractOf' = contractOf /\ phaseOf' = phaseOf /\ excuse' = excuse
  BY <1>2 DEF UnassignRow
<1>4. sloc[r] \in StaffLocals
  BY DEF StaffIInv, StaffTypes
<1>5. /\ spc' \in [SRequests -> StaffStands] /\ sloc' \in [SRequests -> StaffLocals]
      /\ spc'[r] = "clear" /\ sloc'[r] = sloc[r]
      /\ \A q \in SRequests \ {r} : spc'[q] = spc[q] /\ sloc'[q] = sloc[q]
  BY <1>3, <1>4, StaffGoes DEF StaffIInv, StaffStands
<1>6. /\ rows' \in [RowIds -> Roles \cup {"none"}] /\ rows'[i] = "none"
      /\ \A j \in RowIds \ {i} : rows'[j] = rows[j]
  BY <1>3 DEF StaffIInv, StaffTypes, StaffingTypeOK
<1>7. StaffTypes'
  <2>1. Workers({j \in RowIds : rows'[j] # "none"}) \subseteq staff'
    BY <1>3, <1>6 DEF StaffIInv, StaffTypes, StaffingTypeOK, Workers
  <2> QED BY <1>3, <1>5, <1>6, <2>1 DEF StaffIInv, StaffTypes, StaffingTypeOK, StaffStands
<1>8. \A q \in SRequests : StaffKnows(spc[q], sloc[q])'
  BY <1>1, <1>5 DEF StaffIInv, StaffKnows
<1>9. "raced" \notin excuse' => RowsAreAlone' /\ \A q \in SRequests : LeadsAreKnown(q)'
  BY <1>3, <1>5, <1>6 DEF StaffIInv, RowsAreAlone, LeadsAreKnown
<1>10. excuse' \cap {"raced", "cut"} = {} => PhasesAreStaffed'
  <2> SUFFICES ASSUME excuse \cap {"raced", "cut"} = {}, NEW p \in SPhases, NEW v, v = phaseOf[p], v # NoWorker
               PROVE  RowsOf(v)' # {} \/ Clearing(v)'
    BY <1>3 DEF PhasesAreStaffed
  <2>1. CASE v = w
    BY <1>1, <1>5, <2>1 DEF Clearing
  <2>2. CASE v # w
    <3>1. RowsOf(v) # {} \/ Clearing(v)
      BY DEF StaffIInv, PhasesAreStaffed
    <3>2. RowsOf(v) \subseteq RowsOf(v)'
      BY <1>2, <1>3, <1>6, <2>2 DEF RowsOf
    <3>3. Clearing(v) => Clearing(v)'
      BY <1>3, <1>5 DEF Clearing
    <3> QED BY <3>1, <3>2, <3>3
  <2> QED BY <2>1, <2>2
<1>11. LeadOK'
  <2> SUFFICES ASSUME "raced" \notin excuse PROVE PendingIsOne' /\ (LeadsClear' => LeadIsContracts')
    BY <1>3 DEF LeadOK
  <2>1. \A q \in SRequests : (LeadPending(q)' <=> LeadPending(q)) /\ sloc'[q].w = sloc[q].w
    BY <1>3, <1>5 DEF LeadPending
  <2>2. Leads' \subseteq Leads
    BY <1>6 DEF Leads
  <2>3. PendingIsOne'
    BY <1>3, <2>1 DEF StaffIInv, LeadOK, PendingIsOne
  <2>4. LeadsClear' => LeadIsContracts'
    BY <1>3, <2>1, <2>2 DEF StaffIInv, LeadOK, LeadsClear, LeadIsContracts
  <2> QED BY <2>3, <2>4
<1> QED BY <1>7, <1>8, <1>9, <1>10, <1>11 DEF StaffIInv

\* What a request, or a chief without one, writes to the phases.
LEMMA PhaseWriteKeeps ==
  ASSUME StaffIInv,
         NEW turned \in SUBSET SRequests,
         spc' \in [SRequests -> StaffStands], sloc' \in [SRequests -> StaffLocals],
         \A q \in turned : spc[q] \in {"clear", "phase"} /\ spc'[q] = "idle",
         \A q \in SRequests \ turned : spc'[q] = spc[q] /\ sloc'[q] = sloc[q],
         staff' = staff, rows' = rows, contractOf' = contractOf,
         phaseOf' \in [SPhases -> staff \cup {NoWorker}],
         excuse \subseteq excuse', excuse' \subseteq {"raced", "cut", "direct", "alone"},
         excuse' \cap {"raced", "cut"} = {} => PhasesAreStaffed'
  PROVE  StaffIInv'
<1>1. StaffTypes'
  BY DEF StaffIInv, StaffTypes, StaffingTypeOK, StaffStands
<1>2. \A q \in SRequests : StaffKnows(spc[q], sloc[q])'
  BY DEF StaffIInv, StaffKnows
<1>3. "raced" \notin excuse' => RowsAreAlone' /\ \A q \in SRequests : LeadsAreKnown(q)'
  BY DEF StaffIInv, RowsAreAlone, LeadsAreKnown
<1>4. LeadOK'
  <2> SUFFICES ASSUME "raced" \notin excuse' PROVE PendingIsOne' /\ (LeadsClear' => LeadIsContracts')
    BY DEF LeadOK
  <2>1. \A q \in SRequests : (LeadPending(q)' <=> LeadPending(q)) /\ (LeadPending(q) => sloc'[q].w = sloc[q].w)
    BY DEF LeadPending
  <2>2. PendingIsOne'
    BY <2>1 DEF StaffIInv, LeadOK, PendingIsOne
  <2>3. LeadsClear' => LeadIsContracts'
    BY <2>1 DEF StaffIInv, LeadOK, LeadsClear, LeadIsContracts, Leads
  <2> QED BY <2>2, <2>3
<1> QED BY <1>1, <1>2, <1>3, <1>4 DEF StaffIInv

\* The phases of the worker that was removed are cleared.
LEMMA UnassignPhasesKeeps ==
  ASSUME StaffIInv, NEW r \in SRequests, UnassignPhases(r)
  PROVE  StaffIInv'
<1>1. /\ phaseOf' = [p \in SPhases |-> IF phaseOf[p] = sloc[r].w THEN NoWorker ELSE phaseOf[p]]
      /\ SDone(r) /\ spc[r] = "clear"
      /\ staff' = staff /\ rows' = rows /\ contractOf' = contractOf /\ excuse' = excuse
      /\ excuse \subseteq {"raced", "cut", "direct", "alone"} /\ phaseOf \in [SPhases -> staff \cup {NoWorker}]
  BY DEF UnassignPhases, StaffIInv, StaffTypes, StaffingTypeOK
<1>2. /\ spc' \in [SRequests -> StaffStands] /\ sloc' \in [SRequests -> StaffLocals] /\ spc'[r] = "idle"
      /\ \A q \in SRequests \ {r} : spc'[q] = spc[q] /\ sloc'[q] = sloc[q]
  BY <1>1, StaffEnds DEF StaffIInv
<1>3. excuse' \cap {"raced", "cut"} = {} => PhasesAreStaffed'
  <2> SUFFICES ASSUME excuse \cap {"raced", "cut"} = {}, NEW p \in SPhases, NEW v, v = phaseOf'[p], v # NoWorker
               PROVE  RowsOf(v)' # {} \/ Clearing(v)'
    BY <1>1 DEF PhasesAreStaffed
  <2>1. v = phaseOf[p] /\ v # sloc[r].w
    BY <1>1
  <2>2. RowsOf(v) # {} \/ Clearing(v)
    BY <2>1 DEF StaffIInv, PhasesAreStaffed
  <2>3. RowsOf(v)' = RowsOf(v)
    BY <1>1 DEF RowsOf
  <2>4. Clearing(v) => Clearing(v)'
    BY <1>2, <2>1 DEF Clearing
  <2> QED BY <2>2, <2>3, <2>4
<1>4. phaseOf' \in [SPhases -> staff \cup {NoWorker}]
  BY <1>1
<1>5. PICK turned \in SUBSET SRequests : turned = {r}
  OBVIOUS
<1> QED BY <1>1, <1>2, <1>3, <1>4, <1>5, PhaseWriteKeeps

\* A phase is given a worker.
LEMMA PhaseSaveKeeps ==
  ASSUME StaffIInv, NEW r \in SRequests, NEW p \in SPhases, PhaseSave(r, p)
  PROVE  StaffIInv'
<1>0. PICK w \in SWorkers : w = sloc[r].w
  BY DEF StaffIInv, StaffKnows, PhaseSave
<1>1. /\ phaseOf' = [phaseOf EXCEPT ![p] = w] /\ w \in staff
      /\ SDone(r) /\ spc[r] = "phase"
      /\ staff' = staff /\ rows' = rows /\ contractOf' = contractOf
      /\ excuse \subseteq excuse' /\ excuse' \subseteq {"raced", "cut", "direct", "alone"}
      /\ "raced" \notin excuse' => RowsOf(w) # {} \/ Clearing(w)
      /\ phaseOf \in [SPhases -> staff \cup {NoWorker}]
  BY <1>0 DEF PhaseSave, Excuse, StaffIInv, StaffTypes, StaffingTypeOK
<1>2. /\ spc' \in [SRequests -> StaffStands] /\ sloc' \in [SRequests -> StaffLocals] /\ spc'[r] = "idle"
      /\ \A q \in SRequests \ {r} : spc'[q] = spc[q] /\ sloc'[q] = sloc[q]
  BY <1>1, StaffEnds DEF StaffIInv
<1>3. excuse' \cap {"raced", "cut"} = {} => PhasesAreStaffed'
  <2> SUFFICES ASSUME excuse' \cap {"raced", "cut"} = {}, NEW o \in SPhases, NEW v, v = phaseOf'[o], v # NoWorker
               PROVE  RowsOf(v)' # {} \/ Clearing(v)'
    BY DEF PhasesAreStaffed
  <2>1. v = w \/ v = phaseOf[o]
    BY <1>1
  <2>2. RowsOf(v) # {} \/ Clearing(v)
    BY <1>1, <2>1 DEF StaffIInv, PhasesAreStaffed
  <2>3. RowsOf(v)' = RowsOf(v)
    BY <1>1 DEF RowsOf
  <2>4. Clearing(v) => Clearing(v)'
    BY <1>1, <1>2 DEF Clearing
  <2> QED BY <2>2, <2>3, <2>4
<1>4. phaseOf' \in [SPhases -> staff \cup {NoWorker}]
  BY <1>1
<1>5. PICK turned \in SUBSET SRequests : turned = {r}
  OBVIOUS
<1> QED BY <1>1, <1>2, <1>3, <1>4, <1>5, PhaseWriteKeeps

\* A phase is left without one.
LEMMA PhaseClearKeeps ==
  ASSUME StaffIInv, NEW p \in SPhases, PhaseClear(p)
  PROVE  StaffIInv'
<1>1. /\ phaseOf' = [phaseOf EXCEPT ![p] = NoWorker] /\ spc' = spc /\ sloc' = sloc
      /\ staff' = staff /\ rows' = rows /\ contractOf' = contractOf /\ excuse' = excuse
      /\ phaseOf \in [SPhases -> staff \cup {NoWorker}] /\ excuse \subseteq {"raced", "cut", "direct", "alone"}
  BY DEF PhaseClear, StaffIInv, StaffTypes, StaffingTypeOK
<1>2. spc' \in [SRequests -> StaffStands] /\ sloc' \in [SRequests -> StaffLocals]
  BY <1>1 DEF StaffIInv, StaffTypes
<1>3. excuse' \cap {"raced", "cut"} = {} => PhasesAreStaffed'
  BY <1>1 DEF StaffIInv, PhasesAreStaffed, RowsOf, Clearing
<1>4. phaseOf' \in [SPhases -> staff \cup {NoWorker}]
  BY <1>1
<1>5. PICK turned \in SUBSET SRequests : turned = {}
  OBVIOUS
<1> QED BY <1>1, <1>2, <1>3, <1>4, <1>5, PhaseWriteKeeps

\* A contract is made, and its worker is to lead.
LEMMA ContractCreateKeeps ==
  ASSUME StaffIInv, NEW r \in SRequests, NEW at \in {"idle", "contract"}, NEW k \in StaffLocals,
         k.w \in SWorkers, ContractCreate(r, at, k)
  PROVE  StaffIInv'
<1> DEFINE l == [k EXCEPT !.lead = TRUE]
<1>1. l \in StaffLocals /\ l.w = k.w
  BY DEF StaffLocals
<1>2. /\ spc[r] = at /\ k.w \in staff /\ contractOf' = k.w /\ SGo(r, "leads", l)
      /\ excuse \subseteq excuse' /\ excuse' \subseteq excuse \cup {"raced"}
      /\ "raced" \notin excuse' => \A q \in SRequests : ~LeadPending(q)
      /\ staff' = staff /\ rows' = rows /\ phaseOf' = phaseOf
  BY DEF ContractCreate, Excuse
<1> HIDE DEF l
<1>3. /\ spc' \in [SRequests -> StaffStands] /\ sloc' \in [SRequests -> StaffLocals]
      /\ spc'[r] = "leads" /\ sloc'[r] = l
      /\ \A q \in SRequests \ {r} : spc'[q] = spc[q] /\ sloc'[q] = sloc[q]
  BY <1>1, <1>2, StaffGoes DEF StaffIInv, StaffStands
<1>4. StaffTypes'
  BY <1>2, <1>3 DEF StaffIInv, StaffTypes, StaffingTypeOK, StaffStands
<1>5. \A q \in SRequests : StaffKnows(spc[q], sloc[q])'
  BY <1>1, <1>3 DEF StaffIInv, StaffKnows
<1>6. "raced" \notin excuse' => RowsAreAlone' /\ \A q \in SRequests : LeadsAreKnown(q)'
  BY <1>2, <1>3 DEF StaffIInv, RowsAreAlone, LeadsAreKnown
<1>7. excuse' \cap {"raced", "cut"} = {} => PhasesAreStaffed'
  BY <1>2, <1>3 DEF StaffIInv, PhasesAreStaffed, RowsOf, Clearing
<1>8. LeadOK'
  BY <1>1, <1>2, <1>3 DEF LeadOK, PendingIsOne, LeadIsContracts, LeadPending
<1> QED BY <1>4, <1>5, <1>6, <1>7, <1>8 DEF StaffIInv

\* A contract alone leaves the leads to be wrong, and no request waiting.
LEMMA ContractAloneKeeps ==
  ASSUME StaffIInv, NEW w \in SWorkers, ContractAlone(w)
  PROVE  StaffIInv'
<1>1. /\ w \in staff /\ contractOf' = w
      /\ excuse \subseteq excuse' /\ excuse' \subseteq excuse \cup {"raced", "alone"}
      /\ "raced" \notin excuse' => \A q \in SRequests : ~LeadPending(q)
      /\ "alone" \notin excuse' => OthersLead(w) = {}
      /\ staff' = staff /\ rows' = rows /\ phaseOf' = phaseOf /\ spc' = spc /\ sloc' = sloc
  BY DEF ContractAlone
<1>2. StaffTypes'
  BY <1>1 DEF StaffIInv, StaffTypes, StaffingTypeOK, StaffStands
<1>3. \A q \in SRequests : StaffKnows(spc[q], sloc[q])'
  BY <1>1 DEF StaffIInv
<1>4. "raced" \notin excuse' => RowsAreAlone' /\ \A q \in SRequests : LeadsAreKnown(q)'
  BY <1>1 DEF StaffIInv, RowsAreAlone, LeadsAreKnown
<1>5. excuse' \cap {"raced", "cut"} = {} => PhasesAreStaffed'
  BY <1>1 DEF StaffIInv, PhasesAreStaffed, RowsOf, Clearing
<1>6. LeadOK'
  <2> SUFFICES ASSUME "raced" \notin excuse' PROVE PendingIsOne' /\ (LeadsClear' => LeadIsContracts')
    BY DEF LeadOK
  <2>1. PendingIsOne'
    BY <1>1 DEF PendingIsOne, LeadPending
  <2>2. LeadsClear' => LeadIsContracts'
    BY <1>1 DEF LeadsClear, LeadIsContracts, OthersLead, Leads
  <2> QED BY <2>1, <2>2
<1> QED BY <1>2, <1>3, <1>4, <1>5, <1>6 DEF StaffIInv

\* The other steps of a contract.
LEMMA ContractsKeep ==
  ASSUME StaffIInv, NEW r \in SRequests,
         (\E w \in SWorkers : MatchingAssign(r, w)) \/ ContractCreate(r, "contract", sloc[r])
  PROVE  StaffIInv'
<1>1. ASSUME NEW w \in SWorkers, MatchingAssign(r, w) PROVE StaffIInv'
  <2> DEFINE k == [NoStaffing EXCEPT !.w = w]
  <2>1. k \in StaffLocals /\ k.w = w
    BY NoStaffingIsLocal DEF StaffLocals
  <2>2. ContractCreate(r, "idle", k)
    BY <1>1 DEF MatchingAssign
  <2> HIDE DEF k
  <2> QED BY <2>1, <2>2, ContractCreateKeeps
<1>2. CASE ContractCreate(r, "contract", sloc[r])
  <2>1. sloc[r] \in StaffLocals /\ sloc[r].w \in SWorkers
    BY <1>2 DEF ContractCreate, StaffIInv, StaffTypes, StaffKnows
  <2> QED BY <1>2, <2>1, ContractCreateKeeps
<1> QED BY <1>1, <1>2

\* The commit leaves one lead, the contract's worker, and no phase to whom it removed.
LEMMA SyncCommitKeeps ==
  ASSUME StaffIInv, NEW r \in SRequests, SyncCommit(r)
  PROVE  StaffIInv'
<1>1. PICK w \in SWorkers : w = sloc[r].w
  BY DEF SyncCommit, StaffIInv, StaffKnows
<1>2. PICK gone \in SUBSET RowIds : gone = sloc[r].gone
  BY DEF StaffIInv, StaffTypes, StaffLocals
<1>3. PICK leads \in SUBSET SWorkers : leads = sloc[r].leads
  BY DEF StaffIInv, StaffTypes, StaffLocals
<1>4. PICK cleared \in SUBSET SPhases : cleared = sloc[r].phases
  BY DEF StaffIInv, StaffTypes, StaffLocals
<1>5. PICK id \in RowIds \cup {NoId} : id = sloc[r].id
  BY DEF StaffIInv, StaffTypes, StaffLocals
<1>6. id = NoId \/ (id \in RowIds /\ id[1] = w)
  BY <1>1, <1>5 DEF SyncCommit, StaffIInv, StaffKnows
<1> DEFINE kept == [i \in RowIds |-> IF i \in gone THEN "none" ELSE rows[i]]
<1>7. /\ spc[r] = "commit" /\ w \in staff /\ SNext(r, sloc[r])
      /\ \/ id # NoId
            /\ rows' = IF kept[id] = "none" THEN kept ELSE [kept EXCEPT ![id] = "lead_worker"]
         \/ id = NoId /\ FreeIds(w) # {}
            /\ rows' = [kept EXCEPT ![FreshId(w)] = "lead_worker"]
      /\ phaseOf' = [p \in SPhases |-> IF p \in cleared THEN NoWorker ELSE phaseOf[p]]
      /\ staff' = staff /\ contractOf' = contractOf
  BY <1>1, <1>2, <1>3, <1>4, <1>5 DEF SyncCommit
<1>8. /\ excuse \subseteq excuse' \cup {"direct", "alone"} /\ excuse' \subseteq excuse \cup {"raced"}
      /\ "raced" \notin excuse' => /\ id = NoId => RowsOf(w) = {}
                                   /\ \A p \in SPhases : p \in cleared \/ phaseOf[p] \notin leads
                                   /\ Leads \subseteq gone \cup RowsOf(w)
  BY <1>1, <1>2, <1>3, <1>4, <1>5 DEF SyncCommit
<1>9. sloc[r] \in StaffLocals
  BY DEF StaffIInv, StaffTypes
<1>10. /\ spc' \in [SRequests -> StaffStands] /\ sloc' \in [SRequests -> StaffLocals]
       /\ spc'[r] \in {"idle", "member"} /\ StaffKnows(spc'[r], sloc'[r])
       /\ \A q \in SRequests \ {r} : spc'[q] = spc[q] /\ sloc'[q] = sloc[q]
  BY <1>7, <1>9, StaffNextTurn DEF StaffIInv
\* What the commit does to the rows.
<1>11. rows \in [RowIds -> Roles \cup {"none"}]
  BY DEF StaffIInv, StaffTypes, StaffingTypeOK
<1>12. /\ kept \in [RowIds -> Roles \cup {"none"}]
       /\ \A i \in RowIds : kept[i] = IF i \in gone THEN "none" ELSE rows[i]
  BY <1>11
<1> HIDE DEF kept
<1>13. /\ rows' \in [RowIds -> Roles \cup {"none"}]
       /\ \A i \in RowIds : i[1] # w => rows'[i] = kept[i]
  <2>1. CASE id # NoId
    BY <1>6, <1>7, <1>12, <2>1 DEF Roles
  <2>2. CASE id = NoId
    BY <1>7, <1>12, <2>2, FreshRow DEF Roles
  <2> QED BY <2>1, <2>2
<1>14. \A i \in RowIds : i[1] = w /\ i \notin gone /\ rows[i] # "none" => rows'[i] # "none"
  <2>1. CASE id # NoId
    BY <1>6, <1>7, <1>12, <2>1
  <2>2. CASE id = NoId
    BY <1>7, <1>12, <2>2, FreshRow
  <2> QED BY <2>1, <2>2
<1>15. StaffTypes'
  <2>1. Workers({i \in RowIds : rows'[i] # "none"}) \subseteq staff'
    <3> SUFFICES ASSUME NEW i \in RowIds, rows'[i] # "none" PROVE i[1] \in staff
      BY <1>7 DEF Workers
    <3> QED BY <1>7, <1>12, <1>13 DEF StaffIInv, StaffTypes, StaffingTypeOK, Workers
  <2>2. excuse' \subseteq {"raced", "cut", "direct", "alone"}
    BY <1>8 DEF StaffIInv, StaffTypes, StaffingTypeOK
  <2>3. phaseOf' \in [SPhases -> staff \cup {NoWorker}]
    BY <1>7 DEF StaffIInv, StaffTypes, StaffingTypeOK
  <2> QED BY <1>7, <1>10, <1>13, <2>1, <2>2, <2>3 DEF StaffIInv, StaffTypes, StaffingTypeOK, StaffStands
<1>16. \A q \in SRequests : StaffKnows(spc[q], sloc[q])'
  BY <1>10 DEF StaffIInv
<1>17. "raced" \notin excuse' => RowsAreAlone' /\ \A q \in SRequests : LeadsAreKnown(q)'
  <2> SUFFICES ASSUME "raced" \notin excuse' PROVE RowsAreAlone' /\ \A q \in SRequests : LeadsAreKnown(q)'
    OBVIOUS
  <2>1. RowsAreAlone /\ \A q \in SRequests : LeadsAreKnown(q)
    BY <1>8 DEF StaffIInv
  <2>2. \A q \in SRequests : LeadsAreKnown(q)'
    BY <1>10, <2>1 DEF LeadsAreKnown
  <2>3. RowsAreAlone'
    <3> SUFFICES ASSUME NEW i \in RowIds, NEW j \in RowIds, rows'[i] # "none", rows'[j] # "none", i[1] = j[1]
                 PROVE  i = j
      BY DEF RowsAreAlone
    <3>1. CASE i[1] # w
      BY <1>12, <1>13, <2>1, <3>1 DEF RowsAreAlone
    <3>2. CASE i[1] = w /\ id # NoId
      <4>1. \A k \in RowIds : rows'[k] # "none" => kept[k] # "none"
        BY <1>6, <1>7, <1>12, <3>2
      <4> QED BY <1>12, <2>1, <4>1 DEF RowsAreAlone
    <3>3. CASE i[1] = w /\ id = NoId
      <4>1. RowsOf(w) = {}
        BY <1>8, <3>3
      <4>2. \A k \in RowIds : k[1] = w => kept[k] = "none"
        BY <1>12, <4>1 DEF RowsOf
      <4>3. \A k \in RowIds : k[1] = w /\ rows'[k] # "none" => k = FreshId(w)
        BY <1>7, <1>12, <3>3, <4>2
      <4> QED BY <3>3, <4>3
    <3> QED BY <3>1, <3>2, <3>3
  <2> QED BY <2>2, <2>3
<1>18. excuse' \cap {"raced", "cut"} = {} => PhasesAreStaffed'
  <2> SUFFICES ASSUME excuse' \cap {"raced", "cut"} = {}, NEW p \in SPhases, NEW v, v = phaseOf'[p], v # NoWorker
               PROVE  RowsOf(v)' # {} \/ Clearing(v)'
    BY DEF PhasesAreStaffed
  <2>1. v = phaseOf[p] /\ v \notin leads
    BY <1>7, <1>8
  <2>2. RowsOf(v) # {} \/ Clearing(v)
    BY <1>8, <2>1 DEF StaffIInv, PhasesAreStaffed
  <2>3. Workers(gone) \subseteq leads
    BY <1>2, <1>3, <1>7, <1>8 DEF StaffIInv, LeadsAreKnown
  <2>4. \A i \in RowsOf(v) : i \notin gone
    BY <2>1, <2>3 DEF RowsOf, Workers
  <2>5. RowsOf(v) \subseteq RowsOf(v)'
    BY <1>12, <1>13, <1>14, <2>4 DEF RowsOf
  <2>6. Clearing(v) => Clearing(v)'
    BY <1>7, <1>10 DEF Clearing
  <2> QED BY <2>2, <2>5, <2>6
<1>19. LeadOK'
  <2> SUFFICES ASSUME "raced" \notin excuse' PROVE PendingIsOne' /\ (LeadsClear' => LeadIsContracts')
    BY DEF LeadOK
  <2>1. PendingIsOne /\ LeadPending(r)
    BY <1>7, <1>8 DEF StaffIInv, LeadOK, LeadPending
  <2>2. \A q \in SRequests : ~LeadPending(q)'
    BY <1>10, <2>1 DEF PendingIsOne, LeadPending
  <2>3. contractOf = w
    BY <1>1, <1>7, <2>1 DEF PendingIsOne
  <2>4. \A i \in Leads' : i[1] = w
    <3> SUFFICES ASSUME NEW i \in RowIds, rows'[i] = "lead_worker", i[1] # w PROVE FALSE
      BY DEF Leads
    <3>1. i \notin gone /\ rows[i] = "lead_worker"
      BY <1>12, <1>13
    <3>2. i \in RowsOf(w)
      BY <1>8, <3>1 DEF Leads
    <3> QED BY <3>2 DEF RowsOf
  <2> QED BY <1>7, <2>2, <2>3, <2>4 DEF PendingIsOne, LeadIsContracts
<1> QED BY <1>15, <1>16, <1>17, <1>18, <1>19 DEF StaffIInv

\* A worker who is deleted takes the rows along.
LEMMA DeleteWorkerRowsKeeps ==
  ASSUME StaffIInv, NEW w \in SWorkers, DeleteWorkerRows(w)
  PROVE  StaffIInv'
<1>1. /\ staff' = staff \ {w} /\ excuse' = excuse /\ spc' = spc /\ sloc' = sloc
      /\ rows' = [i \in RowIds |-> IF i[1] = w THEN "none" ELSE rows[i]]
      /\ contractOf' = IF contractOf = w THEN NoWorker ELSE contractOf
      /\ phaseOf' = [p \in SPhases |-> IF phaseOf[p] = w THEN NoWorker ELSE phaseOf[p]]
  BY DEF DeleteWorkerRows
<1>2. /\ rows \in [RowIds -> Roles \cup {"none"}] /\ phaseOf \in [SPhases -> staff \cup {NoWorker}]
      /\ contractOf \in staff \cup {NoWorker} /\ w # NoWorker
  BY StaffingAssumption DEF StaffIInv, StaffTypes, StaffingTypeOK
<1>3. StaffTypes'
  <2>1. Workers({i \in RowIds : rows'[i] # "none"}) \subseteq staff'
    BY <1>1 DEF StaffIInv, StaffTypes, StaffingTypeOK, Workers
  <2>2. rows' \in [RowIds -> Roles \cup {"none"}] /\ phaseOf' \in [SPhases -> staff' \cup {NoWorker}]
    BY <1>1, <1>2
  <2>3. staff' \subseteq SWorkers /\ contractOf' \in staff' \cup {NoWorker}
    BY <1>1, <1>2 DEF StaffIInv, StaffTypes, StaffingTypeOK
  <2> QED BY <1>1, <2>1, <2>2, <2>3 DEF StaffIInv, StaffTypes, StaffingTypeOK, StaffStands
<1>4. \A q \in SRequests : StaffKnows(spc[q], sloc[q])'
  BY <1>1 DEF StaffIInv
<1>5. "raced" \notin excuse' => RowsAreAlone' /\ \A q \in SRequests : LeadsAreKnown(q)'
  BY <1>1 DEF StaffIInv, RowsAreAlone, LeadsAreKnown
<1>6. excuse' \cap {"raced", "cut"} = {} => PhasesAreStaffed'
  <2> SUFFICES ASSUME excuse \cap {"raced", "cut"} = {}, NEW p \in SPhases, NEW v, v = phaseOf'[p], v # NoWorker
               PROVE  RowsOf(v)' # {} \/ Clearing(v)'
    BY <1>1 DEF PhasesAreStaffed
  <2>1. v = phaseOf[p] /\ v # w
    BY <1>1, <1>2
  <2>2. RowsOf(v) # {} \/ Clearing(v)
    BY <2>1 DEF StaffIInv, PhasesAreStaffed
  <2>3. RowsOf(v)' = RowsOf(v)
    BY <1>1, <2>1 DEF RowsOf
  <2>4. Clearing(v) => Clearing(v)'
    BY <1>1 DEF Clearing
  <2> QED BY <2>2, <2>3, <2>4
<1>7. LeadOK'
  <2> SUFFICES ASSUME "raced" \notin excuse PROVE PendingIsOne' /\ (LeadsClear' => LeadIsContracts')
    BY <1>1 DEF LeadOK
  <2>1. \A q \in SRequests : LeadPending(q)' <=> LeadPending(q)
    BY <1>1 DEF LeadPending
  <2>2. PendingIsOne'
    BY <1>1, <2>1 DEF StaffIInv, LeadOK, PendingIsOne
  <2>3. Leads' = {i \in Leads : i[1] # w}
    BY <1>1 DEF Leads
  <2>4. LeadsClear' => LeadIsContracts'
    BY <1>1, <2>1, <2>3 DEF StaffIInv, LeadOK, LeadsClear, LeadIsContracts
  <2> QED BY <2>2, <2>4
<1> QED BY <1>3, <1>4, <1>5, <1>6, <1>7 DEF StaffIInv

\* Every step keeps the invariant.
LEMMA StaffStepKeeps == StaffIInv /\ [StaffingNext]_staffingVars => StaffIInv'
<1> SUFFICES ASSUME StaffIInv, [StaffingNext]_staffingVars PROVE StaffIInv'
  OBVIOUS
<1>1. CASE UNCHANGED staffingVars
  BY <1>1 DEF staffingVars, StaffIInv, StaffTypes, StaffingTypeOK, StaffKnows, RowsAreAlone, LeadsAreKnown,
     PhasesAreStaffed, RowsOf, Clearing, LeadOK, LeadsClear, PendingIsOne, LeadIsContracts, Leads, LeadPending
<1> QED
  BY <1>1, StaffReadsKeep, AssignCreateKeeps, UnassignRowKeeps, UnassignPhasesKeeps, ContractsKeep, SyncLeadsKeeps,
     SyncStatementsKeeps, SyncCommitKeeps, CrewTurnsKeep, PhaseSaveKeeps, SFailKeeps, DeleteWorkerRowsKeeps,
     ContractAloneKeeps, PhaseClearKeeps DEF StaffingNext, StaffRequest, StaffStep

\* Which request is on its way to clear a phase or to sync the leads when assignments,
\* phases and contract disagree, and which contract has none, in every behaviour
\* (AssignmentsService, ContractsService).
THEOREM StaffHolds == StaffingSpec => []StaffIInv
BY StaffInitial, StaffStepKeeps, PTL DEF StaffingSpec

\* The invariant is more than the types and the three parts of StaffingAgrees.
LEMMA StaffFollows == StaffIInv => StaffingTypeOK /\ OneActiveRow /\ PhaseWorkerIsAssigned /\ LeadHasTheContract
<1> SUFFICES ASSUME StaffIInv PROVE OneActiveRow /\ PhaseWorkerIsAssigned /\ LeadHasTheContract
  BY DEF StaffIInv, StaffTypes
<1>1. OneActiveRow
  <2> SUFFICES ASSUME "raced" \notin excuse, NEW w \in SWorkers PROVE Cardinality(RowsOf(w)) <= 1
    BY DEF OneActiveRow
  <2>1. CASE RowsOf(w) = {}
    BY <2>1, FS_EmptySet
  <2>2. CASE RowsOf(w) # {}
    <3>1. PICK i \in RowsOf(w) : TRUE
      BY <2>2
    <3>2. RowsOf(w) = {i}
      BY <3>1 DEF StaffIInv, RowsAreAlone, RowsOf
    <3>3. Cardinality({i}) = 1
      BY FS_Singleton
    <3> QED BY <3>2, <3>3
  <2> QED BY <2>1, <2>2
<1>2. PhaseWorkerIsAssigned
  BY DEF StaffIInv, PhasesAreStaffed, PhaseWorkerIsAssigned
<1>3. LeadHasTheContract
  BY DEF StaffIInv, LeadOK, LeadsClear, LeadIsContracts, LeadHasTheContract
<1> QED BY <1>1, <1>2, <1>3

-----------------------------------------------------------------------------
(***************************************************************************)
(* Accounts.  Signing in, administrators' changes and invitations write    *)
(* the same rows from different reads.  Decided says what a sync made sure *)
(* of, RedeemStands what is left of a redeemer's check at its transaction, *)
(* OpenIsTheOwners whom an open invitation is for, ProfilesFollow and      *)
(* LoginsHaveRows who is on the way to make a missing row.                 *)
(***************************************************************************)

\* Where a request may stand.
AccountStands == {"idle", "update", "create", "profile", "row", "unlogin", "invite", "redeem", "give", "delete"}
Works == [e : Emails \cup {NoEmail}, role : UserRoles, was : UserRoles, i : Invites \cup {NoInvite},
          of : Emails \cup {NoEmail}, is : BOOLEAN]
AccountRows == [is : {"none", "stub", "real", "lost"}, role : UserRoles, profile : BOOLEAN]
InviteRows  == [is : {"none", "open", "used", "revoked", "gone"}, of : Emails \cup {NoEmail}]

\* The types, of the requests' places and of what they hold too.
AccountTypes == AccountTypeOK /\ upc \in [URequests -> AccountStands] /\ uloc \in [URequests -> Works]

\* What a sync decided: no worker of a client or an owner, and nothing else of an admin.
Decided(l) == /\ l.role = "worker" => l.is = FALSE /\ l.was # "client"
              /\ l.was = "admin" => l.role = "admin"

\* What a request knows: the account it is about, and what its first statement made sure of.
WorkIsKnown(r) ==
  /\ upc[r] \notin {"idle", "invite"} => uloc[r].e \in Emails
  /\ upc[r] = "update" => Decided(uloc[r])
  /\ upc[r] = "invite" => uloc[r].of \in Emails
  /\ upc[r] = "redeem" => uloc[r].i \in Invites /\ (uloc[r].of = uloc[r].e \/ uloc[r].is = TRUE)

\* The invitation of a request is that of the account it read, as long as it is open.
RedeemStands(r) ==
  upc[r] = "redeem" =>
    /\ invite[uloc[r].i].is # "none"
    /\ invite[uloc[r].i].is = "open" => invite[uloc[r].i].of = uloc[r].of

\* An account that is about to be deleted is no stub: it has been a worker's or an inspector's.
DeletingStands(r) == upc[r] = "delete" => account[uloc[r].e].is \in {"real", "lost"}

RowStands(e) ==
  /\ account[e].is = "stub" => account[e].role = "client"
  /\ account[e].is = "lost" => e \notin byAdmin

\* An invitation that can be redeemed is the owner's.
OpenIsTheOwners ==
  \A i \in Invites : invite[i].is = "open" => invite[i].of = ownedBy /\ ownedBy # NoEmail

\* A worker without a profile is about to get one from the request that made them a worker.
ProfilesFollow ==
  \A e \in Emails :
    account[e].role = "worker" =>
      \/ account[e].profile = TRUE
      \/ \E r \in URequests : upc[r] = "profile" /\ uloc[r].e = e /\ uloc[r].role = "worker"

\* A login an administrator has made has its row, or the request that makes the row, or
\* takes the login back, is on its way.
LoginsHaveRows == \A e \in byAdmin : Exists(e) \/ At(e, {"row", "unlogin"})

OwnerKeeps == OpenIsTheOwners /\ taken = FALSE
AccountsWhole == ProfilesFollow /\ LoginsHaveRows

\* The inductive invariant.
AccountIInv ==
  /\ AccountTypes
  /\ \A r \in URequests : WorkIsKnown(r) /\ RedeemStands(r) /\ DeletingStands(r)
  /\ \A e \in Emails : RowStands(e)
  /\ doubts \cap {"raced", "given"} = {} => OwnerKeeps
  /\ "raced" \notin doubts => demoted = FALSE
  /\ "cut" \notin doubts => AccountsWhole

\* A request that stands idle holds nothing of anybody's.
LEMMA NoWorkIsWork == NoWork \in Works /\ NoWork.e = NoEmail /\ NoWork.of = NoEmail
BY DEF NoWork, Works, UserRoles

\* No account, no project, nobody on the way.
LEMMA AccountInitial == AccountInit => AccountIInv
<1> SUFFICES ASSUME AccountInit PROVE AccountIInv
  OBVIOUS
<1>1. AccountTypes
  BY NoWorkIsWork DEF AccountInit, AccountTypes, AccountTypeOK, AccountStands, NoUser, UserRoles
<1>2. OwnerKeeps
  BY DEF AccountInit, OwnerKeeps, OpenIsTheOwners
<1>3. AccountsWhole /\ \A e \in Emails : RowStands(e)
  BY DEF AccountInit, AccountsWhole, ProfilesFollow, LoginsHaveRows, NoUser, RowStands
<1>4. \A r \in URequests : WorkIsKnown(r) /\ RedeemStands(r) /\ DeletingStands(r)
  BY DEF AccountInit, WorkIsKnown, RedeemStands, DeletingStands
<1> QED BY <1>1, <1>2, <1>3, <1>4 DEF AccountInit, AccountIInv

\* A request goes to another await with what it holds; the others stay.
LEMMA AccountGoes ==
  ASSUME AccountTypes, NEW r \in URequests, NEW at \in AccountStands, NEW l \in Works, UGo(r, at, l)
  PROVE  /\ upc' \in [URequests -> AccountStands] /\ uloc' \in [URequests -> Works]
         /\ upc'[r] = at /\ uloc'[r] = l
         /\ \A q \in URequests \ {r} : upc'[q] = upc[q] /\ uloc'[q] = uloc[q]
BY DEF AccountTypes, UGo

\* A request ends; the others stay.
LEMMA AccountRequestEnds ==
  ASSUME AccountTypes, NEW r \in URequests, UDone(r)
  PROVE  /\ upc' \in [URequests -> AccountStands] /\ uloc' \in [URequests -> Works]
         /\ upc'[r] = "idle" /\ uloc'[r] = NoWork
         /\ \A q \in URequests \ {r} : upc'[q] = upc[q] /\ uloc'[q] = uloc[q]
BY NoWorkIsWork, AccountGoes DEF UDone, AccountStands

\* A row that is written is of the rows' type.
LEMMA AccountRowTyped ==
  ASSUME AccountTypes, NEW e \in Emails
  PROVE  account[e] \in AccountRows /\ NoUser \in AccountRows
BY DEF AccountTypes, AccountTypeOK, NoUser, UserRoles, AccountRows

\* A request that reads: what it goes on with is known, and the rows are as they were.
LEMMA AccountReadKeeps ==
  ASSUME AccountIInv, NEW r \in URequests, upc[r] = "idle",
         NEW at \in {"update", "create", "row", "invite", "redeem", "give", "delete"}, NEW l \in Works, UGo(r, at, l),
         account' = account, ownedBy' = ownedBy, invite' = invite, taken' = taken, demoted' = demoted,
         doubts' = doubts,
         login' \subseteq Addresses, byAdmin' \subseteq login',
         byAdmin' \subseteq byAdmin \cup (IF at = "row" /\ ~Exists(l.e) THEN {l.e} ELSE {}),
         at # "invite" => l.e \in Emails,
         at = "update" => Decided(l),
         at = "invite" => l.of \in Emails,
         at = "redeem" => /\ l.i \in Invites /\ invite[l.i].is # "none" /\ l.of = invite[l.i].of
                          /\ (l.of = l.e \/ l.is = TRUE),
         at = "delete" => account[l.e].is \in {"real", "lost"}
  PROVE  AccountIInv'
<1>1. /\ upc' \in [URequests -> AccountStands] /\ uloc' \in [URequests -> Works]
      /\ upc'[r] = at /\ uloc'[r] = l
      /\ \A q \in URequests \ {r} : upc'[q] = upc[q] /\ uloc'[q] = uloc[q]
  BY AccountGoes DEF AccountIInv, AccountStands
<1>2. AccountTypes'
  BY <1>1 DEF AccountIInv, AccountTypes, AccountTypeOK
<1>3. ASSUME NEW q \in URequests PROVE WorkIsKnown(q)' /\ RedeemStands(q)' /\ DeletingStands(q)'
  <2>1. CASE q = r
    BY <1>1, <2>1 DEF WorkIsKnown, RedeemStands, DeletingStands, Decided
  <2>2. CASE q # r
    BY <1>1, <2>2 DEF AccountIInv, WorkIsKnown, RedeemStands, DeletingStands, Decided
  <2> QED BY <2>1, <2>2
<1>4. \A e \in Emails : RowStands(e)'
  BY DEF AccountIInv, RowStands, Exists
<1>5. OwnerKeeps => OwnerKeeps'
  BY DEF OwnerKeeps, OpenIsTheOwners
<1>6. AccountsWhole => AccountsWhole'
  <2>1. ProfilesFollow => ProfilesFollow'
    BY <1>1 DEF ProfilesFollow
  <2>2. LoginsHaveRows => LoginsHaveRows'
    <3> SUFFICES ASSUME LoginsHaveRows, NEW e \in byAdmin' PROVE Exists(e)' \/ At(e, {"row", "unlogin"})'
      BY DEF LoginsHaveRows
    <3>1. CASE e \in byAdmin
      BY <1>1, <3>1 DEF LoginsHaveRows, Exists, At
    <3>2. CASE e \notin byAdmin
      BY <1>1, <3>2 DEF At
    <3> QED BY <3>1, <3>2
  <2> QED BY <2>1, <2>2 DEF AccountsWhole
<1> QED BY <1>2, <1>3, <1>4, <1>5, <1>6 DEF AccountIInv

\* AuthService.syncProfile finds the account, or finds none.
LEMMA SyncReadKeeps ==
  ASSUME AccountIInv, NEW r \in URequests, NEW e \in Emails, NEW role \in UserRoles, SyncRead(r, e, role)
  PROVE  AccountIInv'
<1> DEFINE l == [NoWork EXCEPT !.e = e, !.role = EffectiveRole(e, role), !.was = account[e].role,
                               !.is = ownedBy = e]
<1>0. account[e].role \in UserRoles
  BY AccountRowTyped DEF AccountIInv, AccountRows
<1>1. /\ EffectiveRole(e, role) \in UserRoles
      /\ Exists(e) => /\ EffectiveRole(e, role) = "worker" => ownedBy # e /\ account[e].role # "client"
                      /\ account[e].role = "admin" => EffectiveRole(e, role) = "admin"
  <2>1. CASE ~Exists(e)
    <3>1. EffectiveRole(e, role) = role
      BY <2>1, Zenon DEF EffectiveRole
    <3> QED BY <2>1, <3>1
  <2>2. CASE Exists(e) /\ account[e].role = "admin"
    <3>1. EffectiveRole(e, role) = "admin"
      BY <2>2 DEF EffectiveRole
    <3> QED BY <2>2, <3>1 DEF UserRoles
  <2>3. CASE Exists(e) /\ account[e].role # "admin" /\ role = "worker" /\ (account[e].role = "client" \/ ownedBy = e)
    <3>1. EffectiveRole(e, role) = "client"
      BY <2>3 DEF EffectiveRole
    <3> QED BY <2>3, <3>1 DEF UserRoles
  <2>4. CASE Exists(e) /\ account[e].role # "admin" /\ ~(role = "worker" /\ (account[e].role = "client" \/ ownedBy = e))
    <3>1. EffectiveRole(e, role) = role
      BY <2>4 DEF EffectiveRole
    <3> QED BY <2>4, <3>1
  <2> QED BY <2>1, <2>2, <2>3, <2>4
<1>2. /\ l \in Works /\ l.e = e /\ l.role = EffectiveRole(e, role) /\ l.was = account[e].role
      /\ l.is = (ownedBy = e)
  BY <1>0, <1>1 DEF NoWork, Works
<1>3. /\ UGo(r, IF Exists(e) THEN "update" ELSE "create", l) /\ upc[r] = "idle"
      /\ account' = account /\ ownedBy' = ownedBy /\ invite' = invite /\ taken' = taken /\ demoted' = demoted
      /\ doubts' = doubts /\ login' = login /\ byAdmin' = byAdmin
  BY DEF SyncRead
<1>4. login \subseteq Addresses /\ byAdmin \subseteq login
  BY DEF AccountIInv, AccountTypes, AccountTypeOK
<1>5. Exists(e) => Decided(l)
  BY <1>1, <1>2 DEF Decided
<1> HIDE DEF l
<1>6. CASE Exists(e)
  BY <1>2, <1>3, <1>4, <1>5, <1>6, AccountReadKeeps
<1>7. CASE ~Exists(e)
  BY <1>2, <1>3, <1>4, <1>7, AccountReadKeeps
<1> QED BY <1>6, <1>7

\* AdminService makes the account at Supabase before the row.
LEMMA MakeLoginKeeps ==
  ASSUME AccountIInv, NEW r \in URequests, NEW e \in Emails, CreateWorker(r, e) \/ CreateInspector(r, e)
  PROVE  AccountIInv'
<1>1. PICK role \in {"worker", "inspector"} : MakeLogin(r, e, role)
  BY DEF CreateWorker, CreateInspector
<1> DEFINE l == [NoWork EXCEPT !.e = e, !.role = role]
<1>2. l \in Works /\ l.e = e
  BY DEF NoWork, Works, UserRoles
<1>3. /\ UGo(r, "row", l) /\ upc[r] = "idle" /\ ~Exists(e) /\ e \in Addresses
      /\ account' = account /\ ownedBy' = ownedBy /\ invite' = invite /\ taken' = taken /\ demoted' = demoted
      /\ doubts' = doubts /\ login' = login \cup {e} /\ byAdmin' = byAdmin \cup {e}
  BY <1>1 DEF MakeLogin
<1>4. login \subseteq Addresses /\ byAdmin \subseteq login
  BY DEF AccountIInv, AccountTypes, AccountTypeOK
<1> HIDE DEF l
<1> QED BY <1>2, <1>3, <1>4, AccountReadKeeps

\* InvitesService.createForProject reads the project and its client.
LEMMA CreateInviteReadKeeps ==
  ASSUME AccountIInv, NEW r \in URequests, CreateInviteRead(r)
  PROVE  AccountIInv'
<1> DEFINE l == [NoWork EXCEPT !.of = ownedBy]
<1>1. ownedBy \in Emails
  BY DEF CreateInviteRead, AccountIInv, AccountTypes, AccountTypeOK
<1>2. l \in Works /\ l.of = ownedBy
  BY <1>1 DEF NoWork, Works, UserRoles
<1>3. /\ UGo(r, "invite", l) /\ upc[r] = "idle"
      /\ account' = account /\ ownedBy' = ownedBy /\ invite' = invite /\ taken' = taken /\ demoted' = demoted
      /\ doubts' = doubts /\ login' = login /\ byAdmin' = byAdmin /\ login \subseteq Addresses /\ byAdmin \subseteq login
  BY DEF CreateInviteRead, AccountIInv, AccountTypes, AccountTypeOK
<1> HIDE DEF l
<1> QED BY <1>1, <1>2, <1>3, AccountReadKeeps

\* ProjectsService.update reads whose the project is.
LEMMA GiveReadKeeps ==
  ASSUME AccountIInv, NEW r \in URequests, NEW e \in Emails, GiveRead(r, e)
  PROVE  AccountIInv'
<1> DEFINE l == [NoWork EXCEPT !.e = e, !.of = ownedBy]
<1>2. l \in Works /\ l.e = e
  BY DEF NoWork, Works, UserRoles, AccountIInv, AccountTypes, AccountTypeOK
<1>3. /\ UGo(r, "give", l) /\ upc[r] = "idle"
      /\ account' = account /\ ownedBy' = ownedBy /\ invite' = invite /\ taken' = taken /\ demoted' = demoted
      /\ doubts' = doubts /\ login' = login /\ byAdmin' = byAdmin /\ login \subseteq Addresses /\ byAdmin \subseteq login
  BY DEF GiveRead, AccountIInv, AccountTypes, AccountTypeOK
<1> HIDE DEF l
<1> QED BY <1>2, <1>3, AccountReadKeeps

\* AdminService finds the worker or inspector that is to be deleted.
LEMMA DeleteCheckKeeps ==
  ASSUME AccountIInv, NEW r \in URequests, NEW e \in Emails, DeleteWorker(r, e) \/ DeleteInspector(r, e)
  PROVE  AccountIInv'
<1>1. PICK role \in {"worker", "inspector"} : DeleteCheck(r, e, role)
  BY DEF DeleteWorker, DeleteInspector
<1> DEFINE l == [NoWork EXCEPT !.e = e, !.role = role]
<1>2. l \in Works /\ l.e = e
  BY DEF NoWork, Works, UserRoles
<1>3. account[e].is \in {"real", "lost"}
  BY <1>1, AccountRowTyped DEF DeleteCheck, AccountIInv, RowStands, Exists, AccountRows
<1>4. /\ UGo(r, "delete", l) /\ upc[r] = "idle"
      /\ account' = account /\ ownedBy' = ownedBy /\ invite' = invite /\ taken' = taken /\ demoted' = demoted
      /\ doubts' = doubts /\ login' = login /\ byAdmin' = byAdmin /\ login \subseteq Addresses /\ byAdmin \subseteq login
  BY <1>1 DEF DeleteCheck, AccountIInv, AccountTypes, AccountTypeOK
<1> HIDE DEF l
<1> QED BY <1>2, <1>3, <1>4, AccountReadKeeps

\* InvitesService.redeem reads the invitation and checks it.
LEMMA RedeemCheckKeeps ==
  ASSUME AccountIInv, NEW r \in URequests, NEW e \in Emails, NEW i \in Invites, RedeemCheck(r, e, i)
  PROVE  AccountIInv'
<1> DEFINE l == [NoWork EXCEPT !.e = e, !.i = i, !.of = invite[i].of,
                               !.is = account[invite[i].of].is = "stub"]
<1>1. invite[i].of \in Emails \cup {NoEmail}
  BY DEF AccountIInv, AccountTypes, AccountTypeOK
<1>2. /\ l \in Works /\ l.e = e /\ l.i = i /\ l.of = invite[i].of
      /\ l.is = (account[invite[i].of].is = "stub")
  BY <1>1 DEF NoWork, Works, UserRoles
<1>3. /\ UGo(r, "redeem", l) /\ upc[r] = "idle"
      /\ account' = account /\ ownedBy' = ownedBy /\ invite' = invite /\ taken' = taken /\ demoted' = demoted
      /\ doubts' = doubts /\ login' = login /\ byAdmin' = byAdmin /\ login \subseteq Addresses /\ byAdmin \subseteq login
      /\ invite[i].is = "open"
      /\ (invite[i].of = e \/ account[invite[i].of].is = "stub")
  BY DEF RedeemCheck, AccountIInv, AccountTypes, AccountTypeOK
<1> HIDE DEF l
<1> QED BY <1>2, <1>3, AccountReadKeeps

\* A request that ends without a row of its own; an account at Supabase may go with it.
LEMMA AccountEndKeeps ==
  ASSUME AccountIInv, NEW r \in URequests, Revert(r) \/ DeleteLogin(r) \/ UFail(r)
  PROVE  AccountIInv'
<1> DEFINE e == uloc[r].e
<1>1. /\ UDone(r) /\ ownedBy' = ownedBy /\ invite' = invite /\ taken' = taken /\ demoted' = demoted
      /\ doubts \subseteq doubts' /\ doubts' \subseteq doubts \cup {"cut"}
      /\ \/ account' = account /\ login' = login /\ byAdmin' = byAdmin
         \/ LoginGone(e) /\ e \in Emails
  BY DEF Revert, DeleteLogin, UFail, Doubt, AccountIInv, WorkIsKnown
<1>2. upc[r] = "profile" => "cut" \in doubts'
  BY DEF Revert, DeleteLogin, UFail, Doubt
<1>3. upc[r] \in {"row", "unlogin"} => "cut" \in doubts' \/ byAdmin' = byAdmin \ {e}
  BY DEF Revert, DeleteLogin, UFail, Doubt, LoginGone
<1>4. /\ account' \in [Emails -> AccountRows] /\ login' \subseteq login /\ byAdmin' \subseteq byAdmin
      /\ byAdmin' \subseteq login'
      /\ \A f \in Emails : /\ account'[f].role = account[f].role /\ account'[f].profile = account[f].profile
                           /\ \/ account'[f].is = account[f].is
                              \/ account[f].is = "real" /\ account'[f].is = "lost" /\ f \notin byAdmin'
  <2>1. account \in [Emails -> AccountRows] /\ byAdmin \subseteq login
    BY DEF AccountIInv, AccountTypes, AccountTypeOK, AccountRows
  <2>2. CASE account' = account /\ login' = login /\ byAdmin' = byAdmin
    BY <2>1, <2>2
  <2>3. CASE LoginGone(e) /\ e \in Emails
    <3> DEFINE new == [account[e] EXCEPT !.is = IF @ = "real" THEN "lost" ELSE @]
    <3>1. /\ new \in AccountRows /\ new.role = account[e].role /\ new.profile = account[e].profile
          /\ new.is = IF account[e].is = "real" THEN "lost" ELSE account[e].is
      BY <2>1, <2>3 DEF AccountRows
    <3>2. account' = [account EXCEPT ![e] = new] /\ login' = login \ {e} /\ byAdmin' = byAdmin \ {e}
      BY <2>3 DEF LoginGone
    <3> HIDE DEF new, e
    <3> QED BY <2>1, <2>3, <3>1, <3>2
  <2> QED BY <1>1, <2>2, <2>3
<1> HIDE DEF e
<1>5. AccountTypes'
  BY <1>1, <1>4, AccountRequestEnds DEF AccountIInv, AccountTypes, AccountTypeOK, AccountRows
<1>6. ASSUME NEW q \in URequests PROVE WorkIsKnown(q)' /\ RedeemStands(q)' /\ DeletingStands(q)'
  <2>1. upc'[q] = "idle" \/ (upc'[q] = upc[q] /\ uloc'[q] = uloc[q])
    BY <1>1, AccountRequestEnds DEF AccountIInv
  <2>2. WorkIsKnown(q) /\ RedeemStands(q) /\ DeletingStands(q)
    BY DEF AccountIInv
  <2> QED BY <1>1, <1>4, <2>1, <2>2 DEF WorkIsKnown, RedeemStands, DeletingStands, Decided
<1>7. \A f \in Emails : RowStands(f)'
  BY <1>4 DEF AccountIInv, RowStands
<1>8. OwnerKeeps => OwnerKeeps'
  BY <1>1 DEF OwnerKeeps, OpenIsTheOwners
<1>9. "cut" \notin doubts' /\ AccountsWhole => AccountsWhole'
  <2> SUFFICES ASSUME "cut" \notin doubts', AccountsWhole PROVE ProfilesFollow' /\ LoginsHaveRows'
    BY DEF AccountsWhole
  <2>1. \A q \in URequests \ {r} : upc'[q] = upc[q] /\ uloc'[q] = uloc[q]
    BY <1>1, AccountRequestEnds DEF AccountIInv
  <2>2. ProfilesFollow'
    BY <1>2, <1>4, <2>1 DEF AccountsWhole, ProfilesFollow
  <2>3. LoginsHaveRows'
    <3> SUFFICES ASSUME NEW f \in byAdmin' PROVE Exists(f)' \/ At(f, {"row", "unlogin"})'
      BY DEF LoginsHaveRows
    <3>1. f \in byAdmin /\ f \in Emails
      BY <1>4, AccountsAssumption DEF AccountIInv, AccountTypes, AccountTypeOK
    <3>2. CASE Exists(f)
      BY <1>4, <3>1, <3>2 DEF Exists
    <3>3. CASE ~Exists(f)
      <4>1. PICK q \in URequests : upc[q] \in {"row", "unlogin"} /\ uloc[q].e = f
        BY <3>1, <3>3 DEF AccountsWhole, LoginsHaveRows, At
      <4>2. q # r
        BY <1>3, <4>1 DEF e
      <4> QED BY <2>1, <4>1, <4>2 DEF At
    <3> QED BY <3>2, <3>3
  <2> QED BY <2>2, <2>3
<1> QED BY <1>1, <1>5, <1>6, <1>7, <1>8, <1>9 DEF AccountIInv

\* A row of an account is written by the request that is there for it, which goes on or ends.
LEMMA AccountWriteKeeps ==
  ASSUME AccountIInv, NEW r \in URequests, NEW e \in Emails, e = uloc[r].e,
         NEW new \in AccountRows, account' = [account EXCEPT ![e] = new],
         new.is \notin {"none", "stub"} \/ (upc[r] = "profile" /\ new.is = account[e].is /\ new.role = account[e].role),
         new.is # "none", new.is = "lost" => e \notin byAdmin,
         login' = login, byAdmin' = byAdmin, ownedBy' = ownedBy, invite' = invite, taken' = taken,
         doubts \subseteq doubts', doubts' \subseteq doubts \cup {"raced"},
         "raced" \notin doubts' => demoted' = FALSE, demoted' \in BOOLEAN,
         upc[r] \in {"update", "create", "row", "profile"},
         UDone(r) \/ (UGo(r, "profile", uloc[r]) /\ upc[r] # "profile"),
         new.role = "worker" => \/ new.profile = TRUE
                                \/ UGo(r, "profile", uloc[r]) /\ uloc[r].role = "worker"
                                \/ account[e].role = "worker" /\ upc[r] = "profile"
                                   /\ uloc[r].role # "worker" /\ new.profile = account[e].profile
  PROVE  AccountIInv'
<1>1. /\ upc' \in [URequests -> AccountStands] /\ uloc' \in [URequests -> Works]
      /\ upc'[r] \in {"idle", "profile"} /\ (upc'[r] = "profile" => uloc'[r] = uloc[r])
      /\ \A q \in URequests \ {r} : upc'[q] = upc[q] /\ uloc'[q] = uloc[q]
  <2>1. CASE UDone(r)
    BY <2>1, AccountRequestEnds DEF AccountIInv
  <2>2. CASE UGo(r, "profile", uloc[r])
    BY <2>2, AccountGoes DEF AccountIInv, AccountStands, AccountTypes
  <2> QED BY <2>1, <2>2
<1>2. /\ account' \in [Emails -> AccountRows]
      /\ account'[e] = new /\ \A f \in Emails \ {e} : account'[f] = account[f]
  BY DEF AccountIInv, AccountTypes, AccountTypeOK, AccountRows
<1>3. \A f \in Emails : Exists(f) => Exists(f)'
  BY <1>2 DEF Exists
<1>4. AccountTypes'
  BY <1>1, <1>2 DEF AccountIInv, AccountTypes, AccountTypeOK, AccountRows
<1>5. ASSUME NEW q \in URequests PROVE WorkIsKnown(q)' /\ RedeemStands(q)' /\ DeletingStands(q)'
  <2>0. WorkIsKnown(q) /\ RedeemStands(q) /\ DeletingStands(q)
    BY DEF AccountIInv
  <2>1. CASE q = r
    BY <1>1, <2>0, <2>1 DEF WorkIsKnown, RedeemStands, DeletingStands
  <2>2. CASE q # r
    <3>1. upc'[q] = upc[q] /\ uloc'[q] = uloc[q]
      BY <1>1, <2>2
    <3>2. new.is \in {"real", "lost"} \/ new.is = account[e].is
      BY DEF AccountRows
    <3> QED BY <1>2, <2>0, <3>1, <3>2 DEF WorkIsKnown, RedeemStands, DeletingStands, Decided
  <2> QED BY <2>1, <2>2
<1>6. \A f \in Emails : RowStands(f)'
  <2>1. RowStands(e) /\ RowStands(e)'
    BY <1>2 DEF AccountIInv, RowStands
  <2> QED BY <1>2, <2>1 DEF AccountIInv, RowStands
<1>7. OwnerKeeps => OwnerKeeps'
  BY DEF OwnerKeeps, OpenIsTheOwners
<1>8. AccountsWhole => AccountsWhole'
  <2> SUFFICES ASSUME AccountsWhole PROVE ProfilesFollow' /\ LoginsHaveRows'
    BY DEF AccountsWhole
  <2>2. ProfilesFollow'
    <3> SUFFICES ASSUME NEW f \in Emails, account'[f].role = "worker", account'[f].profile # TRUE
                 PROVE  \E q \in URequests : upc'[q] = "profile" /\ uloc'[q].e = f /\ uloc'[q].role = "worker"
      BY DEF ProfilesFollow
    <3>1. CASE UGo(r, "profile", uloc[r]) /\ uloc[r].role = "worker" /\ f = e
      BY <3>1 DEF UGo, AccountIInv, AccountTypes
    <3>2. CASE ~(UGo(r, "profile", uloc[r]) /\ uloc[r].role = "worker" /\ f = e)
      <4>1. account[f].role = "worker" /\ account[f].profile # TRUE
        BY <1>2, <3>2
      <4>2. PICK q \in URequests : upc[q] = "profile" /\ uloc[q].e = f /\ uloc[q].role = "worker"
        BY <4>1 DEF AccountsWhole, ProfilesFollow
      <4>3. q # r
        BY <1>2, <3>2, <4>2
      <4> QED BY <1>1, <4>2, <4>3
    <3> QED BY <3>1, <3>2
  <2>3. LoginsHaveRows'
    <3> SUFFICES ASSUME NEW f \in byAdmin', ~Exists(f)' PROVE At(f, {"row", "unlogin"})'
      BY DEF LoginsHaveRows
    <3>1. f \in byAdmin /\ f \in Emails /\ f # e
      BY <1>2, AccountsAssumption DEF AccountIInv, AccountTypes, AccountTypeOK, Exists
    <3>2. PICK q \in URequests : upc[q] \in {"row", "unlogin"} /\ uloc[q].e = f
      BY <1>3, <3>1 DEF AccountsWhole, LoginsHaveRows, At
    <3> QED BY <1>1, <3>1, <3>2 DEF At
  <2> QED BY <2>2, <2>3
<1> QED BY <1>4, <1>5, <1>6, <1>7, <1>8 DEF AccountIInv

\* A row is linked to an account at Supabase that is there, or to one that is gone.
LEMMA LinkedIs ==
  ASSUME AccountIInv, NEW e \in Emails
  PROVE  Linked(e) \in {"real", "lost"} /\ (Linked(e) = "lost" => e \notin byAdmin)
BY DEF Linked, AccountIInv, AccountTypes, AccountTypeOK

\* AuthService.syncProfile updates the account it found, or makes one.
LEMMA SyncKeeps ==
  ASSUME AccountIInv, NEW r \in URequests, SyncUpdate(r) \/ SyncCreate(r)
  PROVE  AccountIInv'
<1>1. PICK e \in Emails : e = uloc[r].e
  BY DEF SyncUpdate, SyncCreate, AccountIInv, WorkIsKnown
<1>2. uloc[r].role \in UserRoles
  BY DEF AccountIInv, AccountTypes, Works
<1> DEFINE new == [account[e] EXCEPT !.is = Linked(e), !.role = uloc[r].role]
<1>3. /\ new \in AccountRows /\ new.is = Linked(e) /\ new.role = uloc[r].role
  BY <1>2, AccountRowTyped, LinkedIs DEF AccountIInv, AccountRows
<1>4. /\ account' = [account EXCEPT ![e] = new] /\ UGo(r, "profile", uloc[r])
      /\ login' = login /\ byAdmin' = byAdmin /\ ownedBy' = ownedBy /\ invite' = invite /\ taken' = taken
      /\ doubts \subseteq doubts' /\ doubts' \subseteq doubts \cup {"raced"}
      /\ upc[r] \in {"update", "create"}
  BY <1>1 DEF SyncUpdate, SyncCreate, PutAccount, Doubt
<1>5. ("raced" \notin doubts' => demoted' = FALSE) /\ demoted' \in BOOLEAN
  <2>1. CASE SyncUpdate(r)
    <3> DEFINE l == uloc[r]
    <3>1. /\ demoted' = (\/ demoted
                         \/ l.role = "worker" /\ (account[e].role = "client" \/ ownedBy = e)
                         \/ l.role # "admin" /\ account[e].role = "admin")
          /\ "raced" \notin doubts' => (ownedBy = e) = l.is /\ account[e].role = l.was
      BY <1>1, <2>1 DEF SyncUpdate, Doubt
    <3>2. Decided(l) /\ ("raced" \notin doubts' => demoted = FALSE) /\ demoted \in BOOLEAN
      BY <1>4, <2>1 DEF SyncUpdate, AccountIInv, WorkIsKnown, AccountTypes, AccountTypeOK
    <3>3. l.is \in BOOLEAN
      BY DEF AccountIInv, AccountTypes, Works
    <3> HIDE DEF l
    <3>4. demoted' \in BOOLEAN
      BY <3>1
    <3>5. ASSUME "raced" \notin doubts' PROVE demoted' = FALSE
      <4>1. /\ l.role = "worker" => ownedBy # e /\ account[e].role # "client"
            /\ account[e].role = "admin" => l.role = "admin"
        BY <3>1, <3>2, <3>3, <3>5 DEF Decided
      <4> QED BY <3>1, <3>2, <3>5, <4>1
    <3> QED BY <3>4, <3>5
  <2>2. CASE SyncCreate(r)
    BY <2>2 DEF SyncCreate, AccountIInv, AccountTypes, AccountTypeOK
  <2> QED BY <2>1, <2>2
<1> HIDE DEF new
<1> QED BY <1>1, <1>3, <1>4, <1>5, LinkedIs, AccountWriteKeeps

\* The worker's profile follows the account.
LEMMA SyncProfileKeeps ==
  ASSUME AccountIInv, NEW r \in URequests, SyncProfile(r)
  PROVE  AccountIInv'
<1>1. PICK e \in Emails : e = uloc[r].e
  BY DEF SyncProfile, AccountIInv, WorkIsKnown
<1> DEFINE new == [account[e] EXCEPT !.profile = @ \/ uloc[r].role = "worker"]
<1>2. /\ new \in AccountRows
      /\ new.is = account[e].is /\ new.role = account[e].role
      /\ new.profile = (account[e].profile \/ uloc[r].role = "worker")
  BY AccountRowTyped DEF AccountIInv, AccountRows
<1>3. /\ account' = [account EXCEPT ![e] = new] /\ UDone(r) /\ Exists(e)
      /\ login' = login /\ byAdmin' = byAdmin /\ ownedBy' = ownedBy /\ invite' = invite /\ taken' = taken
      /\ demoted' = demoted /\ doubts' = doubts /\ upc[r] = "profile"
  BY <1>1 DEF SyncProfile
<1>5. account[e].profile \in BOOLEAN /\ RowStands(e) /\ demoted \in BOOLEAN /\ ("raced" \notin doubts => demoted = FALSE)
  BY AccountRowTyped DEF AccountIInv, AccountRows, AccountTypes, AccountTypeOK
<1>6. new.role = "worker" => \/ new.profile = TRUE
                             \/ account[e].role = "worker" /\ upc[r] = "profile"
                                /\ uloc[r].role # "worker" /\ new.profile = account[e].profile
  BY <1>2, <1>3, <1>5
<1>7. new.is # "none" /\ (new.is = "lost" => e \notin byAdmin)
  BY <1>2, <1>3, <1>5 DEF Exists, RowStands
<1> HIDE DEF new
<1> QED BY <1>1, <1>2, <1>3, <1>5, <1>6, <1>7, AccountWriteKeeps

\* The row of an account that an administrator makes, or the undoing of its login.
LEMMA CreateRowKeeps ==
  ASSUME AccountIInv, NEW r \in URequests, CreateRow(r)
  PROVE  AccountIInv'
<1>1. PICK e \in Emails : e = uloc[r].e
  BY DEF CreateRow, AccountIInv, WorkIsKnown
<1>2. uloc[r].role \in UserRoles /\ demoted \in BOOLEAN /\ ("raced" \notin doubts => demoted = FALSE)
  BY DEF AccountIInv, AccountTypes, AccountTypeOK, Works
<1> DEFINE new == [is |-> Linked(e), role |-> uloc[r].role, profile |-> uloc[r].role = "worker"]
<1>3. new \in AccountRows /\ new.is = Linked(e) /\ (new.role = "worker" => new.profile = TRUE)
  BY <1>2, LinkedIs DEF AccountRows
<1>4. /\ account' = [account EXCEPT ![e] = new] /\ UDone(r)
      /\ login' = login /\ byAdmin' = byAdmin /\ ownedBy' = ownedBy /\ invite' = invite /\ taken' = taken
      /\ demoted' = demoted /\ doubts' = doubts /\ upc[r] = "row"
  BY <1>1 DEF CreateRow
<1> HIDE DEF new
<1> QED BY <1>1, <1>2, <1>3, <1>4, LinkedIs, AccountWriteKeeps

\* What the rest of the system does to the rows while no request moves.
LEMMA AccountAsideKeeps ==
  ASSUME AccountIInv, upc' = upc, uloc' = uloc, login' \subseteq Addresses, login \subseteq login',
         byAdmin' = byAdmin, taken' = taken, demoted' = demoted, doubts' = doubts,
         account' \in [Emails -> AccountRows],
         \A e \in Emails : \/ account'[e] = account[e]
                           \/ ~Exists(e) /\ account'[e].is = "stub" /\ account'[e].role = "client",
         ownedBy' \in Emails \cup {NoEmail}, ownedBy' # ownedBy => ownedBy = NoEmail,
         invite' \in [Invites -> InviteRows],
         \A i \in Invites : invite'[i] = invite[i] \/ (invite[i].is # "none" /\ invite'[i].is = "revoked")
  PROVE  AccountIInv'
<1>1. AccountTypes'
  BY DEF AccountIInv, AccountTypes, AccountTypeOK, AccountRows, InviteRows
<1>2. ASSUME NEW q \in URequests PROVE WorkIsKnown(q)' /\ RedeemStands(q)' /\ DeletingStands(q)'
  <2>1. WorkIsKnown(q) /\ RedeemStands(q) /\ DeletingStands(q)
    BY DEF AccountIInv
  <2>2. upc[q] = "redeem" => uloc[q].i \in Invites
    BY <2>1 DEF WorkIsKnown
  <2>3. upc[q] = "delete" => uloc[q].e \in Emails
    BY <2>1 DEF WorkIsKnown
  <2> QED BY <2>1, <2>2, <2>3 DEF WorkIsKnown, RedeemStands, DeletingStands, Decided, Exists
<1>3. \A e \in Emails : RowStands(e)'
  BY DEF AccountIInv, RowStands
<1>4. OwnerKeeps => OwnerKeeps'
  BY DEF OwnerKeeps, OpenIsTheOwners
<1>5. AccountsWhole => AccountsWhole'
  <2>1. ProfilesFollow => ProfilesFollow'
    BY DEF ProfilesFollow
  <2>2. LoginsHaveRows => LoginsHaveRows'
    BY AccountsAssumption DEF LoginsHaveRows, Exists, At, AccountIInv, AccountTypes, AccountTypeOK
  <2> QED BY <2>1, <2>2 DEF AccountsWhole
<1> QED BY <1>1, <1>2, <1>3, <1>4, <1>5 DEF AccountIInv

\* The steps of others: a login at the provider, the administrator's changes, a failure.
LEMMA AccountsMoveAside ==
  ASSUME AccountIInv,
         \/ \E e \in Emails : SignUp(e) \/ MakeStub(e) \/ RegisterProject(e)
         \/ \E i \in Invites : Revoke(i)
         \/ UNCHANGED accountVars
  PROVE  AccountIInv'
<1>0. /\ account \in [Emails -> AccountRows] /\ invite \in [Invites -> InviteRows]
      /\ login \subseteq Addresses /\ ownedBy \in Emails \cup {NoEmail}
  BY DEF AccountIInv, AccountTypes, AccountTypeOK, AccountRows, InviteRows
<1>1. ASSUME NEW e \in Emails, SignUp(e) PROVE AccountIInv'
  BY <1>0, <1>1, AccountAsideKeeps DEF SignUp
<1>2. ASSUME NEW e \in Emails, MakeStub(e) PROVE AccountIInv'
  <2> DEFINE new == [account[e] EXCEPT !.is = "stub", !.role = "client"]
  <2>1. new \in AccountRows /\ new.is = "stub" /\ new.role = "client"
    BY <1>0 DEF AccountRows, UserRoles
  <2>2. account' = [account EXCEPT ![e] = new] /\ ~Exists(e)
    BY <1>2 DEF MakeStub, PutAccount
  <2> HIDE DEF new
  <2>3. /\ account' \in [Emails -> AccountRows]
        /\ \A f \in Emails : \/ account'[f] = account[f]
                             \/ ~Exists(f) /\ account'[f].is = "stub" /\ account'[f].role = "client"
    BY <1>0, <2>1, <2>2
  <2> QED BY <1>0, <1>2, <2>3, AccountAsideKeeps DEF MakeStub
<1>3. ASSUME NEW e \in Emails, RegisterProject(e) PROVE AccountIInv'
  BY <1>0, <1>3, AccountAsideKeeps DEF RegisterProject
<1>4. ASSUME NEW i \in Invites, Revoke(i) PROVE AccountIInv'
  <2> DEFINE new == [invite[i] EXCEPT !.is = "revoked"]
  <2>1. new \in InviteRows /\ new.is = "revoked"
    BY <1>0 DEF InviteRows
  <2>2. invite' = [invite EXCEPT ![i] = new] /\ invite[i].is # "none"
    BY <1>4 DEF Revoke
  <2> HIDE DEF new
  <2>3. /\ invite' \in [Invites -> InviteRows]
        /\ \A j \in Invites : invite'[j] = invite[j] \/ (invite[j].is # "none" /\ invite'[j].is = "revoked")
    BY <1>0, <2>1, <2>2
  <2> QED BY <1>0, <1>4, <2>3, AccountAsideKeeps DEF Revoke
<1>5. CASE UNCHANGED accountVars
  BY <1>0, <1>5, AccountAsideKeeps DEF accountVars
<1> QED BY <1>1, <1>2, <1>3, <1>4, <1>5

\* Who held the project when it was given is who was asked, or requests raced; and no
\* invitation to it stays open for another, or it was given.
LEMMA GiveProjectKeeps ==
  ASSUME AccountIInv, NEW r \in URequests, GiveProject(r)
  PROVE  AccountIInv'
<1>1. PICK e \in Emails : e = uloc[r].e
  BY DEF GiveProject, AccountIInv, WorkIsKnown
<1>2. /\ UDone(r) /\ upc[r] = "give" /\ ownedBy' = e
      /\ account' = account /\ login' = login /\ byAdmin' = byAdmin /\ invite' = invite /\ demoted' = demoted
      /\ doubts \subseteq doubts' /\ doubts' \subseteq doubts \cup {"raced", "given"}
      /\ taken' = (taken \/ (ownedBy \notin {uloc[r].of, e} /\ account[ownedBy].is = "real"))
      /\ "raced" \notin doubts' => ownedBy = uloc[r].of
      /\ "given" \notin doubts' => \A i \in Invites : invite[i].is = "open" => invite[i].of = e
  BY <1>1 DEF GiveProject
<1>3. AccountTypes'
  BY <1>2, AccountRequestEnds DEF AccountIInv, AccountTypes, AccountTypeOK
<1>4. ASSUME NEW q \in URequests PROVE WorkIsKnown(q)' /\ RedeemStands(q)' /\ DeletingStands(q)'
  <2>1. upc'[q] = "idle" \/ (upc'[q] = upc[q] /\ uloc'[q] = uloc[q])
    BY <1>2, AccountRequestEnds DEF AccountIInv
  <2>2. WorkIsKnown(q) /\ RedeemStands(q) /\ DeletingStands(q)
    BY DEF AccountIInv
  <2> QED BY <1>2, <2>1, <2>2 DEF WorkIsKnown, RedeemStands, DeletingStands, Decided
<1>5. \A f \in Emails : RowStands(f)'
  BY <1>2 DEF AccountIInv, RowStands
<1>6. doubts' \cap {"raced", "given"} = {} => OwnerKeeps'
  BY <1>2, AccountsAssumption DEF AccountIInv, OwnerKeeps, OpenIsTheOwners
<1>7. AccountsWhole => AccountsWhole'
  <2>1. ProfilesFollow => ProfilesFollow'
    BY <1>2, AccountRequestEnds DEF AccountIInv, ProfilesFollow
  <2>2. LoginsHaveRows => LoginsHaveRows'
    BY <1>2, AccountRequestEnds DEF AccountIInv, LoginsHaveRows, Exists, At
  <2> QED BY <2>1, <2>2 DEF AccountsWhole
<1> QED BY <1>2, <1>3, <1>4, <1>5, <1>6, <1>7 DEF AccountIInv

\* An account goes with its invitations, and so do the requests that would write to it.
LEMMA DeleteRowKeeps ==
  ASSUME AccountIInv, NEW r \in URequests, DeleteRow(r)
  PROVE  AccountIInv'
<1>1. PICK e \in Emails : e = uloc[r].e
  BY DEF DeleteRow, AccountIInv, WorkIsKnown
<1> DEFINE l == [NoWork EXCEPT !.e = e]
           on == account[e].is = "real"
<1>2. l \in Works /\ l.e = e /\ NoWork \in Works
  BY NoWorkIsWork DEF NoWork, Works, UserRoles
<1>3. /\ upc[r] = "delete" /\ account' = [account EXCEPT ![e] = NoUser]
      /\ \A i \in Invites : invite'[i] = IF invite[i].of = e THEN [is |-> "gone", of |-> NoEmail] ELSE invite[i]
      /\ invite' \in [Invites -> InviteRows]
      /\ login' = login /\ byAdmin' = byAdmin /\ ownedBy' = ownedBy /\ taken' = taken /\ demoted' = demoted
      /\ doubts' = doubts
  <2>1. invite \in [Invites -> InviteRows]
    BY DEF AccountIInv, AccountTypes, AccountTypeOK, InviteRows
  <2>2. /\ upc[r] = "delete" /\ account' = [account EXCEPT ![e] = NoUser]
        /\ invite' = [i \in Invites |-> IF i \in {j \in Invites : invite[j].of = e}
                                        THEN [is |-> "gone", of |-> NoEmail] ELSE invite[i]]
        /\ login' = login /\ byAdmin' = byAdmin /\ ownedBy' = ownedBy /\ taken' = taken /\ demoted' = demoted
        /\ doubts' = doubts
    BY <1>1 DEF DeleteRow
  <2> QED BY <2>1, <2>2 DEF InviteRows
<1>4. /\ upc' \in [URequests -> AccountStands] /\ uloc' \in [URequests -> Works]
      /\ upc'[r] = (IF on THEN "unlogin" ELSE "idle") /\ uloc'[r] = (IF on THEN l ELSE NoWork)
      /\ \A q \in URequests \ {r} : IF Holds(q, e) THEN upc'[q] = "idle"
                                    ELSE upc'[q] = upc[q] /\ uloc'[q] = uloc[q]
  <2>1. /\ upc' = [q \in URequests |-> IF q = r THEN (IF on THEN "unlogin" ELSE "idle")
                                       ELSE IF Holds(q, e) THEN "idle" ELSE upc[q]]
        /\ uloc' = [q \in URequests |-> IF q = r THEN (IF on THEN l ELSE NoWork)
                                        ELSE IF Holds(q, e) THEN NoWork ELSE uloc[q]]
    BY <1>1 DEF DeleteRow
  <2>2. upc \in [URequests -> AccountStands] /\ uloc \in [URequests -> Works]
    BY DEF AccountIInv, AccountTypes
  <2> HIDE DEF l, on
  <2>3. upc' \in [URequests -> AccountStands]
    BY <2>1, <2>2 DEF AccountStands
  <2>4. uloc' \in [URequests -> Works]
    BY <1>2, <2>1, <2>2
  <2> QED BY <2>1, <2>3, <2>4
<1> HIDE DEF l
<1>5. /\ account' \in [Emails -> AccountRows]
      /\ account'[e] = NoUser /\ \A f \in Emails \ {e} : account'[f] = account[f]
  BY <1>3, AccountRowTyped DEF AccountIInv, AccountTypes, AccountTypeOK, AccountRows
<1>6. AccountTypes'
  BY <1>3, <1>4, <1>5 DEF AccountIInv, AccountTypes, AccountTypeOK, AccountRows, InviteRows
<1>7. ASSUME NEW q \in URequests PROVE WorkIsKnown(q)' /\ RedeemStands(q)' /\ DeletingStands(q)'
  <2>1. CASE q = r
    BY <1>2, <1>4, <2>1 DEF WorkIsKnown, RedeemStands, DeletingStands
  <2>2. CASE q # r /\ Holds(q, e)
    BY <1>4, <2>2 DEF WorkIsKnown, RedeemStands, DeletingStands
  <2>3. CASE q # r /\ ~Holds(q, e)
    <3>1. WorkIsKnown(q) /\ RedeemStands(q) /\ DeletingStands(q) /\ upc'[q] = upc[q] /\ uloc'[q] = uloc[q]
      BY <1>4, <2>3 DEF AccountIInv
    <3>2. WorkIsKnown(q)'
      BY <3>1 DEF WorkIsKnown, Decided
    <3>3. RedeemStands(q)'
      BY <1>3, <3>1 DEF WorkIsKnown, RedeemStands
    <3>4. DeletingStands(q)'
      <4>1. upc[q] = "delete" => uloc[q].e \in Emails \ {e}
        BY <2>3, <3>1 DEF WorkIsKnown, Holds
      <4> QED BY <1>5, <3>1, <4>1 DEF DeletingStands
    <3> QED BY <3>2, <3>3, <3>4
  <2> QED BY <2>1, <2>2, <2>3
<1>8. \A f \in Emails : RowStands(f)'
  BY <1>3, <1>5 DEF AccountIInv, RowStands, NoUser
<1>9. OwnerKeeps => OwnerKeeps'
  BY <1>3 DEF OwnerKeeps, OpenIsTheOwners
<1>10. AccountsWhole => AccountsWhole'
  <2> SUFFICES ASSUME AccountsWhole PROVE ProfilesFollow' /\ LoginsHaveRows'
    BY DEF AccountsWhole
  <2>1. ASSUME NEW q \in URequests, upc[q] \in {"profile", "row", "unlogin"}, uloc[q].e # e \/ upc[q] # "profile"
        PROVE  upc'[q] = upc[q] /\ uloc'[q] = uloc[q]
    BY <1>3, <1>4, <2>1 DEF Holds
  <2>2. ProfilesFollow'
    <3> SUFFICES ASSUME NEW f \in Emails, account'[f].role = "worker", account'[f].profile # TRUE
                 PROVE  \E q \in URequests : upc'[q] = "profile" /\ uloc'[q].e = f /\ uloc'[q].role = "worker"
      BY DEF ProfilesFollow
    <3>1. f # e /\ account'[f] = account[f]
      BY <1>5 DEF NoUser
    <3>2. account[f].role = "worker" /\ account[f].profile # TRUE
      BY <3>1
    <3>3. PICK q \in URequests : upc[q] = "profile" /\ uloc[q].e = f /\ uloc[q].role = "worker"
      BY <3>2 DEF AccountsWhole, ProfilesFollow
    <3> QED BY <2>1, <3>1, <3>3
  <2>3. LoginsHaveRows'
    <3> SUFFICES ASSUME NEW f \in byAdmin', ~Exists(f)' PROVE At(f, {"row", "unlogin"})'
      BY DEF LoginsHaveRows
    <3>0. f \in byAdmin /\ f \in Emails
      BY <1>3, AccountsAssumption DEF AccountIInv, AccountTypes, AccountTypeOK
    <3>1. CASE f = e
      <4>1. account[e].is \in {"real", "lost"} /\ RowStands(e)
        BY <1>1, <1>3 DEF AccountIInv, DeletingStands
      <4>2. on
        BY <3>0, <3>1, <4>1 DEF RowStands
      <4> QED BY <1>2, <1>4, <3>1, <4>2 DEF At
    <3>2. CASE f # e
      <4>1. PICK q \in URequests : upc[q] \in {"row", "unlogin"} /\ uloc[q].e = f
        BY <1>5, <3>0, <3>2 DEF AccountsWhole, LoginsHaveRows, At, Exists
      <4> QED BY <2>1, <4>1 DEF At
    <3> QED BY <3>1, <3>2
  <2> QED BY <2>2, <2>3
<1> QED BY <1>3, <1>6, <1>7, <1>8, <1>9, <1>10 DEF AccountIInv

\* The invitation, for the client the project had when it was read.
LEMMA CreateInviteKeeps ==
  ASSUME AccountIInv, NEW r \in URequests, NEW i \in Invites, CreateInvite(r, i)
  PROVE  AccountIInv'
<1>1. uloc[r].of \in Emails
  BY DEF CreateInvite, AccountIInv, WorkIsKnown
<1> DEFINE new == [is |-> "open", of |-> uloc[r].of]
<1>2. new \in InviteRows /\ new.is = "open" /\ new.of = uloc[r].of
  BY <1>1 DEF InviteRows
<1>3. /\ invite' = [invite EXCEPT ![i] = new] /\ invite[i].is = "none" /\ UDone(r) /\ upc[r] = "invite"
      /\ doubts \subseteq doubts' /\ doubts' \subseteq doubts \cup {"raced"}
      /\ "raced" \notin doubts' => ownedBy = uloc[r].of
      /\ account' = account /\ login' = login /\ byAdmin' = byAdmin /\ ownedBy' = ownedBy /\ taken' = taken
      /\ demoted' = demoted
  BY DEF CreateInvite, Doubt
<1> HIDE DEF new
<1>4. /\ invite' \in [Invites -> InviteRows]
      /\ invite'[i] = new /\ \A j \in Invites \ {i} : invite'[j] = invite[j]
  BY <1>2, <1>3 DEF AccountIInv, AccountTypes, AccountTypeOK, InviteRows
<1>5. AccountTypes'
  BY <1>3, <1>4, AccountRequestEnds DEF AccountIInv, AccountTypes, AccountTypeOK, InviteRows
<1>6. ASSUME NEW q \in URequests PROVE WorkIsKnown(q)' /\ RedeemStands(q)' /\ DeletingStands(q)'
  <2>1. upc'[q] = "idle" \/ (upc'[q] = upc[q] /\ uloc'[q] = uloc[q])
    BY <1>3, AccountRequestEnds DEF AccountIInv
  <2>2. WorkIsKnown(q) /\ RedeemStands(q) /\ DeletingStands(q)
    BY DEF AccountIInv
  <2>3. upc[q] = "redeem" => uloc[q].i \in Invites \ {i}
    BY <1>3, <2>2 DEF WorkIsKnown, RedeemStands
  <2> QED BY <1>3, <1>4, <2>1, <2>2, <2>3 DEF WorkIsKnown, RedeemStands, DeletingStands, Decided
<1>7. \A f \in Emails : RowStands(f)'
  BY <1>3 DEF AccountIInv, RowStands
<1>8. doubts' \cap {"raced", "given"} = {} => OwnerKeeps'
  BY <1>1, <1>2, <1>3, <1>4, AccountsAssumption DEF AccountIInv, OwnerKeeps, OpenIsTheOwners
<1>9. AccountsWhole => AccountsWhole'
  <2>1. ProfilesFollow => ProfilesFollow'
    BY <1>3, AccountRequestEnds DEF AccountIInv, ProfilesFollow
  <2>2. LoginsHaveRows => LoginsHaveRows'
    BY <1>3, AccountRequestEnds DEF AccountIInv, LoginsHaveRows, Exists, At
  <2> QED BY <2>1, <2>2 DEF AccountsWhole
<1> QED BY <1>3, <1>5, <1>6, <1>7, <1>8, <1>9 DEF AccountIInv

\* Who redeems a stub's invitation gets the stub's project, and ends the invitations that
\* would give it to another.
LEMMA RedeemKeeps ==
  ASSUME AccountIInv, NEW r \in URequests, Redeem(r)
  PROVE  AccountIInv'
<1>1. PICK e \in Emails : e = uloc[r].e
  BY DEF Redeem, AccountIInv, WorkIsKnown
<1>2. PICK i \in Invites : i = uloc[r].i
  BY DEF Redeem, AccountIInv, WorkIsKnown
<1>3. PICK of \in Emails \cup {NoEmail} : of = uloc[r].of
  BY DEF AccountIInv, AccountTypes, Works
<1>4. PICK stub \in BOOLEAN : stub = uloc[r].is
  BY DEF AccountIInv, AccountTypes, Works
<1> DEFINE ended(j) == IF of # e /\ stub /\ invite[j].of = of /\ invite[j].is = "open"
                        THEN [invite[j] EXCEPT !.is = "revoked"] ELSE invite[j]
           rest == [j \in Invites |-> ended(j)]
           new  == [is |-> IF ended(i).is = "revoked" THEN "revoked" ELSE "used", of |-> e]
<1>5. /\ upc[r] = "redeem" /\ UDone(r)
      /\ ownedBy' = IF of # e THEN e ELSE ownedBy
      /\ invite' = [rest EXCEPT ![i] = new]
      /\ account' = account /\ login' = login /\ byAdmin' = byAdmin /\ demoted' = demoted
      /\ taken' = (taken \/ (ownedBy' # ownedBy /\ account[ownedBy].is = "real"))
  BY <1>1, <1>2, <1>3, <1>4 DEF Redeem
<1>6. /\ doubts \subseteq doubts' /\ doubts' \subseteq doubts \cup {"raced"}
      /\ "raced" \notin doubts' => /\ invite[i].is = "open"
                                   /\ (account[of].is = "stub") = stub
  BY <1>1, <1>2, <1>3, <1>4 DEF Redeem, Doubt
<1>7. \A j \in Invites : /\ ended(j) \in InviteRows
                         /\ ended(j).of = invite[j].of
                         /\ ended(j).is = IF of # e /\ stub /\ invite[j].of = of /\ invite[j].is = "open"
                                           THEN "revoked" ELSE invite[j].is
  <2> TAKE j \in Invites
  <2>1. invite[j] \in InviteRows
    BY DEF AccountIInv, AccountTypes, AccountTypeOK, InviteRows
  <2> QED BY <2>1 DEF InviteRows
<1>8. new \in InviteRows /\ new.of = e /\ new.is \in {"used", "revoked"}
  BY DEF InviteRows
<1> HIDE DEF ended, new
<1>9. /\ invite' \in [Invites -> InviteRows]
      /\ invite'[i] = new /\ \A j \in Invites \ {i} : invite'[j] = ended(j)
  BY <1>5, <1>7, <1>8
<1>10. AccountTypes'
  <2>1. ownedBy' \in Emails \cup {NoEmail} /\ taken' \in BOOLEAN /\ doubts' \subseteq {"raced", "cut", "given"}
    BY <1>5, <1>6 DEF AccountIInv, AccountTypes, AccountTypeOK
  <2> QED BY <1>5, <1>9, <2>1, AccountRequestEnds DEF AccountIInv, AccountTypes, AccountTypeOK, InviteRows
<1>11. ASSUME NEW q \in URequests PROVE WorkIsKnown(q)' /\ RedeemStands(q)' /\ DeletingStands(q)'
  <2>1. upc'[q] = "idle" \/ (upc'[q] = upc[q] /\ uloc'[q] = uloc[q])
    BY <1>5, AccountRequestEnds DEF AccountIInv
  <2>2. WorkIsKnown(q) /\ RedeemStands(q) /\ DeletingStands(q)
    BY DEF AccountIInv
  <2>3. RedeemStands(q)'
    <3> SUFFICES ASSUME upc'[q] = "redeem" PROVE RedeemStands(q)'
      BY DEF RedeemStands
    <3>1. uloc[q].i \in Invites /\ upc[q] = "redeem" /\ uloc'[q] = uloc[q]
      BY <2>1, <2>2 DEF WorkIsKnown
    <3>2. CASE uloc[q].i = i
      BY <1>8, <1>9, <3>1, <3>2 DEF RedeemStands
    <3>3. CASE uloc[q].i # i
      BY <1>7, <1>9, <2>2, <3>1, <3>3 DEF RedeemStands
    <3> QED BY <3>2, <3>3
  <2> QED BY <1>5, <2>1, <2>2, <2>3 DEF WorkIsKnown, DeletingStands, Decided
<1>12. \A f \in Emails : RowStands(f)'
  BY <1>5 DEF AccountIInv, RowStands
<1>13. doubts' \cap {"raced", "given"} = {} => OwnerKeeps'
  <2> SUFFICES ASSUME doubts' \cap {"raced", "given"} = {} PROVE OwnerKeeps'
    OBVIOUS
  <2>0. OwnerKeeps /\ invite[i].is = "open" /\ (account[of].is = "stub") = stub
    BY <1>6 DEF AccountIInv
  <2>1. invite[i].of = of /\ of = ownedBy /\ ownedBy # NoEmail
    BY <1>2, <1>3, <1>5, <2>0 DEF AccountIInv, RedeemStands, OwnerKeeps, OpenIsTheOwners
  <2>2. of = e \/ stub
    BY <1>1, <1>3, <1>4, <1>5 DEF AccountIInv, WorkIsKnown
  <2>3. taken' = FALSE
    BY <1>5, <2>0, <2>1, <2>2 DEF OwnerKeeps
  <2>4. OpenIsTheOwners'
    <3> SUFFICES ASSUME NEW j \in Invites, invite'[j].is = "open" PROVE invite'[j].of = ownedBy' /\ ownedBy' # NoEmail
      BY DEF OpenIsTheOwners
    <3>1. j # i /\ invite'[j] = ended(j)
      BY <1>8, <1>9
    <3>2. invite[j].is = "open" /\ ended(j).of = invite[j].of /\ ~(of # e /\ stub /\ invite[j].of = of)
      BY <1>7, <3>1
    <3>3. invite[j].of = ownedBy
      BY <2>0, <3>2 DEF OwnerKeeps, OpenIsTheOwners
    <3> QED BY <1>5, <2>1, <2>2, <3>1, <3>2, <3>3
  <2> QED BY <2>3, <2>4 DEF OwnerKeeps
<1>14. AccountsWhole => AccountsWhole'
  <2>1. ProfilesFollow => ProfilesFollow'
    BY <1>5, AccountRequestEnds DEF AccountIInv, ProfilesFollow
  <2>2. LoginsHaveRows => LoginsHaveRows'
    BY <1>5, AccountRequestEnds DEF AccountIInv, LoginsHaveRows, Exists, At
  <2> QED BY <2>1, <2>2 DEF AccountsWhole
<1> QED BY <1>5, <1>6, <1>10, <1>11, <1>12, <1>13, <1>14 DEF AccountIInv

\* Every step keeps the invariant.
LEMMA AccountStepKeeps == AccountIInv /\ [AccountNext]_accountVars => AccountIInv'
BY SyncReadKeeps, MakeLoginKeeps, DeleteCheckKeeps, DeleteRowKeeps, GiveReadKeeps, GiveProjectKeeps,
   RedeemCheckKeeps, SyncKeeps, SyncProfileKeeps, CreateRowKeeps,
   AccountEndKeeps, CreateInviteReadKeeps, CreateInviteKeeps, RedeemKeeps, AccountsMoveAside DEF AccountNext

\* What a request still knows at its second statement, and who is on the way to make a
\* row or a profile that is missing, in every behaviour (AuthService, AdminService,
\* ProjectsService, InvitesService).
THEOREM AccountsHold == AccountSpec => []AccountIInv
BY AccountInitial, AccountStepKeeps, PTL DEF AccountSpec

\* The invariant is more than the types and what the accounts agree on.
LEMMA AccountsFollow == AccountIInv => AccountTypeOK /\ AccountsAgree
<1> SUFFICES ASSUME AccountIInv PROVE ClientKeepsProject /\ AccountIsWhole
  BY DEF AccountIInv, AccountTypes, AccountsAgree
<1>1. ClientKeepsProject
  BY DEF AccountIInv, OwnerKeeps, ClientKeepsProject
<1>2. AccountIsWhole
  BY DEF AccountIInv, AccountsWhole, ProfilesFollow, LoginsHaveRows, AccountIsWhole, At
<1> QED BY <1>1, <1>2

-----------------------------------------------------------------------------
(***************************************************************************)
(* Who sees a project.  A request reads the project, the worker, the       *)
(* assignment and the membership one after the other while others write    *)
(* them.  AskIsSound frames what it remembers by what was true at some     *)
(* moment and what was true all the time, AskIsAt says what it has read,   *)
(* and found missing, when it stands where it does.                        *)
(***************************************************************************)

AskStands  == {"idle", "project", "worker", "assignment", "membership", "orgs", "query", "granted", "refused"}
AskRecords == [user : Accounts \cup {NoAccount}, question : Questions \cup {"none"},
               read : SUBSET AllGrounds, had : SUBSET AllGrounds, held : SUBSET AllGrounds]

\* What is true now of the project for who asks.
GroundsOf(r) == GroundsIn(asks[r].user, hasOrg, owner, lead, assigned, tier, members)

\* What a request remembers frames what is true now; some grounds are of one role only.
AskIsSound(r) ==
  apc[r] # "idle" =>
    /\ asks[r].user \in Accounts /\ asks[r].question \in Questions
    /\ asks[r].held \subseteq GroundsOf(r)
    /\ GroundsOf(r) \subseteq asks[r].had
    /\ asks[r].read \subseteq asks[r].had
    /\ "owner" \in asks[r].had => asks[r].user \in AClients
    /\ asks[r].had \cap {"lead", "assigned", "standard"} # {} => Worker(r)

\* Of gs, whatever was there all the time has been read.
HasRead(r, gs) == asks[r].held \cap gs \subseteq asks[r].read

\* What has been read and found missing when the request stands where it does.
AskIsAt(r) ==
  /\ apc[r] = "project" => ~Asks(r, Filters) /\ asks[r].read = {}
  /\ apc[r] = "worker" =>
       /\ Worker(r) /\ Asks(r, Filters \cup {"open", "timeline", "report", "add"})
       /\ ~Asks(r, Filters) => HasRead(r, {"lead", "org"})
  /\ apc[r] = "assignment" =>
       /\ Worker(r) /\ Asks(r, {"open", "timeline", "report", "add"})
       /\ HasRead(r, {"lead", "org", "standard"})
       /\ ~Asks(r, {"add"}) => "lead" \notin asks[r].read
  /\ apc[r] = "membership" =>
       /\ ~Asks(r, {"open", "add"} \cup Filters) \/ (Worker(r) /\ Asks(r, {"open"}))
       /\ "org" \in asks[r].read
       /\ Worker(r) /\ ~Asks(r, {"comment"}) =>
            /\ asks[r].held \cap {"lead", "assigned"} = {} /\ "standard" \in asks[r].read
       /\ ~Worker(r) => HasRead(r, {"owner"}) /\ "noOrg" \notin asks[r].held
  /\ apc[r] = "orgs" => Worker(r) /\ Asks(r, {"list", "images"}) /\ HasRead(r, {"standard"})
  /\ apc[r] = "query" =>
       /\ Asks(r, Filters)
       /\ Worker(r) /\ ~Asks(r, {"available"}) => HasRead(r, {"standard", "member"})
       /\ ~Worker(r) => asks[r].user \in AClients /\ ~Asks(r, {"available"})

AnswerIsRight(r) ==
  /\ apc[r] = "granted" /\ Ruled(r) => Suffices(asks[r].user, asks[r].had)
  /\ apc[r] = "refused" /\ Ruled(r) /\ Asks(r, {"open", "timeline", "list", "images"}) =>
       ~Suffices(asks[r].user, asks[r].held)

AccessIInv ==
  /\ AccessTypeOK /\ asks \in [ARequests -> AskRecords]
  /\ \A r \in ARequests : AskIsSound(r) /\ AskIsAt(r) /\ AnswerIsRight(r)

\* More grounds are no worse.
LEMMA MoreSuffices ==
  ASSUME NEW u, NEW S, NEW T, S \subseteq T, Suffices(u, S)
  PROVE  Suffices(u, T)
BY DEF Suffices

\* What there may be for anybody is among all there may be.
LEMMA GroundsAreGrounds ==
  ASSUME NEW u, NEW o, NEW ow, NEW l, NEW as, NEW t, NEW m
  PROVE  GroundsIn(u, o, ow, l, as, t, m) \subseteq AllGrounds
BY DEF GroundsIn

\* Only a client owns, only a worker takes part, and a project has an organisation or
\* none.
LEMMA GroundsOfRole ==
  ASSUME AccessTypeOK, NEW u \in Accounts
  PROVE  /\ Grounds(u) \subseteq AllGrounds
         /\ "owner" \in Grounds(u) => u \in AClients
         /\ Grounds(u) \cap {"lead", "assigned", "standard"} # {} => u \in AWorkers
         /\ "org" \in Grounds(u) => "noOrg" \notin Grounds(u)
         /\ "org" \in Grounds(u) \/ "noOrg" \in Grounds(u)
BY AccessAssumption DEF AccessTypeOK, Grounds, GroundsIn, AllGrounds, Accounts

\* Nobody asks.
LEMMA AccessInitial == AccessInit => AccessIInv
<1> SUFFICES ASSUME AccessInit PROVE AccessIInv
  OBVIOUS
<1>1. NoAsk \in AskRecords /\ NoAsk.user = NoAccount /\ NoAsk.question = "none"
  BY DEF NoAsk, AskRecords
<1>2. asks \in [ARequests -> AskRecords] /\ \A r \in ARequests : apc[r] = "idle" /\ asks[r] = NoAsk
  BY <1>1 DEF AccessInit
<1>3. AccessTypeOK
  BY <1>1, <1>2 DEF AccessInit, AccessTypeOK
<1>4. \A r \in ARequests : AskIsSound(r) /\ AskIsAt(r) /\ AnswerIsRight(r)
  BY <1>2 DEF AskIsSound, AskIsAt, AnswerIsRight
<1> QED BY <1>2, <1>3, <1>4 DEF AccessIInv

\* The world moves: what was held shrinks, what was had grows, what was read stays.
LEMMA WorldMovesKeeps ==
  ASSUME AccessIInv, WorldMoves
  PROVE  AccessIInv'
<1> DEFINE now(r) == GroundsIn(asks[r].user, hasOrg', owner', lead', assigned', tier', members')
           after(r) == [asks[r] EXCEPT !.had = @ \cup now(r), !.held = @ \cap now(r)]
<1>1. /\ asks' = [r \in ARequests |-> IF apc[r] = "idle" THEN asks[r] ELSE after(r)]
      /\ apc' = apc
  BY DEF WorldMoves
<1>2. /\ hasOrg' \in BOOLEAN /\ closed' \in BOOLEAN
      /\ owner' \in Accounts /\ lead' \in AWorkers \cup {NoAccount}
      /\ assigned' \subseteq AWorkers /\ members' \subseteq Accounts
      /\ tier' \in [AWorkers -> {"standard", "restricted"}]
  BY DEF WorldMoves, NewLead, NewAssignment, NewOrg, NewTier, NewMember, NewOwner, Close,
         AccessIInv, AccessTypeOK
<1>3. ASSUME NEW r \in ARequests
      PROVE  /\ after(r) \in AskRecords /\ asks[r] \in AskRecords
             /\ after(r).user = asks[r].user /\ after(r).question = asks[r].question
             /\ after(r).read = asks[r].read
             /\ after(r).had = asks[r].had \cup now(r) /\ after(r).held = asks[r].held \cap now(r)
  <2>1. asks[r] \in AskRecords
    BY DEF AccessIInv
  <2>2. now(r) \subseteq AllGrounds
    BY GroundsAreGrounds
  <2> HIDE DEF now
  <2> QED BY <2>1, <2>2 DEF AskRecords
<1>4. ASSUME NEW r \in ARequests
      PROVE  asks'[r] = IF apc[r] = "idle" THEN asks[r] ELSE after(r)
  BY <1>1
<1>5. asks' \in [ARequests -> AskRecords]
  <2> HIDE DEF after
  <2> QED BY <1>1, <1>3
<1>6. \A r \in ARequests : asks'[r].user = asks[r].user /\ asks'[r].question = asks[r].question
  <2> HIDE DEF after
  <2> QED BY <1>3, <1>4
<1>7. AccessTypeOK'
  BY <1>1, <1>2, <1>6 DEF AccessIInv, AccessTypeOK
<1>8. ASSUME NEW r \in ARequests, apc[r] # "idle"
      PROVE  /\ asks'[r].read = asks[r].read
             /\ asks'[r].had = asks[r].had \cup now(r) /\ asks'[r].held = asks[r].held \cap now(r)
             /\ GroundsOf(r)' = now(r)
  <2>1. GroundsOf(r)' = now(r)
    BY <1>6 DEF GroundsOf
  <2> HIDE DEF after, now
  <2> QED BY <1>3, <1>4, <1>8, <2>1
<1> HIDE DEF now, after
<1>9. ASSUME NEW r \in ARequests
      PROVE  AskIsSound(r)' /\ AskIsAt(r)' /\ AnswerIsRight(r)'
  <2>1. CASE apc[r] = "idle"
    BY <1>1, <2>1 DEF AskIsSound, AskIsAt, AnswerIsRight
  <2>2. CASE apc[r] # "idle"
    <3>1. /\ asks'[r].user = asks[r].user /\ asks'[r].question = asks[r].question
          /\ asks'[r].read = asks[r].read
          /\ asks[r].had \subseteq asks'[r].had /\ asks'[r].held \subseteq asks[r].held
          /\ asks'[r].held \subseteq now(r) /\ now(r) \subseteq asks'[r].had
          /\ asks'[r].had = asks[r].had \cup now(r)
      BY <1>6, <1>8, <2>2
    <3>2. /\ AskIsSound(r) /\ AskIsAt(r) /\ AnswerIsRight(r) /\ asks[r].user \in Accounts
      BY <2>2 DEF AccessIInv, AskIsSound
    <3>3. /\ "owner" \in now(r) => asks[r].user \in AClients
          /\ now(r) \cap {"lead", "assigned", "standard"} # {} => asks[r].user \in AWorkers
      BY <1>2, <3>2, AccessAssumption DEF now, GroundsIn, Accounts
    <3>4. AskIsSound(r)'
      <4>2. /\ asks'[r].user \in Accounts /\ asks'[r].question \in Questions
            /\ asks'[r].read \subseteq asks'[r].had
        BY <2>2, <3>1, <3>2 DEF AskIsSound
      <4>3. /\ "owner" \in asks'[r].had => asks'[r].user \in AClients
            /\ asks'[r].had \cap {"lead", "assigned", "standard"} # {} => asks'[r].user \in AWorkers
        BY <2>2, <3>1, <3>2, <3>3 DEF AskIsSound, Worker
      <4>4. GroundsOf(r)' = now(r)
        BY <1>8, <2>2
      <4> QED BY <3>1, <4>2, <4>3, <4>4 DEF AskIsSound, Worker
    <3>5. AskIsAt(r)'
      BY <1>1, <3>1, <3>2 DEF AskIsAt, HasRead, Asks, Worker
    <3>6. AnswerIsRight(r)'
      <4>1. /\ Suffices(asks[r].user, asks[r].had) => Suffices(asks'[r].user, asks'[r].had)
            /\ Suffices(asks'[r].user, asks'[r].held) => Suffices(asks[r].user, asks[r].held)
        BY <3>1, MoreSuffices
      <4> QED BY <1>1, <3>1, <3>2, <4>1 DEF AnswerIsRight, Ruled, Asks, Worker, Admin
    <3> QED BY <3>4, <3>5, <3>6
  <2> QED BY <2>1, <2>2
<1> QED BY <1>5, <1>7, <1>9 DEF AccessIInv

\* A statement reads what is true now of gs, and nothing else changes.
LEMMA StatementReads ==
  ASSUME AccessIInv, NEW r \in ARequests, NEW gs, NEW at \in AskStands, ARead(r, gs, at), apc[r] # "idle",
         gs \subseteq AllGrounds
  PROVE  /\ AccessTypeOK' /\ asks' \in [ARequests -> AskRecords]
         /\ apc'[r] = at
         /\ asks'[r].user = asks[r].user /\ asks'[r].question = asks[r].question
         /\ asks'[r].had = asks[r].had /\ asks'[r].held = asks[r].held
         /\ asks'[r].read = Reading(r, gs)
         /\ asks[r].held \cap gs \subseteq Reading(r, gs) /\ asks[r].read \subseteq Reading(r, gs)
         /\ AskIsSound(r)'
         /\ \A q \in ARequests \ {r} : AskIsSound(q)' /\ AskIsAt(q)' /\ AnswerIsRight(q)'
<1> DEFINE l == [asks[r] EXCEPT !.read = Reading(r, gs)]
<1>1. /\ apc' = [apc EXCEPT ![r] = at] /\ asks' = [asks EXCEPT ![r] = l]
      /\ hasOrg' = hasOrg /\ owner' = owner /\ lead' = lead /\ assigned' = assigned /\ tier' = tier
      /\ members' = members /\ closed' = closed
  BY DEF ARead, accessWorld
<1>2. asks[r] \in AskRecords /\ AskIsSound(r) /\ asks[r].user \in Accounts /\ AccessTypeOK
  BY DEF AccessIInv, AskIsSound
<1>3. Reading(r, gs) \subseteq AllGrounds
  BY <1>2 DEF Reading, AskRecords
<1>4. /\ l \in AskRecords /\ l.user = asks[r].user /\ l.question = asks[r].question
      /\ l.had = asks[r].had /\ l.held = asks[r].held /\ l.read = Reading(r, gs)
  BY <1>2, <1>3 DEF AskRecords
<1> HIDE DEF l
<1>5. /\ asks' \in [ARequests -> AskRecords] /\ asks'[r] = l /\ apc'[r] = at
      /\ \A q \in ARequests \ {r} : asks'[q] = asks[q] /\ apc'[q] = apc[q]
  BY <1>1, <1>4 DEF AccessIInv, AccessTypeOK
<1>6. AccessTypeOK'
  <2>1. apc' \in [ARequests -> AskStands]
    BY <1>1 DEF AccessIInv, AccessTypeOK, AskStands
  <2>2. \A q \in ARequests : /\ asks'[q].user \in Accounts \cup {NoAccount}
                             /\ asks'[q].question \in Questions \cup {"none"}
    BY <1>5 DEF AskRecords
  <2> QED BY <1>1, <1>2, <2>1, <2>2 DEF AccessTypeOK, AskStands
<1>8. /\ asks[r].held \cap gs \subseteq Reading(r, gs) /\ asks[r].read \subseteq Reading(r, gs)
      /\ Reading(r, gs) \subseteq asks[r].had
  BY <1>2 DEF AskIsSound, Reading, GroundsOf, Grounds
<1>9. AskIsSound(r)'
  <2>1. GroundsOf(r)' = GroundsOf(r)
    BY <1>1, <1>4, <1>5 DEF GroundsOf
  <2> QED BY <1>2, <1>4, <1>5, <1>8, <2>1 DEF AskIsSound, Worker
<1>10. ASSUME NEW q \in ARequests \ {r}
       PROVE  AskIsSound(q)' /\ AskIsAt(q)' /\ AnswerIsRight(q)'
  <2>1. asks'[q] = asks[q] /\ apc'[q] = apc[q] /\ AskIsSound(q) /\ AskIsAt(q) /\ AnswerIsRight(q)
    BY <1>5 DEF AccessIInv
  <2>2. GroundsOf(q)' = GroundsOf(q)
    BY <1>1, <2>1 DEF GroundsOf
  <2>3. AskIsSound(q)'
    BY <2>1, <2>2 DEF AskIsSound, Worker
  <2> QED BY <2>1, <2>3 DEF AskIsAt, AnswerIsRight, HasRead, Asks, Worker, Admin, Ruled
<1> QED BY <1>4, <1>5, <1>6, <1>8, <1>9, <1>10

\* A request comes in and is answered at once, or goes on to its first read.
LEMMA AskKeeps ==
  ASSUME AccessIInv, NEW r \in ARequests, NEW u \in Accounts, NEW q \in Questions, Ask(r, u, q)
  PROVE  AccessIInv'
<1> DEFINE l == [user |-> u, question |-> q, read |-> {}, had |-> Grounds(u), held |-> Grounds(u)]
           at == IF q \notin Filters THEN "project" ELSE IF u \in AWorkers THEN "worker" ELSE "query"
<1>1. /\ apc' = [apc EXCEPT ![r] = at] /\ asks' = [asks EXCEPT ![r] = l]
      /\ hasOrg' = hasOrg /\ owner' = owner /\ lead' = lead /\ assigned' = assigned /\ tier' = tier
      /\ members' = members /\ closed' = closed
      /\ q \in Filters => u \notin AAdmins
      /\ q = "available" => u \in AWorkers
  BY DEF Ask, accessWorld
<1>2. Grounds(u) \subseteq AllGrounds /\ AccessTypeOK
  BY GroundsOfRole DEF AccessIInv
<1>3. /\ l \in AskRecords /\ l.user = u /\ l.question = q /\ l.had = Grounds(u) /\ l.held = Grounds(u)
      /\ l.read = {}
  BY <1>2 DEF AskRecords
<1>4. /\ at \in {"project", "worker", "query"}
      /\ at = "project" => q \notin Filters
      /\ at = "worker" => q \in Filters /\ u \in AWorkers
      /\ at = "query" => q \in Filters /\ u \notin AWorkers
  OBVIOUS
<1> HIDE DEF l, at
<1>5. /\ asks' \in [ARequests -> AskRecords] /\ asks'[r] = l /\ apc'[r] = at
      /\ \A p \in ARequests \ {r} : asks'[p] = asks[p] /\ apc'[p] = apc[p]
  BY <1>1, <1>3 DEF AccessIInv, AccessTypeOK
<1>6. AccessTypeOK'
  <2>1. apc' \in [ARequests -> AskStands]
    BY <1>1, <1>4 DEF AccessIInv, AccessTypeOK, AskStands
  <2>2. \A p \in ARequests : /\ asks'[p].user \in Accounts \cup {NoAccount}
                             /\ asks'[p].question \in Questions \cup {"none"}
    BY <1>5 DEF AskRecords
  <2> QED BY <1>1, <1>2, <2>1, <2>2 DEF AccessTypeOK, AskStands
<1>7. AskIsSound(r)'
  <2>2. GroundsOf(r)' = Grounds(u)
    BY <1>1, <1>3, <1>5 DEF GroundsOf, Grounds
  <2> QED BY <1>2, <1>3, <1>5, <2>2, GroundsOfRole DEF AskIsSound, Worker
<1>8. AskIsAt(r)' /\ AnswerIsRight(r)'
  <2>1. q \in Filters /\ u \notin AWorkers => u \in AClients /\ q # "available"
    BY <1>1 DEF Accounts
  <2> QED BY <1>3, <1>4, <1>5, <2>1 DEF AskIsAt, AnswerIsRight, HasRead, Asks, Worker, Filters
<1>9. ASSUME NEW p \in ARequests \ {r}
      PROVE  AskIsSound(p)' /\ AskIsAt(p)' /\ AnswerIsRight(p)'
  <2>1. asks'[p] = asks[p] /\ apc'[p] = apc[p] /\ AskIsSound(p) /\ AskIsAt(p) /\ AnswerIsRight(p)
    BY <1>5 DEF AccessIInv
  <2>2. GroundsOf(p)' = GroundsOf(p)
    BY <1>1, <2>1 DEF GroundsOf
  <2>3. AskIsSound(p)'
    BY <2>1, <2>2 DEF AskIsSound, Worker
  <2> QED BY <2>1, <2>3 DEF AskIsAt, AnswerIsRight, HasRead, Asks, Worker, Admin, Ruled
<1> QED BY <1>5, <1>6, <1>7, <1>8, <1>9 DEF AccessIInv

\* An answer is right when the grounds that were read are enough, or those held are not.
LEMMA GrantIsRight ==
  ASSUME NEW r \in ARequests, NEW u, NEW read, AskIsSound(r)', apc'[r] # "idle",
         asks'[r].read = read, asks'[r].user = u, Suffices(u, read)
  PROVE  Suffices(asks'[r].user, asks'[r].had)
BY MoreSuffices DEF AskIsSound

\* The project is read, and with it its client and the contract's worker.
LEMMA ReadProjectKeeps ==
  ASSUME AccessIInv, NEW r \in ARequests, ReadProject(r)
  PROVE  AccessIInv'
<1> DEFINE gs == {"owner", "lead", "org", "noOrg"}
           read == Reading(r, gs)
           mine == "owner" \in read \/ (Asks(r, {"comment"}) /\ "lead" \in read)
<1>1. /\ apc[r] = "project" /\ ~Asks(r, Filters) /\ AskIsSound(r) /\ asks[r].question \in Questions
      /\ asks[r].user \in Accounts /\ asks[r].held \subseteq Grounds(asks[r].user)
  BY DEF ReadProject, AccessIInv, AskIsAt, AskIsSound, GroundsOf, Grounds
<1>2. PICK at \in AskStands :
        /\ ARead(r, gs, at)
        /\ \/ at = "granted" /\ Asks(r, {"open"}) /\ ~Worker(r)
           \/ at = "worker" /\ Worker(r) /\ Asks(r, {"open", "timeline", "report", "add"})
           \/ /\ Asks(r, {"add"}) /\ ~Worker(r)
              /\ at = AnswerIf(Admin(r) \/ "owner" \in read)
           \/ at = "refused" /\ Asks(r, {"gallery"}) /\ ~Admin(r)
           \/ /\ \/ Asks(r, {"timeline", "report"}) /\ ~Worker(r)
                 \/ Asks(r, {"comment"})
                 \/ Asks(r, {"gallery"}) /\ (Admin(r) \/ "owner" \in read)
              /\ at = IF "org" \in read THEN "membership"
                      ELSE AnswerIf((mine \/ Admin(r)) /\ Scoped(r, read))
  BY DEF ReadProject, AskStands, AnswerIf
<1>3. gs \subseteq AllGrounds
  BY DEF AllGrounds
<1> HIDE DEF gs
<1>4. /\ AccessTypeOK' /\ asks' \in [ARequests -> AskRecords]
      /\ apc'[r] = at
      /\ asks'[r].user = asks[r].user /\ asks'[r].question = asks[r].question
      /\ asks'[r].had = asks[r].had /\ asks'[r].held = asks[r].held
      /\ asks'[r].read = Reading(r, gs)
      /\ asks[r].held \cap gs \subseteq Reading(r, gs) /\ asks[r].read \subseteq Reading(r, gs)
      /\ AskIsSound(r)'
      /\ \A q \in ARequests \ {r} : AskIsSound(q)' /\ AskIsAt(q)' /\ AnswerIsRight(q)'
  BY <1>1, <1>2, <1>3, StatementReads
<1>5. asks[r].read = {} /\ read = Grounds(asks[r].user) \cap gs
  BY <1>1 DEF AccessIInv, AskIsAt, Reading
<1>6. /\ "org" \in read => "noOrg" \notin asks[r].held
      /\ "org" \notin read => "noOrg" \in read
      /\ "owner" \in read => asks[r].user \in AClients
      /\ "lead" \in read => asks[r].user \in AWorkers
  BY <1>1, <1>5, GroundsOfRole DEF gs, AccessIInv
<1>7. asks[r].user \in AWorkers \/ asks[r].user \in AClients \/ asks[r].user \in AAdmins
  BY <1>1 DEF Accounts
<1>8. HasRead(r, gs)' /\ read = asks'[r].read
  BY <1>4 DEF HasRead
<1>9. /\ Worker(r)' <=> Worker(r)
      /\ Admin(r)' <=> Admin(r)
      /\ \A qs : Asks(r, qs)' <=> Asks(r, qs)
  BY <1>4 DEF Worker, Admin, Asks
<1> HIDE DEF read
<1>10. AskIsAt(r)'
  <2>1. CASE at = "worker"
    BY <1>2, <1>4, <1>8, <2>1 DEF AskIsAt, HasRead, Worker, Asks, gs, AnswerIf
  <2>2. CASE at = "membership"
    <3>1. /\ "org" \in read
          /\ Asks(r, {"timeline", "report", "comment", "gallery"})
          /\ Worker(r) => Asks(r, {"comment"}) \/ (Asks(r, {"gallery"}) /\ (Admin(r) \/ "owner" \in read))
      BY <1>2, <2>2 DEF AnswerIf, Asks
    <3>2. Worker(r) => ~Admin(r) /\ "owner" \notin read
      BY <1>6, AccessAssumption DEF Worker, Admin
    <3> QED BY <1>4, <1>6, <1>8, <2>2, <3>1, <3>2 DEF AskIsAt, HasRead, Worker, Asks, gs, Filters
  <2>3. CASE at \in {"granted", "refused"}
    BY <1>4, <2>3 DEF AskIsAt
  <2> QED BY <1>2, <2>1, <2>2, <2>3 DEF AnswerIf
<1>11. AnswerIsRight(r)'
  <2>1. CASE at = "granted"
    <3>1. ASSUME Ruled(r)'
          PROVE  Suffices(asks[r].user, read)
      <4>1. \/ Asks(r, {"add"}) /\ ~Worker(r) /\ "owner" \in read
            \/ ~Asks(r, {"open", "add"}) /\ "org" \notin read /\ (mine \/ Admin(r))
        BY <1>2, <1>9, <2>1, <3>1 DEF Ruled, AnswerIf, Asks, Worker, Admin
      <4> QED BY <1>6, <1>7, <4>1 DEF Suffices, Admin, Asks
    <3>2. Ruled(r)' => Suffices(asks'[r].user, asks'[r].had)
      BY <1>4, <1>8, <2>1, <3>1, GrantIsRight
    <3> QED BY <1>4, <2>1, <3>2 DEF AnswerIsRight
  <2>2. CASE at = "refused"
    <3>1. ASSUME Asks(r, {"open", "timeline", "list", "images"})
          PROVE  ~Suffices(asks[r].user, asks[r].held)
      <4>1. /\ Asks(r, {"timeline"}) /\ ~Worker(r) /\ "org" \notin read /\ ~mine /\ ~Admin(r)
        BY <1>2, <2>2, <3>1 DEF AnswerIf, Asks, Scoped
      <4>2. "owner" \notin asks[r].held
        BY <1>4, <4>1 DEF gs, read
      <4> QED BY <4>1, <4>2 DEF Suffices, Worker, Admin
    <3> QED BY <1>4, <1>9, <2>2, <3>1 DEF AnswerIsRight
  <2>3. CASE at \notin {"granted", "refused"}
    BY <1>4, <2>3 DEF AnswerIsRight
  <2> QED BY <2>1, <2>2, <2>3
<1> QED BY <1>4, <1>10, <1>11 DEF AccessIInv

\* The worker is read, with the tier.
LEMMA ReadWorkerKeeps ==
  ASSUME AccessIInv, NEW r \in ARequests, ReadWorker(r)
  PROVE  AccessIInv'
<1> DEFINE gs == {"standard"}
           read == Reading(r, gs)
           old == asks[r].read
<1>1. /\ apc[r] = "worker" /\ AskIsSound(r) /\ AskIsAt(r)
  BY DEF ReadWorker, AccessIInv
<1>2. PICK at \in AskStands :
        /\ ARead(r, gs, at)
        /\ at = IF Asks(r, {"available"}) THEN "query"
                ELSE IF Asks(r, {"list", "images"}) THEN "orgs"
                ELSE IF "lead" \in old /\ ~Asks(r, {"add"}) THEN AnswerIf(Scoped(r, old))
                ELSE "assignment"
  BY DEF ReadWorker, AskStands, AnswerIf
<1>3. gs \subseteq AllGrounds /\ read = old \cup (Grounds(asks[r].user) \cap {"standard"})
  BY DEF AllGrounds, Reading
<1> HIDE DEF gs
<1>4. /\ AccessTypeOK' /\ asks' \in [ARequests -> AskRecords]
      /\ apc'[r] = at
      /\ asks'[r].user = asks[r].user /\ asks'[r].question = asks[r].question
      /\ asks'[r].had = asks[r].had /\ asks'[r].held = asks[r].held
      /\ asks'[r].read = Reading(r, gs)
      /\ asks[r].held \cap gs \subseteq Reading(r, gs) /\ asks[r].read \subseteq Reading(r, gs)
      /\ AskIsSound(r)'
      /\ \A q \in ARequests \ {r} : AskIsSound(q)' /\ AskIsAt(q)' /\ AnswerIsRight(q)'
  BY <1>1, <1>2, <1>3, StatementReads
<1>5. Worker(r) /\ Asks(r, Filters \cup {"open", "timeline", "report", "add"})
  BY <1>1 DEF AskIsAt
<1>6. ~Asks(r, Filters) => HasRead(r, {"lead", "org"})
  BY <1>1 DEF AskIsAt
<1>7. /\ Worker(r)' <=> Worker(r)
      /\ \A qs : Asks(r, qs)' <=> Asks(r, qs)
  BY <1>4 DEF Worker, Asks
<1>8. read = asks'[r].read
  BY <1>4
<1>9. HasRead(r, {"standard"})'
  BY <1>4 DEF HasRead, gs
<1> HIDE DEF read
<1>10. AskIsAt(r)'
  <2>1. CASE at = "query"
    BY <1>2, <1>4, <1>5, <2>1 DEF AskIsAt, Worker, Asks, Filters, AnswerIf
  <2>2. CASE at = "orgs"
    BY <1>2, <1>4, <1>5, <1>9, <2>2 DEF AskIsAt, Worker, Asks, AnswerIf
  <2>3. CASE at = "assignment"
    <3>1. /\ Asks(r, {"open", "timeline", "report", "add"}) /\ ~Asks(r, Filters)
          /\ ~Asks(r, {"add"}) => "lead" \notin old
      BY <1>2, <1>5, <2>3 DEF AnswerIf, Asks, Filters
    <3>2. HasRead(r, {"lead", "org", "standard"})'
      BY <1>3, <1>4, <1>6, <1>8, <1>9, <3>1 DEF HasRead
    <3>3. ~Asks(r, {"add"}) => "lead" \notin asks'[r].read
      BY <1>3, <1>8, <3>1
    <3> QED BY <1>4, <1>5, <1>7, <2>3, <3>1, <3>2, <3>3 DEF AskIsAt
  <2>4. CASE at \in {"granted", "refused"}
    BY <1>4, <2>4 DEF AskIsAt
  <2> QED BY <1>2, <2>1, <2>2, <2>3, <2>4 DEF AnswerIf
<1>11. AnswerIsRight(r)'
  <2>1. CASE at = "granted"
    <3>1. Suffices(asks[r].user, read)
      BY <1>2, <1>3, <1>5, <2>1 DEF Suffices, Worker, AnswerIf
    <3> QED BY <1>4, <1>8, <2>1, <3>1, GrantIsRight DEF AnswerIsRight
  <2>2. CASE at = "refused"
    <3>1. ~Asks(r, {"open", "timeline", "list", "images"})
      BY <1>2, <2>2 DEF AnswerIf, Asks, Scoped
    <3> QED BY <1>4, <1>7, <2>2, <3>1 DEF AnswerIsRight
  <2>3. CASE at \notin {"granted", "refused"}
    BY <1>4, <2>3 DEF AnswerIsRight
  <2> QED BY <2>1, <2>2, <2>3
<1> QED BY <1>4, <1>10, <1>11 DEF AccessIInv

\* The worker's assignment to the project is looked for.
LEMMA ReadAssignmentKeeps ==
  ASSUME AccessIInv, NEW r \in ARequests, ReadAssignment(r)
  PROVE  AccessIInv'
<1> DEFINE gs == {"assigned"}
           read == Reading(r, gs)
           old == asks[r].read
<1>1. /\ apc[r] = "assignment" /\ AskIsSound(r) /\ AskIsAt(r)
  BY DEF ReadAssignment, AccessIInv
<1>2. PICK at \in AskStands :
        /\ ARead(r, gs, at)
        /\ at = IF "assigned" \in read THEN AnswerIf(Scoped(r, read))
                ELSE IF Asks(r, {"add"}) THEN AnswerIf("lead" \in read)
                ELSE IF Restricted(read) \/ "org" \notin read THEN "refused"
                ELSE "membership"
  BY DEF ReadAssignment, AskStands, AnswerIf
<1>3. gs \subseteq AllGrounds /\ read = old \cup (Grounds(asks[r].user) \cap {"assigned"})
  BY DEF AllGrounds, Reading
<1> HIDE DEF gs
<1>4. /\ AccessTypeOK' /\ asks' \in [ARequests -> AskRecords]
      /\ apc'[r] = at
      /\ asks'[r].user = asks[r].user /\ asks'[r].question = asks[r].question
      /\ asks'[r].had = asks[r].had /\ asks'[r].held = asks[r].held
      /\ asks'[r].read = Reading(r, gs)
      /\ asks[r].held \cap gs \subseteq Reading(r, gs) /\ asks[r].read \subseteq Reading(r, gs)
      /\ AskIsSound(r)'
      /\ \A q \in ARequests \ {r} : AskIsSound(q)' /\ AskIsAt(q)' /\ AnswerIsRight(q)'
  BY <1>1, <1>2, <1>3, StatementReads
<1>5. /\ Worker(r) /\ Asks(r, {"open", "timeline", "report", "add"})
      /\ HasRead(r, {"lead", "org", "standard"})
      /\ ~Asks(r, {"add"}) => "lead" \notin old
  BY <1>1 DEF AskIsAt
<1>7. /\ Worker(r)' <=> Worker(r)
      /\ \A qs : Asks(r, qs)' <=> Asks(r, qs)
  BY <1>4 DEF Worker, Asks
<1>8. read = asks'[r].read
  BY <1>4
<1>9. "assigned" \notin read => "assigned" \notin asks[r].held
  BY <1>4 DEF gs
<1>9a. ~Asks(r, {"add"}) => "lead" \notin read /\ "lead" \notin asks[r].held
  BY <1>3, <1>5 DEF HasRead
<1> HIDE DEF read
<1>10. AskIsAt(r)'
  <2>1. CASE at = "membership"
    <3>1. "assigned" \notin read /\ ~Asks(r, {"add"}) /\ "standard" \in read /\ "org" \in read
      BY <1>2, <2>1 DEF AnswerIf, Restricted
    <3>2. asks'[r].held \cap {"lead", "assigned"} = {}
      BY <1>4, <1>9, <1>9a, <3>1
    <3>3. ~Asks(r, {"open", "add"} \cup Filters) \/ Asks(r, {"open"})
      BY <1>5, <3>1 DEF Asks, Filters
    <3>4. ~Asks(r, {"comment"})
      BY <1>5 DEF Asks
    <3> QED BY <1>4, <1>5, <1>7, <1>8, <2>1, <3>1, <3>2, <3>3, <3>4 DEF AskIsAt
  <2>2. CASE at \in {"granted", "refused"}
    BY <1>4, <2>2 DEF AskIsAt
  <2> QED BY <1>2, <2>1, <2>2 DEF AnswerIf
<1>11. AnswerIsRight(r)'
  <2>1. CASE at = "granted"
    <3>1. Suffices(asks[r].user, read)
      BY <1>2, <1>5, <2>1 DEF Suffices, Worker, AnswerIf
    <3> QED BY <1>4, <1>8, <2>1, <3>1, GrantIsRight DEF AnswerIsRight
  <2>2. CASE at = "refused"
    <3>1. ASSUME Asks(r, {"open", "timeline", "list", "images"})
          PROVE  ~Suffices(asks[r].user, asks[r].held)
      <4>1. "assigned" \notin read /\ ~Asks(r, {"add"}) /\ ("standard" \notin read \/ "org" \notin read)
        BY <1>2, <2>2, <3>1 DEF AnswerIf, Asks, Scoped, Restricted
      <4>2. "standard" \notin asks[r].held \/ "org" \notin asks[r].held
        BY <1>3, <1>5, <4>1 DEF HasRead
      <4> QED BY <1>5, <1>9, <1>9a, <4>1, <4>2, AccessAssumption DEF Suffices, Worker
    <3> QED BY <1>4, <1>7, <2>2, <3>1 DEF AnswerIsRight
  <2>3. CASE at \notin {"granted", "refused"}
    BY <1>4, <2>3 DEF AnswerIsRight
  <2> QED BY <2>1, <2>2, <2>3
<1> QED BY <1>4, <1>10, <1>11 DEF AccessIInv

\* The membership in the project's organisation is looked for.
LEMMA ReadMembershipKeeps ==
  ASSUME AccessIInv, NEW r \in ARequests, ReadMembership(r)
  PROVE  AccessIInv'
<1> DEFINE gs == {"member"}
           read == Reading(r, gs)
           old == asks[r].read
           yes == \/ "owner" \in read
                  \/ "member" \in read /\ (Admin(r) \/ (Worker(r) /\ ~Asks(r, {"comment"})))
                  \/ "lead" \in read /\ Asks(r, {"comment"})
<1>1. /\ apc[r] = "membership" /\ AskIsSound(r) /\ AskIsAt(r) /\ asks[r].user \in Accounts
  BY DEF ReadMembership, AccessIInv, AskIsSound
<1>2. PICK at \in AskStands : ARead(r, gs, at) /\ at = AnswerIf(yes)
  BY DEF ReadMembership, AskStands, AnswerIf
<1>3. gs \subseteq AllGrounds
  BY DEF AllGrounds
<1> HIDE DEF gs
<1>4. /\ AccessTypeOK' /\ asks' \in [ARequests -> AskRecords]
      /\ apc'[r] = at
      /\ asks'[r].user = asks[r].user /\ asks'[r].question = asks[r].question
      /\ asks'[r].had = asks[r].had /\ asks'[r].held = asks[r].held
      /\ asks'[r].read = Reading(r, gs)
      /\ asks[r].held \cap gs \subseteq Reading(r, gs) /\ asks[r].read \subseteq Reading(r, gs)
      /\ AskIsSound(r)'
      /\ \A q \in ARequests \ {r} : AskIsSound(q)' /\ AskIsAt(q)' /\ AnswerIsRight(q)'
  BY <1>1, <1>2, <1>3, StatementReads
<1>5. /\ "org" \in old
      /\ Worker(r) /\ ~Asks(r, {"comment"}) =>
           asks[r].held \cap {"lead", "assigned"} = {} /\ "standard" \in old
      /\ ~Worker(r) => HasRead(r, {"owner"}) /\ "noOrg" \notin asks[r].held
  BY <1>1 DEF AskIsAt
<1>6. /\ \A qs : Asks(r, qs)' <=> Asks(r, qs)
      /\ read = asks'[r].read
      /\ old \subseteq read
      /\ "member" \notin read => "member" \notin asks[r].held
  BY <1>4 DEF Asks, gs
<1>7. /\ "owner" \in read => asks[r].user \in AClients
      /\ "lead" \in read => asks[r].user \in AWorkers
  <2>1. apc'[r] # "idle" /\ asks'[r].user = asks[r].user /\ read \subseteq asks'[r].had
    BY <1>2, <1>4, <1>6 DEF AnswerIf, AskIsSound
  <2>2. /\ "owner" \in asks'[r].had => asks'[r].user \in AClients
        /\ asks'[r].had \cap {"lead", "assigned", "standard"} # {} => asks'[r].user \in AWorkers
    BY <1>4, <2>1 DEF AskIsSound, Worker
  <2> HIDE DEF read, yes
  <2> QED BY <2>1, <2>2
<1>8. asks[r].user \in AWorkers \/ asks[r].user \in AClients \/ asks[r].user \in AAdmins
  BY <1>1 DEF Accounts
<1> HIDE DEF read
<1>9. AskIsAt(r)'
  BY <1>2, <1>4 DEF AskIsAt, AnswerIf
<1>10. AnswerIsRight(r)'
  <2>1. CASE yes
    <3>1. Suffices(asks[r].user, read)
      BY <1>5, <1>6, <1>7, <2>1 DEF Suffices, Worker, Admin
    <3>2. at = "granted"
      BY <1>2, <2>1 DEF AnswerIf
    <3> QED BY <1>4, <1>6, <3>1, <3>2, GrantIsRight DEF AnswerIsRight
  <2>2. CASE ~yes
    <3>1. at = "refused"
      BY <1>2, <2>2 DEF AnswerIf
    <3>2. ASSUME Asks(r, {"open", "timeline", "list", "images"})
          PROVE  ~Suffices(asks[r].user, asks[r].held)
      <4>1. ~Asks(r, {"comment"})
        BY <3>2 DEF Asks
      <4>2. CASE asks[r].user \in AWorkers
        <5>1. "member" \notin asks[r].held
          BY <1>6, <2>2, <4>1, <4>2 DEF Worker
        <5> QED BY <1>5, <4>1, <4>2, <5>1, AccessAssumption DEF Suffices, Worker
      <4>3. CASE asks[r].user \in AClients
        <5>1. "owner" \notin asks[r].held
          BY <1>5, <1>6, <2>2, <4>3, AccessAssumption DEF HasRead, Worker
        <5> QED BY <4>3, <5>1, AccessAssumption DEF Suffices
      <4>4. CASE asks[r].user \in AAdmins
        <5>1. "member" \notin asks[r].held /\ "noOrg" \notin asks[r].held
          BY <1>5, <1>6, <2>2, <4>4, AccessAssumption DEF Worker, Admin
        <5> QED BY <4>4, <5>1, AccessAssumption DEF Suffices
      <4> QED BY <1>8, <4>2, <4>3, <4>4
    <3> QED BY <1>4, <1>6, <3>1, <3>2 DEF AnswerIsRight
  <2> QED BY <2>1, <2>2
<1> QED BY <1>4, <1>9, <1>10 DEF AccessIInv

\* The organisations of whoever asks for a list are read.
LEMMA ReadOrgsKeeps ==
  ASSUME AccessIInv, NEW r \in ARequests, ReadOrgs(r)
  PROVE  AccessIInv'
<1> DEFINE gs == {"member"}
<1>1. /\ apc[r] = "orgs" /\ AskIsAt(r) /\ ARead(r, gs, "query")
  BY DEF ReadOrgs, AccessIInv
<1>3. gs \subseteq AllGrounds /\ "query" \in AskStands
  BY DEF AllGrounds, AskStands
<1> HIDE DEF gs
<1>4. /\ AccessTypeOK' /\ asks' \in [ARequests -> AskRecords]
      /\ apc'[r] = "query"
      /\ asks'[r].user = asks[r].user /\ asks'[r].question = asks[r].question
      /\ asks'[r].had = asks[r].had /\ asks'[r].held = asks[r].held
      /\ asks'[r].read = Reading(r, gs)
      /\ asks[r].held \cap gs \subseteq Reading(r, gs) /\ asks[r].read \subseteq Reading(r, gs)
      /\ AskIsSound(r)'
      /\ \A q \in ARequests \ {r} : AskIsSound(q)' /\ AskIsAt(q)' /\ AnswerIsRight(q)'
  BY <1>1, <1>3, StatementReads
<1>5. Worker(r) /\ Asks(r, {"list", "images"}) /\ HasRead(r, {"standard"})
  BY <1>1 DEF AskIsAt
<1>6. HasRead(r, {"standard", "member"})'
  BY <1>4, <1>5 DEF HasRead, gs
<1>7. AskIsAt(r)' /\ AnswerIsRight(r)'
  BY <1>4, <1>5, <1>6 DEF AskIsAt, AnswerIsRight, Asks, Worker, Filters
<1> QED BY <1>4, <1>7 DEF AccessIInv

\* The list is read in one query.
LEMMA QueryKeeps ==
  ASSUME AccessIInv, NEW r \in ARequests, Query(r)
  PROVE  AccessIInv'
<1> DEFINE gs == {"owner", "lead", "assigned", "org"}
           read == Reading(r, gs)
           old == asks[r].read
           yes == IF Asks(r, {"available"}) THEN lead = NoAccount
                  ELSE \/ read \cap {"owner", "lead", "assigned"} # {}
                       \/ ~Restricted(read) /\ {"member", "org"} \subseteq read
<1>1. /\ apc[r] = "query" /\ AskIsSound(r) /\ AskIsAt(r) /\ asks[r].user \in Accounts
  BY DEF Query, AccessIInv, AskIsSound
<1>2. PICK at \in AskStands : ARead(r, gs, at) /\ at = AnswerIf(yes)
  BY DEF Query, AskStands, AnswerIf
<1>3. gs \subseteq AllGrounds
  BY DEF AllGrounds
<1> HIDE DEF gs
<1>4. /\ AccessTypeOK' /\ asks' \in [ARequests -> AskRecords]
      /\ apc'[r] = at
      /\ asks'[r].user = asks[r].user /\ asks'[r].question = asks[r].question
      /\ asks'[r].had = asks[r].had /\ asks'[r].held = asks[r].held
      /\ asks'[r].read = Reading(r, gs)
      /\ asks[r].held \cap gs \subseteq Reading(r, gs) /\ asks[r].read \subseteq Reading(r, gs)
      /\ AskIsSound(r)'
      /\ \A q \in ARequests \ {r} : AskIsSound(q)' /\ AskIsAt(q)' /\ AnswerIsRight(q)'
  BY <1>1, <1>2, <1>3, StatementReads
<1>5. /\ Asks(r, Filters)
      /\ Worker(r) /\ ~Asks(r, {"available"}) => HasRead(r, {"standard", "member"})
      /\ ~Worker(r) => asks[r].user \in AClients /\ ~Asks(r, {"available"})
  BY <1>1 DEF AskIsAt
<1>6. /\ \A qs : Asks(r, qs)' <=> Asks(r, qs)
      /\ read = asks'[r].read
      /\ old \subseteq read
      /\ \A g \in {"owner", "lead", "assigned", "org"} : g \notin read => g \notin asks[r].held
  BY <1>4 DEF Asks, gs
<1>7. /\ "owner" \in read => asks[r].user \in AClients
      /\ read \cap {"lead", "assigned", "standard"} # {} => asks[r].user \in AWorkers
  <2>1. apc'[r] # "idle" /\ asks'[r].user = asks[r].user /\ read \subseteq asks'[r].had
    BY <1>2, <1>4, <1>6 DEF AnswerIf, AskIsSound
  <2>2. /\ "owner" \in asks'[r].had => asks'[r].user \in AClients
        /\ asks'[r].had \cap {"lead", "assigned", "standard"} # {} => asks'[r].user \in AWorkers
    BY <1>4, <2>1 DEF AskIsSound, Worker
  <2> HIDE DEF read, yes
  <2> QED BY <2>1, <2>2
<1>8. asks'[r].question = "available" => ~Ruled(r)'
  BY DEF Ruled
<1> HIDE DEF read
<1>9. AskIsAt(r)'
  BY <1>2, <1>4 DEF AskIsAt, AnswerIf
<1>10. AnswerIsRight(r)'
  <2>1. CASE Asks(r, {"available"})
    BY <1>4, <1>8, <2>1 DEF AnswerIsRight, Asks
  <2>2. CASE ~Asks(r, {"available"}) /\ yes
    <3>1. Suffices(asks[r].user, read)
      BY <1>7, <2>2 DEF Suffices, Restricted
    <3>2. at = "granted"
      BY <1>2, <2>2 DEF AnswerIf
    <3> QED BY <1>4, <1>6, <3>1, <3>2, GrantIsRight DEF AnswerIsRight
  <2>3. CASE ~Asks(r, {"available"}) /\ ~yes
    <3>1. at = "refused"
      BY <1>2, <2>3 DEF AnswerIf
    <3>2. /\ asks[r].held \cap {"owner", "lead", "assigned"} = {}
          /\ "standard" \notin read \/ "member" \notin read \/ "org" \notin read
      BY <1>6, <2>3 DEF Restricted
    <3>3. ~Suffices(asks[r].user, asks[r].held)
      <4>1. CASE Worker(r)
        <5>1. "standard" \notin asks[r].held \/ "member" \notin asks[r].held \/ "org" \notin asks[r].held
          BY <1>5, <1>6, <2>3, <3>2, <4>1 DEF HasRead
        <5> QED BY <3>2, <4>1, <5>1, AccessAssumption DEF Suffices, Worker
      <4>2. CASE ~Worker(r)
        BY <1>5, <3>2, <4>2, AccessAssumption DEF Suffices, Worker
      <4> QED BY <4>1, <4>2
    <3> QED BY <1>4, <3>1, <3>3 DEF AnswerIsRight
  <2> QED BY <2>1, <2>2, <2>3
<1> QED BY <1>4, <1>9, <1>10 DEF AccessIInv

\* The answer is given.
LEMMA ToldKeeps ==
  ASSUME AccessIInv, NEW r \in ARequests, Told(r)
  PROVE  AccessIInv'
<1>1. /\ apc' = [apc EXCEPT ![r] = "idle"] /\ asks' = [asks EXCEPT ![r] = NoAsk]
      /\ hasOrg' = hasOrg /\ owner' = owner /\ lead' = lead /\ assigned' = assigned /\ tier' = tier
      /\ members' = members /\ closed' = closed
  BY DEF Told, accessWorld
<1>2. NoAsk \in AskRecords
  BY DEF NoAsk, AskRecords
<1>3. /\ asks' \in [ARequests -> AskRecords] /\ apc'[r] = "idle"
      /\ \A p \in ARequests \ {r} : asks'[p] = asks[p] /\ apc'[p] = apc[p]
  BY <1>1, <1>2 DEF AccessIInv, AccessTypeOK
<1>4. AccessTypeOK'
  <2>1. apc' \in [ARequests -> AskStands]
    BY <1>1 DEF AccessIInv, AccessTypeOK, AskStands
  <2>2. \A p \in ARequests : /\ asks'[p].user \in Accounts \cup {NoAccount}
                             /\ asks'[p].question \in Questions \cup {"none"}
    BY <1>3 DEF AskRecords
  <2> QED BY <1>1, <2>1, <2>2 DEF AccessIInv, AccessTypeOK, AskStands
<1>5. AskIsSound(r)' /\ AskIsAt(r)' /\ AnswerIsRight(r)'
  BY <1>3 DEF AskIsSound, AskIsAt, AnswerIsRight
<1>6. ASSUME NEW p \in ARequests \ {r}
      PROVE  AskIsSound(p)' /\ AskIsAt(p)' /\ AnswerIsRight(p)'
  <2>1. asks'[p] = asks[p] /\ apc'[p] = apc[p] /\ AskIsSound(p) /\ AskIsAt(p) /\ AnswerIsRight(p)
    BY <1>3 DEF AccessIInv
  <2>2. GroundsOf(p)' = GroundsOf(p)
    BY <1>1, <2>1 DEF GroundsOf
  <2>3. AskIsSound(p)'
    BY <2>1, <2>2 DEF AskIsSound, Worker
  <2> QED BY <2>1, <2>3 DEF AskIsAt, AnswerIsRight, HasRead, Asks, Worker, Admin, Ruled
<1> QED BY <1>3, <1>4, <1>5, <1>6 DEF AccessIInv

\* Nothing moves.
LEMMA AccessStuttersKeep == AccessIInv /\ UNCHANGED accessVars => AccessIInv'
BY DEF AccessIInv, AccessTypeOK, accessVars, accessWorld, AskIsSound, AskIsAt, AnswerIsRight, HasRead,
       Asks, Worker, Admin, Ruled, GroundsOf

\* Every step keeps the invariant.
LEMMA AccessStepKeeps == AccessIInv /\ [AccessNext]_accessVars => AccessIInv'
BY WorldMovesKeeps, AskKeeps, ReadProjectKeeps, ReadWorkerKeeps, ReadAssignmentKeeps, ReadMembershipKeeps,
   ReadOrgsKeeps, QueryKeeps, ToldKeeps, AccessStuttersKeep DEF AccessNext

\* What a request has read frames what was true while it was served, in every behaviour.
LEMMA AccessHold == AccessSpec => []AccessIInv
BY AccessInitial, AccessStepKeeps, PTL DEF AccessSpec

\* The invariant is more than the types and that the answers are right.
LEMMA AccessFollows == AccessIInv => AccessTypeOK /\ AnswersAreRight
BY DEF AccessIInv, AnswerIsRight, AnswersAreRight

-----------------------------------------------------------------------------
(***************************************************************************)
(* Device tokens: an account is pushed to nothing but the devices where it *)
(* is in use.  Between its two statements a request relies on what the     *)
(* first has done, which another request of the same account could undo:   *)
(* then the two have met, and the history says so.  RequestsRely is that   *)
(* reliance, and makes the invariant inductive.                            *)
(***************************************************************************)

\* What a request has read or been given while it stands between two statements.
RequestsOK ==
  /\ dloc \in [DRequests -> [u : DAccounts \cup {DNobody}, t : Tokens \cup {NoToken}]]
  /\ \A r \in DRequests :
       /\ dpc[r] # "idle" => dloc[r].u \in DAccounts
       /\ dpc[r] \in {"keep", "forget"} => dloc[r].t \in Tokens

\* The statement to come is right because of the one that was: the token is in use before
\* the account keeps it, and gone from the rows, or from the account, before the other goes.
RequestsRely ==
  \A r \in DRequests :
    LET u == dloc[r].u  t == dloc[r].t IN
    \/ dpc[r] = "idle" \/ u \in left
    \/ dpc[r] = "keep" /\ t \in inUse[u]
    \/ dpc[r] = "forget" /\ holder[t] # u
    \/ dpc[r] = "clear" /\ legacy[u] = NoToken

DeviceInv == DeviceTypeOK /\ RequestsOK /\ RequestsRely /\ LoggedOutIsSilent

\* No device is registered.
LEMMA DeviceStart == DeviceInit => DeviceInv
BY DevicesAssumption DEF DeviceInit, DeviceInv, DeviceTypeOK, RequestsOK, RequestsRely, NoDevice,
   LoggedOutIsSilent, PushTargets

\* A request goes to another await; what the others hold is not touched.
LEMMA DeviceGoes ==
  ASSUME DeviceInv, NEW r \in DRequests, NEW at \in {"idle", "keep", "forget", "clear"},
         NEW u \in DAccounts \cup {DNobody}, NEW t \in Tokens \cup {NoToken},
         DGo(r, at, [u |-> u, t |-> t]),
         at # "idle" => u \in DAccounts,
         at \in {"keep", "forget"} => t \in Tokens
  PROVE  /\ RequestsOK' /\ dpc' \in [DRequests -> {"idle", "keep", "forget", "clear"}]
         /\ dpc'[r] = at /\ dloc'[r] = [u |-> u, t |-> t]
         /\ \A q \in DRequests \ {r} : dpc'[q] = dpc[q] /\ dloc'[q] = dloc[q]
BY DEF DeviceInv, DeviceTypeOK, RequestsOK, DGo

\* A request ends; the others stay.
LEMMA DeviceEnds ==
  ASSUME DeviceInv, NEW r \in DRequests, DDone(r)
  PROVE  /\ RequestsOK' /\ dpc' \in [DRequests -> {"idle", "keep", "forget", "clear"}]
         /\ dpc'[r] = "idle"
         /\ \A q \in DRequests \ {r} : dpc'[q] = dpc[q] /\ dloc'[q] = dloc[q]
BY DeviceGoes DEF DDone, NoDevice

\* An account whose requests meet is in left from then on.
LEMMA MetIsLeft ==
  ASSUME DeviceInv, NEW r \in DRequests, NEW u \in DAccounts, Met(r, u)
  PROVE  /\ left' \subseteq DAccounts /\ left \subseteq left'
         /\ \A q \in DRequests \ {r} : dpc[q] # "idle" /\ dloc[q].u = u => u \in left'
BY DEF DeviceInv, DeviceTypeOK, Met, Meets

\* A token's row goes to the account that registers it, and is in use there.
LEMMA RegisterKeeps ==
  ASSUME DeviceInv, NEW r \in DRequests, NEW u \in DAccounts, NEW t \in Tokens,
         RegisterDevice(r, u, t)
  PROVE  DeviceInv'
<1>1. /\ holder' = [holder EXCEPT ![t] = u] /\ legacy' = legacy
      /\ inUse' = [inUse EXCEPT ![u] = @ \cup {t}]
  BY DEF RegisterDevice
<1>2. /\ left' \subseteq DAccounts /\ left \subseteq left'
      /\ \A q \in DRequests \ {r} : dpc[q] # "idle" /\ dloc[q].u = u => u \in left'
  BY MetIsLeft DEF RegisterDevice
<1>3. \/ DGo(r, "keep", [u |-> u, t |-> t]) \/ DDone(r)
  BY DEF RegisterDevice
<1>4. /\ RequestsOK' /\ dpc' \in [DRequests -> {"idle", "keep", "forget", "clear"}]
      /\ \/ dpc'[r] = "idle"
         \/ dpc'[r] = "keep" /\ dloc'[r] = [u |-> u, t |-> t]
      /\ \A q \in DRequests \ {r} : dpc'[q] = dpc[q] /\ dloc'[q] = dloc[q]
  <2>1. CASE DGo(r, "keep", [u |-> u, t |-> t])
    BY <2>1, DeviceGoes
  <2>2. CASE DDone(r)
    BY <2>2, DeviceEnds
  <2> QED BY <1>3, <2>1, <2>2
<1>5. DeviceTypeOK'
  BY <1>1, <1>2, <1>4 DEF DeviceInv, DeviceTypeOK
<1>6. RequestsRely'
  <2>1. t \in inUse'[u]
    BY <1>1 DEF DeviceInv, DeviceTypeOK
  <2>2. ASSUME NEW q \in DRequests \ {r}, dpc[q] # "idle", dloc[q].u # u
        PROVE  /\ inUse'[dloc[q].u] = inUse[dloc[q].u]
               /\ dpc[q] = "forget" /\ holder[dloc[q].t] # dloc[q].u
                    => holder'[dloc[q].t] # dloc[q].u
    BY <1>1, <2>2 DEF DeviceInv, DeviceTypeOK, RequestsOK
  <2> QED BY <1>1, <1>2, <1>4, <2>1, <2>2 DEF DeviceInv, RequestsOK, RequestsRely
<1>7. LoggedOutIsSilent'
  BY <1>1, <1>2 DEF DeviceInv, DeviceTypeOK, LoggedOutIsSilent, PushTargets
<1> QED BY <1>4, <1>5, <1>6, <1>7 DEF DeviceInv

\* The account keeps the token that was registered.
LEMMA KeepTokenKeeps ==
  ASSUME DeviceInv, NEW r \in DRequests, KeepToken(r)
  PROVE  DeviceInv'
<1> DEFINE u == dloc[r].u  t == dloc[r].t
<1>1. u \in DAccounts /\ t \in Tokens /\ (u \in left \/ t \in inUse[u])
  BY DEF DeviceInv, RequestsOK, RequestsRely, KeepToken
<1>2. legacy' = [legacy EXCEPT ![u] = t] /\ holder' = holder /\ inUse' = inUse
  BY DEF KeepToken
<1>3. /\ left' \subseteq DAccounts /\ left \subseteq left'
      /\ \A q \in DRequests \ {r} : dpc[q] # "idle" /\ dloc[q].u = u => u \in left'
  BY <1>1, MetIsLeft DEF KeepToken
<1>4. /\ RequestsOK' /\ dpc' \in [DRequests -> {"idle", "keep", "forget", "clear"}]
      /\ dpc'[r] = "idle"
      /\ \A q \in DRequests \ {r} : dpc'[q] = dpc[q] /\ dloc'[q] = dloc[q]
  BY DeviceEnds DEF KeepToken
<1> HIDE DEF u, t
<1>5. DeviceTypeOK'
  BY <1>1, <1>2, <1>3, <1>4 DEF DeviceInv, DeviceTypeOK
<1>6. RequestsRely'
  BY <1>1, <1>2, <1>3, <1>4 DEF DeviceInv, DeviceTypeOK, RequestsOK, RequestsRely
<1>7. LoggedOutIsSilent'
  BY <1>1, <1>2, <1>3 DEF DeviceInv, DeviceTypeOK, LoggedOutIsSilent, PushTargets
<1> QED BY <1>4, <1>5, <1>6, <1>7 DEF DeviceInv

\* A token's row is removed.
LEMMA RemoveKeeps ==
  ASSUME DeviceInv, NEW r \in DRequests, NEW u \in DAccounts, NEW t \in Tokens,
         RemoveDevice(r, u, t)
  PROVE  DeviceInv'
<1>1. /\ holder' = IF holder[t] = u THEN [holder EXCEPT ![t] = DNobody] ELSE holder
      /\ legacy' = legacy /\ inUse' = inUse
  BY DEF RemoveDevice
<1>2. left' \subseteq DAccounts /\ left \subseteq left'
  BY MetIsLeft DEF RemoveDevice
<1>3. /\ RequestsOK' /\ dpc' \in [DRequests -> {"idle", "keep", "forget", "clear"}]
      /\ dpc'[r] = "forget" /\ dloc'[r] = [u |-> u, t |-> t]
      /\ \A q \in DRequests \ {r} : dpc'[q] = dpc[q] /\ dloc'[q] = dloc[q]
  BY DeviceGoes DEF RemoveDevice
<1>4. /\ holder' \in [Tokens -> DAccounts \cup {DNobody}] /\ holder'[t] # u
      /\ \A s \in Tokens : holder'[s] \in {holder[s], DNobody}
  BY <1>1, DevicesAssumption DEF DeviceInv, DeviceTypeOK
<1>5. DeviceTypeOK'
  BY <1>1, <1>2, <1>3, <1>4 DEF DeviceInv, DeviceTypeOK
<1>6. RequestsRely'
  BY <1>1, <1>2, <1>3, <1>4, DevicesAssumption DEF DeviceInv, RequestsOK, RequestsRely
<1>7. LoggedOutIsSilent'
  BY <1>1, <1>2, <1>4, DevicesAssumption DEF DeviceInv, LoggedOutIsSilent, PushTargets
<1> QED BY <1>3, <1>5, <1>6, <1>7 DEF DeviceInv

\* The account forgets the token that was removed.
LEMMA ForgetKeeps ==
  ASSUME DeviceInv, NEW r \in DRequests, ForgetToken(r)
  PROVE  DeviceInv'
<1> DEFINE u == dloc[r].u  t == dloc[r].t
<1>1. u \in DAccounts /\ t \in Tokens /\ (u \in left \/ holder[t] # u)
  BY DEF DeviceInv, RequestsOK, RequestsRely, ForgetToken
<1>2. /\ legacy' = IF legacy[u] = t THEN [legacy EXCEPT ![u] = NoToken] ELSE legacy
      /\ inUse' = [inUse EXCEPT ![u] = @ \ {t}] /\ holder' = holder
  BY DEF ForgetToken
<1>3. /\ left' \subseteq DAccounts /\ left \subseteq left'
      /\ \A q \in DRequests \ {r} : dpc[q] # "idle" /\ dloc[q].u = u => u \in left'
  BY <1>1, MetIsLeft DEF ForgetToken
<1>4. /\ RequestsOK' /\ dpc' \in [DRequests -> {"idle", "keep", "forget", "clear"}]
      /\ dpc'[r] = "idle"
      /\ \A q \in DRequests \ {r} : dpc'[q] = dpc[q] /\ dloc'[q] = dloc[q]
  BY DeviceEnds DEF ForgetToken
<1> HIDE DEF u, t
<1>5. /\ legacy' \in [DAccounts -> Tokens \cup {NoToken}] /\ legacy'[u] # t
      /\ \A v \in DAccounts : legacy'[v] \in {legacy[v], NoToken}
  BY <1>1, <1>2, DevicesAssumption DEF DeviceInv, DeviceTypeOK
<1>6. DeviceTypeOK'
  BY <1>1, <1>2, <1>3, <1>4, <1>5 DEF DeviceInv, DeviceTypeOK
<1>7. RequestsRely'
  BY <1>1, <1>2, <1>3, <1>4, <1>5 DEF DeviceInv, DeviceTypeOK, RequestsOK, RequestsRely
<1>8. LoggedOutIsSilent'
  <2> SUFFICES ASSUME NEW v \in DAccounts, v \notin left'
               PROVE  PushTargets(v)' \subseteq inUse'[v]
    BY DEF LoggedOutIsSilent
  <2>1. PushTargets(v)' \subseteq PushTargets(v)
    BY <1>2, <1>5 DEF PushTargets
  <2>2. PushTargets(v) \subseteq inUse[v]
    BY <1>3 DEF DeviceInv, LoggedOutIsSilent
  <2>3. CASE v = u
    <3>1. t \notin PushTargets(v)'
      BY <1>1, <1>2, <1>3, <1>5, <2>3 DEF PushTargets
    <3>2. inUse'[v] = inUse[v] \ {t}
      BY <1>2, <2>3 DEF DeviceInv, DeviceTypeOK
    <3> QED BY <2>1, <2>2, <3>1, <3>2
  <2>4. CASE v # u
    BY <1>2, <2>1, <2>2, <2>4 DEF DeviceInv, DeviceTypeOK
  <2> QED BY <2>3, <2>4
<1> QED BY <1>4, <1>6, <1>7, <1>8 DEF DeviceInv

\* The account forgets its token before the rows go.
LEMMA ClearTokenKeeps ==
  ASSUME DeviceInv, NEW r \in DRequests, NEW u \in DAccounts, ClearToken(r, u)
  PROVE  DeviceInv'
<1>1. legacy' = [legacy EXCEPT ![u] = NoToken] /\ holder' = holder /\ inUse' = inUse
  BY DEF ClearToken
<1>2. left' \subseteq DAccounts /\ left \subseteq left'
  BY MetIsLeft DEF ClearToken
<1>3. /\ RequestsOK' /\ dpc' \in [DRequests -> {"idle", "keep", "forget", "clear"}]
      /\ dpc'[r] = "clear" /\ dloc'[r] = [u |-> u, t |-> NoToken]
      /\ \A q \in DRequests \ {r} : dpc'[q] = dpc[q] /\ dloc'[q] = dloc[q]
  BY DeviceGoes DEF ClearToken
<1>4. DeviceTypeOK'
  BY <1>1, <1>2, <1>3 DEF DeviceInv, DeviceTypeOK
<1>5. RequestsRely'
  BY <1>1, <1>2, <1>3 DEF DeviceInv, DeviceTypeOK, RequestsOK, RequestsRely
<1>6. LoggedOutIsSilent'
  BY <1>1, <1>2 DEF DeviceInv, DeviceTypeOK, LoggedOutIsSilent, PushTargets
<1> QED BY <1>3, <1>4, <1>5, <1>6 DEF DeviceInv

\* The rows of the account go.
LEMMA ClearDevicesKeeps ==
  ASSUME DeviceInv, NEW r \in DRequests, ClearDevices(r)
  PROVE  DeviceInv'
<1> DEFINE u == dloc[r].u
<1>1. u \in DAccounts /\ (u \in left \/ legacy[u] = NoToken)
  BY DEF DeviceInv, RequestsOK, RequestsRely, ClearDevices
<1>2. /\ holder' = [t \in Tokens |-> IF holder[t] = u THEN DNobody ELSE holder[t]]
      /\ inUse' = [inUse EXCEPT ![u] = {}] /\ legacy' = legacy
  BY DEF ClearDevices
<1>3. /\ left' \subseteq DAccounts /\ left \subseteq left'
      /\ \A q \in DRequests \ {r} : dpc[q] # "idle" /\ dloc[q].u = u => u \in left'
  BY <1>1, MetIsLeft DEF ClearDevices
<1>4. /\ RequestsOK' /\ dpc' \in [DRequests -> {"idle", "keep", "forget", "clear"}]
      /\ dpc'[r] = "idle"
      /\ \A q \in DRequests \ {r} : dpc'[q] = dpc[q] /\ dloc'[q] = dloc[q]
  BY DeviceEnds DEF ClearDevices
<1> HIDE DEF u
<1>5. /\ holder' \in [Tokens -> DAccounts \cup {DNobody}]
      /\ \A s \in Tokens : holder'[s] # u /\ holder'[s] \in {holder[s], DNobody}
  BY <1>1, <1>2, DevicesAssumption DEF DeviceInv, DeviceTypeOK
<1>6. DeviceTypeOK'
  BY <1>1, <1>2, <1>3, <1>4, <1>5 DEF DeviceInv, DeviceTypeOK
<1>7. RequestsRely'
  BY <1>1, <1>2, <1>3, <1>4, <1>5, DevicesAssumption
  DEF DeviceInv, DeviceTypeOK, RequestsOK, RequestsRely
<1>8. LoggedOutIsSilent'
  BY <1>1, <1>2, <1>3, <1>5, DevicesAssumption
  DEF DeviceInv, DeviceTypeOK, LoggedOutIsSilent, PushTargets
<1> QED BY <1>4, <1>6, <1>7, <1>8 DEF DeviceInv

\* A request is cut between its statements, which is noted.
LEMMA DeviceFailKeeps ==
  ASSUME DeviceInv, NEW r \in DRequests, DFail(r)
  PROVE  DeviceInv'
<1>1. /\ left' = left \cup {dloc[r].u} /\ dloc[r].u \in DAccounts
      /\ holder' = holder /\ legacy' = legacy /\ inUse' = inUse
  BY DEF DFail, DeviceInv, RequestsOK
<1>2. /\ RequestsOK' /\ dpc' \in [DRequests -> {"idle", "keep", "forget", "clear"}]
      /\ dpc'[r] = "idle"
      /\ \A q \in DRequests \ {r} : dpc'[q] = dpc[q] /\ dloc'[q] = dloc[q]
  BY DeviceEnds DEF DFail
<1> QED BY <1>1, <1>2 DEF DeviceInv, DeviceTypeOK, RequestsRely, LoggedOutIsSilent, PushTargets

\* A push may drop tokens the service no longer knows.
LEMMA PushKeeps ==
  ASSUME DeviceInv, NEW u \in DAccounts, Push(u)
  PROVE  DeviceInv'
<1>1. /\ legacy' = legacy /\ inUse' = inUse /\ left' = left /\ dpc' = dpc /\ dloc' = dloc
      /\ holder' \in [Tokens -> DAccounts \cup {DNobody}]
      /\ \A s \in Tokens : holder'[s] \in {holder[s], DNobody}
  BY DEF Push, DeviceInv, DeviceTypeOK
<1>2. RequestsRely'
  BY <1>1, DevicesAssumption DEF DeviceInv, RequestsOK, RequestsRely
<1>3. LoggedOutIsSilent'
  BY <1>1, DevicesAssumption DEF DeviceInv, LoggedOutIsSilent, PushTargets
<1> QED BY <1>1, <1>2, <1>3 DEF DeviceInv, DeviceTypeOK, RequestsOK

\* Every step keeps the invariant.
LEMMA DeviceStep == DeviceInv /\ [DeviceNext]_deviceVars => DeviceInv'
<1> SUFFICES ASSUME DeviceInv, [DeviceNext]_deviceVars PROVE DeviceInv'
  OBVIOUS
<1>1. CASE UNCHANGED deviceVars
  BY <1>1 DEF deviceVars, DeviceInv, DeviceTypeOK, RequestsOK, RequestsRely, LoggedOutIsSilent,
     PushTargets
<1>2. ASSUME NEW r \in DRequests, NEW u \in DAccounts, NEW t \in Tokens,
             RegisterDevice(r, u, t) \/ RemoveDevice(r, u, t)
      PROVE  DeviceInv'
  BY <1>2, RegisterKeeps, RemoveKeeps
<1>3. ASSUME NEW r \in DRequests, NEW u \in DAccounts, ClearToken(r, u)
      PROVE  DeviceInv'
  BY <1>3, ClearTokenKeeps
<1>4. ASSUME NEW r \in DRequests,
             KeepToken(r) \/ ForgetToken(r) \/ ClearDevices(r) \/ DFail(r)
      PROVE  DeviceInv'
  BY <1>4, KeepTokenKeeps, ForgetKeeps, ClearDevicesKeeps, DeviceFailKeeps
<1>5. ASSUME NEW u \in DAccounts, Push(u)
      PROVE  DeviceInv'
  BY <1>5, PushKeeps
<1> QED BY <1>1, <1>2, <1>3, <1>4, <1>5 DEF DeviceNext

\* Whatever devices pass from account to account, an account is pushed to nothing but the
\* devices where it is in use, unless its own requests met or one was cut (registerDeviceToken,
\* removeDeviceToken and updateFcmToken of UsersService).
THEOREM LogoutSilences == DeviceSpec => []LoggedOutIsSilent
<1>1. DeviceInv => LoggedOutIsSilent
  BY DEF DeviceInv
<1> QED BY <1>1, DeviceStart, DeviceStep, PTL DEF DeviceSpec

-----------------------------------------------------------------------------
(***************************************************************************)
(* Ratings.  The average is read in one statement and written in another   *)
(* of the same transaction.  OpenHasRead says that it was made of          *)
(* committed rows and the own one, AloneHasReadAll that it was made of all *)
(* of them when no other transaction was open.                             *)
(***************************************************************************)

\* The ratings, and the averages of them, there may be.
RatingRows == [by : GRequests, n : Nat, p : GProjects]
Averages == [p : GProjects \cup {GNobody}, avg : SUBSET RatingRows]

\* An open transaction has a project; past its insert it has read its own row and rows that
\* are committed; the one that waits for its commit holds the lock.
OpenHasRead ==
  \A r \in GRequests :
    /\ gpc[r] # "idle" => gloc[r].p \in GProjects
    /\ gpc[r] \in {"update", "commit"} => gloc[r].avg \subseteq ratings \cup {RowOf(r)}
    /\ gpc[r] = "commit" <=> lock = r

\* Alone, it has read all of them, and nobody has rated its project.
AloneHasReadAll ==
  ~together =>
    /\ \A q, r \in GRequests : gpc[q] # "idle" /\ gpc[r] # "idle" => q = r
    /\ \A r \in GRequests :
         /\ gpc[r] # "idle" => \A row \in ratings : row.p # gloc[r].p
         /\ gpc[r] \in {"update", "commit"} => gloc[r].avg = ratings \cup {RowOf(r)}

\* The inductive invariant.
RatingIInv ==
  /\ RatingTypeOK
  /\ ratings \subseteq RatingRows /\ gloc \in [GRequests -> Averages]
  /\ OpenHasRead /\ AloneHasReadAll /\ RatingsAgree

\* Nobody is rated.
LEMMA RatingInitial == RatingInit => RatingIInv
<1> SUFFICES ASSUME RatingInit PROVE RatingIInv
  OBVIOUS
<1> USE RatingsAssumption DEF RatingInit
<1>1. IsFiniteSet(ratings)
  BY FS_EmptySet
<1>2. gloc \in [GRequests -> Averages]
  BY DEF NoRating, Averages
<1>3. RatingTypeOK
  BY <1>1, <1>2 DEF RatingTypeOK, Averages
<1> QED BY <1>2, <1>3 DEF RatingIInv, OpenHasRead, AloneHasReadAll, RatingsAgree

\* The row a transaction inserts is of its type, and is not changed by what others commit.
LEMMA RowType ==
  ASSUME RatingIInv, NEW r \in GRequests, gpc[r] # "idle"
  PROVE  RowOf(r) \in RatingRows /\ RowOf(r).by = r /\ RowOf(r).p = gloc[r].p
<1>1. IsFiniteSet({row \in ratings : row.by = r})
  BY FS_Subset DEF RatingIInv, RatingTypeOK
<1>2. Cardinality({row \in ratings : row.by = r}) \in Nat
  BY <1>1, FS_CardinalityType
<1> QED BY <1>2 DEF RowOf, RatingRows, RatingIInv, OpenHasRead

\* A row that is not yet committed is as its transaction has written it.
LEMMA RowStays ==
  ASSUME NEW r \in GRequests, gloc'[r].p = gloc[r].p,
         {row \in ratings' : row.by = r} = {row \in ratings : row.by = r}
  PROVE  RowOf(r)' = RowOf(r)
BY DEF RowOf

\* A transaction goes to another await; the others stay.
LEMMA RatingGoes ==
  ASSUME RatingIInv, NEW r \in GRequests, NEW at \in {"idle", "insert", "update", "commit"},
         NEW l \in Averages, GGo(r, at, l)
  PROVE  /\ gpc' \in [GRequests -> {"idle", "insert", "update", "commit"}]
         /\ gloc' \in [GRequests -> Averages]
         /\ gpc'[r] = at /\ gloc'[r] = l
         /\ \A q \in GRequests \ {r} : gpc'[q] = gpc[q] /\ gloc'[q] = gloc[q]
BY DEF RatingIInv, RatingTypeOK, GGo

\* A transaction that begins, reads or takes the lock commits no row.
LEMMA RateCheckKeeps ==
  ASSUME RatingIInv, NEW r \in GRequests, NEW p \in GProjects, RateCheck(r, p)
  PROVE  RatingIInv'
<1>1. [NoRating EXCEPT !.p = p] \in Averages /\ [NoRating EXCEPT !.p = p].p = p
  BY DEF NoRating, Averages
<1> DEFINE l == [NoRating EXCEPT !.p = p]
<1>2. l \in Averages /\ l.p = p
  BY <1>1
<1>3. GGo(r, "insert", l) /\ ratings' = ratings /\ averaged' = averaged /\ lock' = lock
  BY DEF RateCheck
<1> HIDE DEF l
<1>4. /\ gpc' \in [GRequests -> {"idle", "insert", "update", "commit"}]
      /\ gloc' \in [GRequests -> Averages]
      /\ gpc'[r] = "insert" /\ gloc'[r].p = p
      /\ \A q \in GRequests \ {r} : gpc'[q] = gpc[q] /\ gloc'[q] = gloc[q]
  BY <1>2, <1>3, RatingGoes
<1>5. \A q \in GRequests \ {r} : RowOf(q)' = RowOf(q)
  BY <1>3, <1>4, RowStays
<1>6. RatingTypeOK'
  BY <1>3, <1>4 DEF RateCheck, RatingIInv, RatingTypeOK, Averages
<1>7. OpenHasRead'
  BY <1>3, <1>4, <1>5 DEF RateCheck, RatingIInv, OpenHasRead
<1>8. AloneHasReadAll' /\ RatingsAgree'
  BY <1>3, <1>4, <1>5 DEF RateCheck, RatingIInv, RatingTypeOK, AloneHasReadAll, RatingsAgree
<1> QED BY <1>3, <1>4, <1>6, <1>7, <1>8 DEF RatingIInv

\* A transaction reads the ratings that are committed, and its own.
LEMMA RateAverageKeeps ==
  ASSUME RatingIInv, NEW r \in GRequests, RateAverage(r)
  PROVE  RatingIInv'
<1> DEFINE l == [gloc[r] EXCEPT !.avg = ratings \cup {RowOf(r)}]
<1>1. l \in Averages /\ l.p = gloc[r].p /\ l.avg = ratings \cup {RowOf(r)}
  BY RowType DEF RateAverage, Averages, RatingIInv
<1>2. /\ GGo(r, "update", l) /\ ratings' = ratings /\ averaged' = averaged /\ lock' = lock
      /\ together' = together /\ gpc[r] = "insert"
  BY DEF RateAverage
<1> HIDE DEF l
<1>3. /\ gpc' \in [GRequests -> {"idle", "insert", "update", "commit"}]
      /\ gloc' \in [GRequests -> Averages]
      /\ gpc'[r] = "update" /\ gloc'[r] = l
      /\ \A q \in GRequests \ {r} : gpc'[q] = gpc[q] /\ gloc'[q] = gloc[q]
  BY <1>1, <1>2, RatingGoes
<1>4. \A q \in GRequests : RowOf(q)' = RowOf(q)
  BY <1>1, <1>2, <1>3, RowStays
<1>5. RatingTypeOK'
  BY <1>2, <1>3 DEF RatingIInv, RatingTypeOK, Averages
<1>6. OpenHasRead'
  BY <1>1, <1>2, <1>3, <1>4 DEF RatingIInv, OpenHasRead
<1>7. AloneHasReadAll'
  BY <1>1, <1>2, <1>3, <1>4 DEF RatingIInv, AloneHasReadAll
<1> QED BY <1>2, <1>3, <1>5, <1>6, <1>7 DEF RatingIInv, RatingsAgree

\* A transaction gets the lock of the worker's row; its average is what it has read.
LEMMA RateUpdateKeeps ==
  ASSUME RatingIInv, NEW r \in GRequests, RateUpdate(r)
  PROVE  RatingIInv'
<1>1. gloc[r] \in Averages
  BY DEF RatingIInv
<1>2. /\ GGo(r, "commit", gloc[r]) /\ ratings' = ratings /\ averaged' = averaged /\ lock' = r
      /\ together' = together /\ gpc[r] = "update" /\ lock = GNobody
  BY DEF RateUpdate
<1>3. /\ gpc' \in [GRequests -> {"idle", "insert", "update", "commit"}]
      /\ gloc' \in [GRequests -> Averages]
      /\ gpc'[r] = "commit" /\ gloc'[r] = gloc[r]
      /\ \A q \in GRequests \ {r} : gpc'[q] = gpc[q] /\ gloc'[q] = gloc[q]
  BY <1>1, <1>2, RatingGoes
<1>4. \A q \in GRequests : RowOf(q)' = RowOf(q)
  BY <1>2, <1>3, RowStays
<1>5. RatingTypeOK'
  BY <1>2, <1>3 DEF RatingIInv, RatingTypeOK, Averages
<1>6. OpenHasRead'
  BY <1>2, <1>3, <1>4, RatingsAssumption DEF RatingIInv, OpenHasRead
<1>7. AloneHasReadAll'
  BY <1>2, <1>3, <1>4 DEF RatingIInv, AloneHasReadAll
<1> QED BY <1>2, <1>3, <1>5, <1>6, <1>7 DEF RatingIInv, RatingsAgree

\* The commit makes the column the average that was read, the committed rows and the own.
LEMMA RateCommitKeeps ==
  ASSUME RatingIInv, NEW r \in GRequests, RateCommit(r)
  PROVE  RatingIInv'
<1>1. NoRating \in Averages
  BY DEF NoRating, Averages
<1>2. /\ GGo(r, "idle", NoRating) /\ gpc[r] = "commit" /\ together' = together
      /\ ratings' = ratings \cup {RowOf(r)} /\ averaged' = gloc[r].avg /\ lock' = GNobody
  BY DEF RateCommit, GDone
<1>3. /\ gpc' \in [GRequests -> {"idle", "insert", "update", "commit"}]
      /\ gloc' \in [GRequests -> Averages]
      /\ gpc'[r] = "idle"
      /\ \A q \in GRequests \ {r} : gpc'[q] = gpc[q] /\ gloc'[q] = gloc[q]
  BY <1>1, <1>2, RatingGoes
<1>4. RowOf(r) \in RatingRows /\ RowOf(r).by = r /\ RowOf(r).p = gloc[r].p
  BY <1>2, RowType
<1>5. \A q \in GRequests \ {r} : RowOf(q)' = RowOf(q)
  <2> TAKE q \in GRequests \ {r}
  <2>1. {row \in ratings' : row.by = q} = {row \in ratings : row.by = q}
    BY <1>2, <1>4
  <2> QED BY <1>3, <2>1, RowStays
<1>6. IsFiniteSet(ratings')
  BY <1>2, FS_AddElement DEF RatingIInv, RatingTypeOK
<1>7. ratings' \subseteq RatingRows
  BY <1>2, <1>4 DEF RatingIInv
<1>8. RatingTypeOK'
  BY <1>2, <1>3, <1>6, <1>7 DEF RatingIInv, RatingTypeOK, Averages, RatingRows
<1>9. OpenHasRead'
  BY <1>2, <1>3, <1>5, RatingsAssumption DEF RatingIInv, OpenHasRead
<1>10. AloneHasReadAll'
  BY <1>2, <1>3 DEF RatingIInv, AloneHasReadAll
<1>11. averaged' \subseteq ratings'
  BY <1>2 DEF RatingIInv, OpenHasRead
<1>12. ~together' => averaged' = ratings'
  BY <1>2 DEF RatingIInv, AloneHasReadAll
<1>13. ~together' => \A a, b \in ratings' : a.p = b.p => a = b
  BY <1>2, <1>4 DEF RatingIInv, AloneHasReadAll, RatingsAgree
<1> QED BY <1>3, <1>7, <1>8, <1>9, <1>10, <1>11, <1>12, <1>13 DEF RatingIInv, RatingsAgree

\* A transaction that fails takes back its row.
LEMMA RateFailsKeeps ==
  ASSUME RatingIInv, NEW r \in GRequests, RateFails(r)
  PROVE  RatingIInv'
<1>1. NoRating \in Averages
  BY DEF NoRating, Averages
<1>2. /\ GGo(r, "idle", NoRating) /\ together' = together
      /\ ratings' = ratings /\ averaged' = averaged
      /\ lock' = IF lock = r THEN GNobody ELSE lock
  BY DEF RateFails, GDone
<1>3. /\ gpc' \in [GRequests -> {"idle", "insert", "update", "commit"}]
      /\ gloc' \in [GRequests -> Averages]
      /\ gpc'[r] = "idle"
      /\ \A q \in GRequests \ {r} : gpc'[q] = gpc[q] /\ gloc'[q] = gloc[q]
  BY <1>1, <1>2, RatingGoes
<1>4. \A q \in GRequests \ {r} : RowOf(q)' = RowOf(q)
  BY <1>2, <1>3, RowStays
<1>5. RatingTypeOK'
  BY <1>2, <1>3 DEF RatingIInv, RatingTypeOK, Averages
<1>6. OpenHasRead'
  BY <1>2, <1>3, <1>4, RatingsAssumption DEF RatingIInv, OpenHasRead
<1>7. AloneHasReadAll'
  BY <1>2, <1>3, <1>4 DEF RatingIInv, AloneHasReadAll
<1> QED BY <1>2, <1>3, <1>5, <1>6, <1>7 DEF RatingIInv, RatingsAgree

\* Every step keeps the invariant.
LEMMA RatingStep == RatingIInv /\ [RatingNext]_ratingVars => RatingIInv'
<1> SUFFICES ASSUME RatingIInv, [RatingNext]_ratingVars PROVE RatingIInv'
  OBVIOUS
<1>1. ASSUME NEW r \in GRequests, rateWorker(r) PROVE RatingIInv'
  BY <1>1, RateCheckKeeps, RateAverageKeeps, RateUpdateKeeps, RateCommitKeeps, RateFailsKeeps
     DEF rateWorker
<1>2. CASE UNCHANGED ratingVars
  <2>1. \A q \in GRequests : RowOf(q)' = RowOf(q)
    BY <1>2, RowStays DEF ratingVars
  <2> QED BY <1>2, <2>1 DEF ratingVars, RatingIInv, RatingTypeOK, OpenHasRead, AloneHasReadAll, RatingsAgree
<1> QED BY <1>1, <1>2 DEF RatingNext

\* The invariant holds of every behaviour.
LEMMA RatingsHold == RatingSpec => []RatingIInv
BY RatingInitial, RatingStep, PTL DEF RatingSpec
=============================================================================
