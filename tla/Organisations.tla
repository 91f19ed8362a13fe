--------------------------- MODULE Organisations ---------------------------
(***************************************************************************)
(* The organisation of the admins.  CrewsService and CaptureService found  *)
(* it when an admin without a membership first writes, and make the role   *)
(* of a membership right; AuthService makes an admin a member of the first *)
(* organisation at every sign-in, if there is one.  They look first and    *)
(* write later, and nothing keeps a second organisation from being made.   *)
(***************************************************************************)
EXTENDS Naturals, FiniteSets

CONSTANTS ORequests,   \* requests served at once
          OAdmins,
          OrgIds,      \* bound: organisations, in the order of their making, 1..n
          NoAdmin

ASSUME OrganisationsAssumption == OrgIds \subseteq Nat \ {0} /\ NoAdmin \notin OAdmins

VARIABLES
  orgs,        \* organisations made
  member,      \* OrganizationMember by admin and organisation: "none", or its role
  wroteTo,     \* history: organisations in which crews and captured items were made
  atOnce,      \* history: two requests found no organisation and both made one
  opc, oloc    \* per request: the await it stands at, its admin and organisation

orgVars == <<orgs, member, wroteTo, atOnce, opc, oloc>>

NoOrg == [a |-> NoAdmin, o |-> 0]

OrgInit ==
  /\ orgs = {}
  /\ member = [a \in OAdmins |-> [o \in OrgIds |-> "none"]]
  /\ wroteTo = {}
  /\ atOnce = FALSE
  /\ opc = [r \in ORequests |-> "idle"]
  /\ oloc = [r \in ORequests |-> NoOrg]

OGo(r, at, l) == /\ opc'  = [opc  EXCEPT ![r] = at]
                 /\ oloc' = [oloc EXCEPT ![r] = l]
ODone(r) == OGo(r, "idle", NoOrg)

With(a, roles) == {o \in OrgIds : member[a][o] \in roles}
First == CHOOSE o \in orgs : \A p \in orgs : o <= p

-----------------------------------------------------------------------------
(* getAdminOrganizationIdForWrite.                                         *)

\* An admin of an organisation writes to it; a member in another role becomes an admin of
\* it; who has no membership joins the first organisation.
Look(r, a) ==
  /\ opc[r] = "idle"
  /\ \/ /\ With(a, {"admin"}) # {}
        /\ \E o \in With(a, {"admin"}) : wroteTo' = wroteTo \cup {o}
        /\ ODone(r)
     \/ /\ With(a, {"admin"}) = {}
        /\ \E o \in With(a, {"other"}) : OGo(r, "join", [a |-> a, o |-> o])
        /\ UNCHANGED wroteTo
     \/ /\ With(a, {"admin", "other"}) = {}
        /\ OGo(r, "first", [a |-> a, o |-> 0])
        /\ UNCHANGED wroteTo
  /\ UNCHANGED <<orgs, member, atOnce>>

CreateCrew(r, a)  == Look(r, a)
CaptureItem(r, a) == Look(r, a)

FindFirst(r) ==
  /\ opc[r] = "first"
  /\ IF orgs = {} THEN OGo(r, "found", oloc[r])
     ELSE OGo(r, "join", [oloc[r] EXCEPT !.o = First])
  /\ UNCHANGED <<orgs, member, wroteTo, atOnce>>

Found(r, o) ==
  /\ opc[r] = "found"
  /\ o \in OrgIds \ orgs /\ \A p \in OrgIds \ orgs : o <= p
  /\ orgs' = orgs \cup {o}
  /\ atOnce' = (atOnce \/ \E q \in ORequests \ {r} : opc[q] \in {"found", "founded"})
  /\ OGo(r, "founded", [oloc[r] EXCEPT !.o = o])
  /\ UNCHANGED <<member, wroteTo>>

\* The membership is made, or made an admin's, and the request writes.
Join(r) ==
  LET l == oloc[r] IN
  /\ opc[r] \in {"join", "founded"}
  /\ member' = [member EXCEPT ![l.a][l.o] = "admin"]
  /\ wroteTo' = wroteTo \cup {l.o}
  /\ ODone(r)
  /\ UNCHANGED <<orgs, atOnce>>

-----------------------------------------------------------------------------
(* ensureOrganizationMembership of AuthService.                            *)

SignIn(r, a) ==
  /\ opc[r] = "idle" /\ orgs # {}
  /\ OGo(r, "upsert", [a |-> a, o |-> First])
  /\ UNCHANGED <<orgs, member, wroteTo, atOnce>>

Upsert(r) ==
  LET l == oloc[r] IN
  /\ opc[r] = "upsert"
  /\ member' = [member EXCEPT ![l.a][l.o] = "admin"]
  /\ ODone(r)
  /\ UNCHANGED <<orgs, wroteTo, atOnce>>

\* An account that was something else when it was entered has become an admin's.
ByHand(a) ==
  /\ orgs # {} /\ With(a, {"admin", "other"}) = {}
  /\ member' = [member EXCEPT ![a][First] = "other"]
  /\ UNCHANGED <<orgs, wroteTo, atOnce, opc, oloc>>

\* A statement fails or the process dies.
OFail(r) ==
  /\ opc[r] # "idle"
  /\ ODone(r)
  /\ UNCHANGED <<orgs, member, wroteTo, atOnce>>

OrgNext ==
  \/ \E r \in ORequests :
       \/ \E a \in OAdmins : CreateCrew(r, a) \/ CaptureItem(r, a) \/ SignIn(r, a)
       \/ FindFirst(r) \/ Join(r) \/ Upsert(r) \/ OFail(r)
       \/ \E o \in OrgIds : Found(r, o)
  \/ \E a \in OAdmins : ByHand(a)

OrgSpec == OrgInit /\ [][OrgNext]_orgVars

-----------------------------------------------------------------------------
(* Properties.                                                             *)

OrgTypeOK ==
  /\ orgs \subseteq OrgIds /\ wroteTo \subseteq OrgIds
  /\ member \in [OAdmins -> [OrgIds -> {"none", "other", "admin"}]]
  /\ atOnce \in BOOLEAN
  /\ opc \in [ORequests -> {"idle", "first", "found", "founded", "join", "upsert"}]
  /\ oloc \in [ORequests -> [a : OAdmins \cup {NoAdmin}, o : OrgIds \cup {0}]]

\* All admins work in one organisation, however their first writes and sign-ins interleave
\* and fail, unless two of them founded one each; and nobody writes to an organisation that
\* was not made.
OneOrganisation ==
  /\ wroteTo \subseteq orgs
  /\ atOnce \/ Cardinality(orgs) <= 1
=============================================================================
