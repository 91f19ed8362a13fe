------------------------------ MODULE Accounts ------------------------------
(***************************************************************************)
(* Accounts and whose project it is.  A person has an account at Supabase  *)
(* and, by their email, a row here; an admin may have made the row first,  *)
(* as a stub, to register a project for a client who has none.  Signing in *)
(* links the stub; an invitation gives its project to whoever redeems it.  *)
(* AuthService, AdminService and InvitesService check first and write      *)
(* later.  The model follows one project and its invitations.              *)
(***************************************************************************)
EXTENDS Naturals, FiniteSets

CONSTANTS URequests,     \* requests served at once
          Emails,        \* of accounts: as typed by an admin, who may use capitals or a placeholder
          Addresses,     \* those of them that one can sign in with: lower case
          Invites,       \* bound: invitations made for the project
          NoEmail,
          NoInvite

ASSUME AccountsAssumption ==
  NoEmail \notin Emails /\ NoInvite \notin Invites /\ Addresses \subseteq Emails

UserRoles == {"client", "worker", "inspector", "admin"}

VARIABLES
  account,     \* User by email: "none", a "stub", "real", or "lost" when its account at Supabase
               \* is gone; with its role and worker profile
  login,       \* emails with an account at Supabase
  byAdmin,     \* history: emails whose account at Supabase the admin service made
  ownedBy,     \* Project.clientId, or NoEmail before the project is registered
  invite,      \* ProjectInvite: "none", "open", "used", "revoked" or deleted ("gone"), and its client
  taken,       \* history: the project was taken from the account of a person
  demoted,     \* history: a sync made a client or the project's owner a worker, or an admin less
  doubts,      \* history: "raced" checks of invitations and accounts, requests that were "cut", a
               \* project "given" to another while an invitation to it was open
  upc, uloc    \* per request: the await it stands at and what it read

accountVars ==
  <<account, login, byAdmin, ownedBy, invite, taken, demoted, doubts, upc, uloc>>

NoUser == [is |-> "none", role |-> "client", profile |-> FALSE]
NoWork == [e |-> NoEmail, role |-> "client", was |-> "client", i |-> NoInvite, of |-> NoEmail,
           is |-> FALSE]     \* is: the account owned the project, or the invited was a stub

AccountInit ==
  /\ account = [e \in Emails |-> NoUser]
  /\ login = {} /\ byAdmin = {}
  /\ ownedBy = NoEmail
  /\ invite = [i \in Invites |-> [is |-> "none", of |-> NoEmail]]
  /\ taken = FALSE /\ demoted = FALSE /\ doubts = {}
  /\ upc = [r \in URequests |-> "idle"]
  /\ uloc = [r \in URequests |-> NoWork]

UGo(r, at, l) == /\ upc'  = [upc  EXCEPT ![r] = at]
                 /\ uloc' = [uloc EXCEPT ![r] = l]
UDone(r) == UGo(r, "idle", NoWork)

Exists(e) == account[e].is # "none"
PutAccount(e, is, role) == account' = [account EXCEPT ![e] = [@ EXCEPT !.is = is, !.role = role]]
Doubt(which, when) == doubts' = IF when THEN doubts \cup {which} ELSE doubts
At(e, steps) == \E r \in URequests : upc[r] \in steps /\ uloc[r].e = e

\* A row is written with the id its account at Supabase had, which may be gone by now.
Linked(e) == IF e \in login THEN "real" ELSE "lost"

\* bound: an email is not signed up anew while a request still goes by the account that is gone
Unclaimed(e) == e \in login \/ ~At(e, {"update", "create", "row", "unlogin"})

LoginGone(e) ==
  /\ login' = login \ {e} /\ byAdmin' = byAdmin \ {e}
  /\ account' = [account EXCEPT ![e].is = IF @ = "real" THEN "lost" ELSE @]

-----------------------------------------------------------------------------
(* AuthService.syncProfile.                                                *)

\* Any role may be asked for; resolveEffectiveRole leaves admins what they are, and makes
\* no client or owner a worker.
EffectiveRole(e, role) ==
  IF Exists(e) /\ account[e].role = "admin" THEN "admin"
  ELSE IF Exists(e) /\ role = "worker" /\ (account[e].role = "client" \/ ownedBy = e)
  THEN "client" ELSE role

\* A person signs up at Supabase.
SignUp(e) ==
  /\ e \in Addresses /\ Unclaimed(e)
  /\ login' = login \cup {e}
  /\ UNCHANGED <<account, byAdmin, ownedBy, invite, taken, demoted, doubts, upc, uloc>>

\* The row by authId, or a stub by email; one whose own account at Supabase is gone is
\* taken for somebody else's.
SyncRead(r, e, role) ==
  /\ upc[r] = "idle" /\ e \in login
  /\ account[e].is # "lost"
  /\ UGo(r, IF Exists(e) THEN "update" ELSE "create",
         [NoWork EXCEPT !.e = e, !.role = EffectiveRole(e, role), !.was = account[e].role,
                        !.is = ownedBy = e])
  /\ UNCHANGED <<account, login, byAdmin, ownedBy, invite, taken, demoted, doubts>>

\* The role the update sets was decided when the row and its projects were read.
SyncUpdate(r) ==
  LET l == uloc[r] IN
  /\ upc[r] = "update" /\ Exists(l.e)
  /\ PutAccount(l.e, Linked(l.e), l.role)
  /\ demoted' = \/ demoted
                \/ l.role = "worker" /\ (account[l.e].role = "client" \/ ownedBy = l.e)
                \/ l.role # "admin" /\ account[l.e].role = "admin"
  /\ Doubt("raced", (ownedBy = l.e) # l.is \/ account[l.e].role # l.was)
  /\ UGo(r, "profile", l)
  /\ UNCHANGED <<login, byAdmin, ownedBy, invite, taken>>

SyncCreate(r) ==
  LET l == uloc[r] IN
  /\ upc[r] = "create" /\ ~Exists(l.e)       \* the email is unique: the second create fails
  /\ PutAccount(l.e, Linked(l.e), l.role)
  /\ UGo(r, "profile", l)
  /\ UNCHANGED <<login, byAdmin, ownedBy, invite, taken, demoted, doubts>>

\* A worker gets a profile; the next sync makes up for one that failed.
SyncProfile(r) ==
  LET l == uloc[r] IN
  /\ upc[r] = "profile" /\ Exists(l.e)
  /\ account' = [account EXCEPT ![l.e].profile = @ \/ l.role = "worker"]
  /\ UDone(r)
  /\ UNCHANGED <<login, byAdmin, ownedBy, invite, taken, demoted, doubts>>

-----------------------------------------------------------------------------
(* AdminService and ProjectsService.                                       *)

\* lookupOrCreateClient makes a stub for an email, as it was typed, that has no row.
MakeStub(e) ==
  /\ ~Exists(e)
  /\ PutAccount(e, "stub", "client")
  /\ UNCHANGED <<login, byAdmin, ownedBy, invite, taken, demoted, doubts, upc, uloc>>

\* The project is registered for any account there is.
RegisterProject(e) ==
  /\ ownedBy = NoEmail /\ Exists(e)
  /\ ownedBy' = e
  /\ UNCHANGED <<account, login, byAdmin, invite, taken, demoted, doubts, upc, uloc>>

\* ProjectsService.update: its client, or an admin, may give a project to any account.
GiveRead(r, e) ==
  /\ upc[r] = "idle" /\ ownedBy # NoEmail /\ Exists(e)
  /\ UGo(r, "give", [NoWork EXCEPT !.e = e, !.of = ownedBy])
  /\ UNCHANGED <<account, login, byAdmin, ownedBy, invite, taken, demoted, doubts>>

\* The project's invitations stay what they are.
GiveProject(r) ==
  LET l == uloc[r] IN
  /\ upc[r] = "give"
  /\ ownedBy' = l.e
  /\ taken' = (taken \/ (ownedBy \notin {l.of, l.e} /\ account[ownedBy].is = "real"))
  /\ doubts' = doubts \cup (IF ownedBy # l.of THEN {"raced"} ELSE {})
                     \cup (IF \E i \in Invites : invite[i].is = "open" /\ invite[i].of # l.e
                          THEN {"given"} ELSE {})
  /\ UDone(r)
  /\ UNCHANGED <<account, login, byAdmin, invite, demoted>>

\* createWorker and createInspector: no row with the email, then the account at Supabase,
\* which refuses an email it knows, then the row.
MakeLogin(r, e, role) ==
  /\ upc[r] = "idle" /\ e \in Addresses
  /\ ~Exists(e) /\ e \notin login /\ Unclaimed(e)
  /\ login' = login \cup {e} /\ byAdmin' = byAdmin \cup {e}
  /\ UGo(r, "row", [NoWork EXCEPT !.e = e, !.role = role])
  /\ UNCHANGED <<account, ownedBy, invite, taken, demoted, doubts>>

CreateWorker(r, e)    == MakeLogin(r, e, "worker")
CreateInspector(r, e) == MakeLogin(r, e, "inspector")

CreateRow(r) ==
  LET l == uloc[r] IN
  /\ upc[r] = "row" /\ ~Exists(l.e)
  /\ account' = [account EXCEPT ![l.e] =
                   [is |-> Linked(l.e), role |-> l.role, profile |-> l.role = "worker"]]
  /\ UDone(r)
  /\ UNCHANGED <<login, byAdmin, ownedBy, invite, taken, demoted, doubts>>

\* The row cannot be made: the account at Supabase is deleted again, or that fails as well.
Revert(r) ==
  /\ upc[r] = "row"
  /\ \/ LoginGone(uloc[r].e) /\ UNCHANGED doubts
     \/ UNCHANGED <<account, login, byAdmin>> /\ Doubt("cut", TRUE)
  /\ UDone(r)
  /\ UNCHANGED <<ownedBy, invite, taken, demoted>>

\* Only workers and inspectors are deleted, and no worker who is the client of a project.
DeleteCheck(r, e, role) ==
  /\ upc[r] = "idle" /\ Exists(e) /\ account[e].role = role
  /\ role = "worker" => account[e].profile /\ ownedBy # e
  /\ UGo(r, "delete", [NoWork EXCEPT !.e = e, !.role = role])
  /\ UNCHANGED <<account, login, byAdmin, ownedBy, invite, taken, demoted, doubts>>

DeleteWorker(r, e)    == DeleteCheck(r, e, "worker")
DeleteInspector(r, e) == DeleteCheck(r, e, "inspector")

\* Requests whose statements would name a row that is gone: each fails at its next one.
Holds(q, e) ==
  \/ upc[q] \in {"update", "profile", "give", "delete", "redeem"} /\ uloc[q].e = e
  \/ upc[q] \in {"invite", "redeem"} /\ uloc[q].of = e

\* The row goes, a worker's with the profile and the invitations; an inspector's is kept by
\* what still refers to it, and either by a project.
DeleteRow(r) ==
  LET l == uloc[r]
      theirs == {i \in Invites : invite[i].of = l.e}
  IN
  /\ upc[r] = "delete" /\ ownedBy # l.e
  /\ l.role = "inspector" => ~account[l.e].profile /\ theirs = {}
  /\ account' = [account EXCEPT ![l.e] = NoUser]
  /\ invite' = [i \in Invites |-> IF i \in theirs THEN [is |-> "gone", of |-> NoEmail] ELSE invite[i]]
  /\ upc' = [q \in URequests |->
               IF q = r THEN (IF account[l.e].is = "real" THEN "unlogin" ELSE "idle")
               ELSE IF Holds(q, l.e) THEN "idle" ELSE upc[q]]
  /\ uloc' = [q \in URequests |->
                IF q = r THEN (IF account[l.e].is = "real" THEN [NoWork EXCEPT !.e = l.e] ELSE NoWork)
                ELSE IF Holds(q, l.e) THEN NoWork ELSE uloc[q]]
  /\ UNCHANGED <<login, byAdmin, ownedBy, taken, demoted, doubts>>

\* Then the account at Supabase; a failure is only logged.
DeleteLogin(r) ==
  /\ upc[r] = "unlogin"
  /\ \/ LoginGone(uloc[r].e) /\ UNCHANGED doubts
     \/ UNCHANGED <<account, login, byAdmin>> /\ Doubt("cut", TRUE)
  /\ UDone(r)
  /\ UNCHANGED <<ownedBy, invite, taken, demoted>>

-----------------------------------------------------------------------------
(* InvitesService.                                                         *)

\* createForProject reads the client of the project and makes an invitation for them.
CreateInviteRead(r) ==
  /\ upc[r] = "idle" /\ ownedBy # NoEmail
  /\ UGo(r, "invite", [NoWork EXCEPT !.of = ownedBy])
  /\ UNCHANGED <<account, login, byAdmin, ownedBy, invite, taken, demoted, doubts>>

CreateInvite(r, i) ==
  /\ upc[r] = "invite" /\ invite[i].is = "none"
  /\ invite' = [invite EXCEPT ![i] = [is |-> "open", of |-> uloc[r].of]]
  /\ Doubt("raced", ownedBy # uloc[r].of)
  /\ UDone(r)
  /\ UNCHANGED <<account, login, byAdmin, ownedBy, taken, demoted>>

\* revoke also revokes an invitation that has been used.
Revoke(i) ==
  /\ invite[i].is \in {"open", "used"}
  /\ invite' = [invite EXCEPT ![i].is = "revoked"]
  /\ UNCHANGED <<account, login, byAdmin, ownedBy, taken, demoted, doubts, upc, uloc>>

\* Mutation: an invitation is redeemed whoever it was made for.
RedeemAnyones(r, e, i) ==
  /\ upc[r] = "idle" /\ account[e].is = "real" /\ account[e].role = "client"
  /\ invite[i].is = "open"
  /\ UGo(r, "redeem", [NoWork EXCEPT !.e = e, !.i = i, !.of = invite[i].of,
                                     !.is = account[invite[i].of].is = "stub"])
  /\ UNCHANGED <<account, login, byAdmin, ownedBy, invite, taken, demoted, doubts>>

\* redeem asks that the invitation is open and made for the client's email or for a stub.
RedeemCheck(r, e, i) ==
  /\ upc[r] = "idle" /\ account[e].is = "real" /\ account[e].role = "client"
  /\ invite[i].is = "open"
  /\ invite[i].of = e \/ account[invite[i].of].is = "stub"
  /\ UGo(r, "redeem", [NoWork EXCEPT !.e = e, !.i = i, !.of = invite[i].of,
                                     !.is = account[invite[i].of].is = "stub"])
  /\ UNCHANGED <<account, login, byAdmin, ownedBy, invite, taken, demoted, doubts>>

\* One transaction: the project and, if a stub had it, the end of the stub's other
\* invitations; then the invitation is used, whatever it has become since the check.
Redeem(r) ==
  LET l == uloc[r]
      closed(i) == IF l.of # l.e /\ l.is /\ invite[i].of = l.of /\ invite[i].is = "open"
                   THEN [invite[i] EXCEPT !.is = "revoked"] ELSE invite[i] IN
  /\ upc[r] = "redeem" /\ invite[l.i].is # "gone"
  /\ ownedBy' = IF l.of # l.e THEN l.e ELSE ownedBy
  /\ invite' = [[i \in Invites |-> closed(i)] EXCEPT ![l.i] =
                  [is |-> IF closed(l.i).is = "revoked" THEN "revoked" ELSE "used", of |-> l.e]]
  /\ taken' = (taken \/ (ownedBy' # ownedBy /\ account[ownedBy].is = "real"))
  /\ Doubt("raced", invite[l.i].is # "open" \/ (account[l.of].is = "stub") # l.is)
  /\ UDone(r)
  /\ UNCHANGED <<account, login, byAdmin, demoted>>

\* A statement fails or the process dies.
UFail(r) ==
  /\ upc[r] # "idle"
  /\ Doubt("cut", upc[r] \in {"profile", "row", "unlogin"})
  /\ UDone(r)
  /\ UNCHANGED <<account, login, byAdmin, ownedBy, invite, taken, demoted>>

AccountNext ==
  \/ \E r \in URequests :
       \/ \E e \in Emails :
            \/ \E role \in UserRoles : SyncRead(r, e, role)
            \/ CreateWorker(r, e) \/ CreateInspector(r, e)
            \/ DeleteWorker(r, e) \/ DeleteInspector(r, e) \/ GiveRead(r, e)
            \/ \E i \in Invites : RedeemCheck(r, e, i)
       \/ SyncUpdate(r) \/ SyncCreate(r) \/ SyncProfile(r)
       \/ CreateRow(r) \/ Revert(r) \/ DeleteRow(r) \/ DeleteLogin(r) \/ GiveProject(r)
       \/ CreateInviteRead(r) \/ \E i \in Invites : CreateInvite(r, i)
       \/ Redeem(r) \/ UFail(r)
  \/ \E e \in Emails : SignUp(e) \/ MakeStub(e) \/ RegisterProject(e)
  \/ \E i \in Invites : Revoke(i)

AccountSpec == AccountInit /\ [][AccountNext]_accountVars

-----------------------------------------------------------------------------
(* Properties.                                                             *)

AccountTypeOK ==
  /\ account \in [Emails -> [is : {"none", "stub", "real", "lost"}, role : UserRoles, profile : BOOLEAN]]
  /\ login \subseteq Addresses /\ byAdmin \subseteq login
  /\ ownedBy \in Emails \cup {NoEmail}
  /\ invite \in [Invites -> [is : {"none", "open", "used", "revoked", "gone"}, of : Emails \cup {NoEmail}]]
  /\ taken \in BOOLEAN /\ demoted \in BOOLEAN /\ doubts \subseteq {"raced", "cut", "given"}

\* No invitation takes a project from the account of a person, unless what it was made for
\* changed hands or state since; and no sync makes a client, or the owner of a project, a
\* worker or takes an admin's role, unless they became it after the sync had looked.
ClientKeepsProject ==
  /\ doubts \cap {"raced", "given"} = {} => ~taken
  /\ "raced" \notin doubts => ~demoted

\* A worker has a profile once the request that made them one is over, and no account that
\* the admin service made at Supabase stays without a row, unless a request was cut.
AccountIsWhole ==
  "cut" \notin doubts =>
    \A e \in Emails :
      /\ account[e].role = "worker" => account[e].profile \/ At(e, {"profile"})
      /\ e \in byAdmin => Exists(e) \/ At(e, {"row", "unlogin"})

AccountsAgree == ClientKeepsProject /\ AccountIsWhole
=============================================================================
