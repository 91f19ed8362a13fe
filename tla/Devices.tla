------------------------------ MODULE Devices ------------------------------
(***************************************************************************)
(* Where the pushes of an account go.  An app registers the token of its   *)
(* device: the row DeviceToken names the account that did so last, and the *)
(* account keeps a token of its own from before that table existed, which  *)
(* is pushed to as well.  UsersService writes the two in two statements;   *)
(* devices pass from one account to another.                               *)
(***************************************************************************)
EXTENDS FiniteSets

CONSTANTS DRequests,    \* requests served at once
          DAccounts,
          Tokens,
          NoToken,
          DNobody

ASSUME DevicesAssumption == NoToken \notin Tokens /\ DNobody \notin DAccounts

VARIABLES
  holder,      \* DeviceToken: the account of a token, or DNobody
  legacy,      \* User.fcmToken
  inUse,       \* history: tokens by account that the account has registered and not removed
  left,        \* history: removals that were cut or met another request of their account
  dpc, dloc    \* per request: the await it stands at, its account and token

deviceVars == <<holder, legacy, inUse, left, dpc, dloc>>

NoDevice == [u |-> DNobody, t |-> NoToken]

DeviceInit ==
  /\ holder = [t \in Tokens |-> DNobody]
  /\ legacy = [u \in DAccounts |-> NoToken]
  /\ inUse = [u \in DAccounts |-> {}]
  /\ left = {}
  /\ dpc = [r \in DRequests |-> "idle"]
  /\ dloc = [r \in DRequests |-> NoDevice]

DGo(r, at, l) == /\ dpc'  = [dpc  EXCEPT ![r] = at]
                 /\ dloc' = [dloc EXCEPT ![r] = l]
DDone(r) == DGo(r, "idle", NoDevice)

\* Another request of the account is under way.
Meets(r, u) == \E q \in DRequests \ {r} : dpc[q] # "idle" /\ dloc[q].u = u

\* What is promised of an account ends when its requests meet.
Met(r, u) == left' = IF Meets(r, u) THEN left \cup {u} ELSE left

-----------------------------------------------------------------------------
(* registerDeviceToken and the old updateFcmToken with a token.            *)

RegisterDevice(r, u, t) ==
  /\ dpc[r] = "idle"
  /\ holder' = [holder EXCEPT ![t] = u]
  /\ inUse' = [inUse EXCEPT ![u] = @ \cup {t}]
  /\ \E mobile \in BOOLEAN :            \* a browser keeps no token at the account
       IF mobile THEN DGo(r, "keep", [u |-> u, t |-> t]) ELSE DDone(r)
  /\ Met(r, u)
  /\ UNCHANGED legacy

KeepToken(r) ==
  /\ dpc[r] = "keep"
  /\ legacy' = [legacy EXCEPT ![dloc[r].u] = dloc[r].t]
  /\ DDone(r)
  /\ Met(r, dloc[r].u)
  /\ UNCHANGED <<holder, inUse>>

-----------------------------------------------------------------------------
(* removeDeviceToken.                                                      *)

RemoveDevice(r, u, t) ==
  /\ dpc[r] = "idle"
  /\ holder' = IF holder[t] = u THEN [holder EXCEPT ![t] = DNobody] ELSE holder
  /\ DGo(r, "forget", [u |-> u, t |-> t])
  /\ Met(r, u)
  /\ UNCHANGED <<legacy, inUse>>

\* Mutation: only the row is removed.
ForgetNothing(r) ==
  /\ dpc[r] = "forget"
  /\ inUse' = [inUse EXCEPT ![dloc[r].u] = @ \ {dloc[r].t}]
  /\ DDone(r)
  /\ Met(r, dloc[r].u)
  /\ UNCHANGED <<holder, legacy>>

ForgetToken(r) ==
  LET u == dloc[r].u  t == dloc[r].t IN
  /\ dpc[r] = "forget"
  /\ legacy' = IF legacy[u] = t THEN [legacy EXCEPT ![u] = NoToken] ELSE legacy
  /\ inUse' = [inUse EXCEPT ![u] = @ \ {t}]
  /\ DDone(r)
  /\ Met(r, u)
  /\ UNCHANGED holder

\* updateFcmToken without a token: the account's own token, then all of its rows.
ClearToken(r, u) ==
  /\ dpc[r] = "idle"
  /\ legacy' = [legacy EXCEPT ![u] = NoToken]
  /\ DGo(r, "clear", [u |-> u, t |-> NoToken])
  /\ Met(r, u)
  /\ UNCHANGED <<holder, inUse>>

ClearDevices(r) ==
  LET u == dloc[r].u IN
  /\ dpc[r] = "clear"
  /\ holder' = [t \in Tokens |-> IF holder[t] = u THEN DNobody ELSE holder[t]]
  /\ inUse' = [inUse EXCEPT ![u] = {}]
  /\ DDone(r)
  /\ Met(r, u)
  /\ UNCHANGED legacy

\* A statement fails or the process dies; an app repeats what it had no answer to or not.
DFail(r) ==
  /\ dpc[r] # "idle"
  /\ left' = left \cup {dloc[r].u}
  /\ DDone(r)
  /\ UNCHANGED <<holder, legacy, inUse>>

-----------------------------------------------------------------------------
(* A push.                                                                 *)

PushTargets(u) == {t \in Tokens : holder[t] = u} \cup ({legacy[u]} \ {NoToken})

\* Firebase knows some of the tokens no longer: their rows go, the accounts' own tokens stay.
Push(u) ==
  /\ \E dead \in SUBSET PushTargets(u) :
       holder' = [t \in Tokens |-> IF t \in dead THEN DNobody ELSE holder[t]]
  /\ UNCHANGED <<legacy, inUse, left, dpc, dloc>>

DeviceNext ==
  \/ \E r \in DRequests :
       \/ \E u \in DAccounts : \/ ClearToken(r, u)
                               \/ \E t \in Tokens : RegisterDevice(r, u, t) \/ RemoveDevice(r, u, t)
       \/ KeepToken(r) \/ ForgetToken(r) \/ ClearDevices(r) \/ DFail(r)
  \/ \E u \in DAccounts : Push(u)

DeviceSpec == DeviceInit /\ [][DeviceNext]_deviceVars

-----------------------------------------------------------------------------
(* Properties.                                                             *)

DeviceTypeOK ==
  /\ holder \in [Tokens -> DAccounts \cup {DNobody}]
  /\ legacy \in [DAccounts -> Tokens \cup {NoToken}]
  /\ inUse \in [DAccounts -> SUBSET Tokens]
  /\ left \subseteq DAccounts
  /\ dpc \in [DRequests -> {"idle", "keep", "forget", "clear"}]

\* An account is pushed to nothing but the devices where it is in use: once it has logged out
\* of one, whatever other accounts register there, no notification of it arrives there any
\* more, unless one of its requests met another or was cut between its two statements.
LoggedOutIsSilent == \A u \in DAccounts : u \in left \/ PushTargets(u) \subseteq inUse[u]
=============================================================================
