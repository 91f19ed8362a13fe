------------------------------- MODULE Twins -------------------------------
(***************************************************************************)
(* Rows that have a twin in another company's system: the company, contact *)
(* and deal HubSpot keeps of an organisation, a user and a project, the    *)
(* customer Stripe keeps of a client and the account it keeps of a worker. *)
(* The row holds the number of its twin.  HubspotService and StripeService *)
(* read the row, ask the other system and write the row in separate        *)
(* statements, and nothing keeps two jobs of one row apart: Bull runs the  *)
(* four kinds of job side by side, and a deal is synchronised once for     *)
(* project.created and once for project.status_changed.  One row of each   *)
(* kind is modelled.                                                       *)
(***************************************************************************)
EXTENDS Naturals, FiniteSets

CONSTANTS XRequests,    \* jobs and requests served at once
          MaxTwins      \* bound: twins the other system ever makes of a row

ASSUME TwinsAssumption == MaxTwins \in Nat \ {0}

Synced    == {"company", "contact", "deal"}
TwinKinds == Synced \cup {"customer", "account"}
None == 0

VARIABLES
  twinOf,       \* hubspotCompanyId, hubspotContactId, hubspotDealId, stripeCustomerId, stripeAccountId
  made,         \* twins of a row the other system has made: 1 .. made
  missing,      \* customers Stripe knows nothing of any more
  joined,       \* contacts associated with their company
  cards,        \* per customer: it has the client's card
  twinned,      \* history: kinds whose row may have a second twin, by what happened
  xpc, xloc     \* per request: the await it stands at, its row and what it remembers

twinVars == <<twinOf, made, missing, joined, cards, twinned, xpc, xloc>>

NoTwin == [k |-> "deal", id |-> None, use |-> "none"]

TwinInit ==
  /\ twinOf = [k \in TwinKinds |-> None]
  /\ made = [k \in TwinKinds |-> 0]
  /\ missing = {}
  /\ joined = {}
  /\ cards = {}
  /\ twinned = {}
  /\ xpc = [r \in XRequests |-> "idle"]
  /\ xloc = [r \in XRequests |-> NoTwin]

XGo(r, at, l) == /\ xpc'  = [xpc  EXCEPT ![r] = at]
                 /\ xloc' = [xloc EXCEPT ![r] = l]
XDone(r) == XGo(r, "idle", NoTwin)

\* Another request is about to make the row's first twin or to write its number.
Unsaved(k, r) == /\ twinOf[k] = None
                 /\ \E q \in XRequests \ {r} :
                      xloc[q].k = k /\ xpc[q] \in {"upsert", "create", "save"}

Read(r, k, use, at) ==
  /\ xpc[r] = "idle"
  /\ XGo(r, at, [k |-> k, id |-> twinOf[k], use |-> use])
  /\ twinned' = IF Unsaved(k, r) THEN twinned \cup {k} ELSE twinned
  /\ UNCHANGED <<twinOf, made, missing, joined, cards>>

Make(r) ==
  LET k == xloc[r].k  id == made[k] + 1 IN
  /\ id <= MaxTwins
  /\ made' = [made EXCEPT ![k] = id]
  /\ XGo(r, "save", [xloc[r] EXCEPT !.id = id])
  /\ UNCHANGED <<twinOf, missing, joined, cards, twinned>>

Save(r, k, next) ==
  /\ xpc[r] = "save" /\ xloc[r].k = k
  /\ twinOf' = [twinOf EXCEPT ![k] = xloc[r].id]
  /\ IF next = "idle" THEN XDone(r) ELSE XGo(r, next, xloc[r])
  /\ UNCHANGED <<made, missing, joined, cards, twinned>>

-----------------------------------------------------------------------------
(* HubspotProcessor and HubspotService: jobs of the queue hubspot-sync.    *)

handleSyncCompany(r) == Read(r, "company", "none", "upsert")
handleSyncDeal(r)    == Read(r, "deal", "none", "upsert")

\* The listener looks the company up when the user is created; the
\* administrator's sync-user names none.
handleSyncContact(r) ==
  \E use \in {"none"} \cup (IF twinOf["company"] = None THEN {} ELSE {"join"}) :
    Read(r, "contact", use, "upsert")

\* Mutation: the row's twin is not looked at.
UpsertTwinAnew(r, k) == xpc[r] = "upsert" /\ xloc[r].k = k /\ Make(r)

\* With a number the twin is updated; one deleted in HubSpot makes the update
\* fail, which is logged, and the row keeps its number.
UpsertTwin(r, k) ==
  /\ xpc[r] = "upsert" /\ xloc[r].k = k
  /\ \/ xloc[r].id # None /\ XGo(r, "log", xloc[r]) /\ UNCHANGED <<twinOf, made, missing, joined, cards, twinned>>
     \/ xloc[r].id = None /\ Make(r)

upsertCompany(r) == UpsertTwin(r, "company") \/ Save(r, "company", "log")
upsertDeal(r)    == UpsertTwin(r, "deal") \/ Save(r, "deal", "log")
upsertContact(r) == \/ UpsertTwin(r, "contact")
                    \/ Save(r, "contact", IF xloc[r].use = "join" THEN "join" ELSE "log")

JoinCompany(r) ==
  /\ xpc[r] = "join"
  /\ joined' = joined \cup {xloc[r].id}
  /\ XGo(r, "log", xloc[r])
  /\ UNCHANGED <<twinOf, made, missing, cards, twinned>>

\* The job ends with a line in hubspot_sync_logs, whatever became of it; when
\* that line cannot be written either Bull runs the job again, from its read.
LogSync(r) == xpc[r] = "log" /\ XDone(r) /\ UNCHANGED <<twinOf, made, missing, joined, cards, twinned>>

-----------------------------------------------------------------------------
(* StripeService and the payment methods of PaymentsService.               *)

\* pay: a checkout; setup: a card is added; detach: it is taken off.
getOrCreateCustomer(r, use) ==
  Read(r, "customer", use, IF twinOf["customer"] = None THEN "create" ELSE "retrieve")

\* A deleted customer is retrieved as well as a live one; only a number Stripe
\* does not know is cleared.
Retrieve(r) ==
  /\ xpc[r] = "retrieve"
  /\ XGo(r, IF xloc[r].id \in missing THEN "clear" ELSE "use", xloc[r])
  /\ UNCHANGED <<twinOf, made, missing, joined, cards, twinned>>

ClearCustomer(r) ==
  /\ xpc[r] = "clear"
  /\ twinOf' = [twinOf EXCEPT !["customer"] = None]
  /\ XGo(r, "create", xloc[r])
  /\ UNCHANGED <<made, missing, joined, cards, twinned>>

\* A customer made now is known to Stripe.
CreateTwin(r) == xpc[r] = "create" /\ Make(r)

SaveCustomer(r) == Save(r, "customer", "use")

\* The card goes to the customer the request found, and is taken off only if
\* that customer has it.
UseCustomer(r) ==
  LET id == xloc[r].id IN
  /\ xpc[r] = "use"
  /\ cards' = CASE xloc[r].use = "setup"  -> cards \cup {id}
                [] xloc[r].use = "detach" -> cards \ {id}
                [] OTHER                  -> cards
  /\ XDone(r)
  /\ UNCHANGED <<twinOf, made, missing, joined, twinned>>

\* createWorkerStripeAccount refuses a worker that has an account.
createWorkerAccount(r) ==
  /\ twinOf["account"] = None
  /\ Read(r, "account", "none", "create")

SaveAccount(r) == Save(r, "account", "idle")

-----------------------------------------------------------------------------
(* What the code does not decide.                                          *)

\* A statement or call throws or the process dies: what was made and not saved
\* is made again.
TwinFail(r) ==
  /\ xpc[r] # "idle"
  /\ twinned' = IF xpc[r] = "save" THEN twinned \cup {xloc[r].k} ELSE twinned
  /\ XDone(r)
  /\ UNCHANGED <<twinOf, made, missing, joined, cards>>

\* Stripe stops knowing its customers, as when the keys of another account are set.
Vanish ==
  /\ missing' = 1..made["customer"]
  /\ missing' # missing
  /\ twinned' = twinned \cup {"customer"}
  /\ UNCHANGED <<twinOf, made, joined, cards, xpc, xloc>>

TwinStep(r) ==
  \/ handleSyncCompany(r) \/ handleSyncDeal(r) \/ handleSyncContact(r)
  \/ upsertCompany(r) \/ upsertDeal(r) \/ upsertContact(r) \/ JoinCompany(r) \/ LogSync(r)
  \/ \E use \in {"pay", "setup", "detach"} : getOrCreateCustomer(r, use)
  \/ Retrieve(r) \/ ClearCustomer(r) \/ CreateTwin(r) \/ SaveCustomer(r) \/ UseCustomer(r)
  \/ createWorkerAccount(r) \/ SaveAccount(r)
  \/ TwinFail(r)

TwinNext == Vanish \/ \E r \in XRequests : TwinStep(r)

TwinSpec == TwinInit /\ [][TwinNext]_twinVars

-----------------------------------------------------------------------------
TwinAwaits == {"idle", "upsert", "create", "save", "join", "log", "retrieve", "clear", "use"}

TwinTypeOK ==
  /\ twinOf \in [TwinKinds -> 0..MaxTwins] /\ made \in [TwinKinds -> 0..MaxTwins]
  /\ missing \subseteq 1..MaxTwins /\ joined \subseteq 1..MaxTwins /\ cards \subseteq 1..MaxTwins
  /\ twinned \subseteq TwinKinds
  /\ xpc \in [XRequests -> TwinAwaits]
  /\ xloc \in [XRequests -> [k : TwinKinds, id : 0..MaxTwins,
                              use : {"none", "join", "pay", "setup", "detach"}]]

\* A row has one twin, and no row names a twin that is not its last, except a
\* row read by one request while another had yet to write it, one whose new
\* number was not saved, and a customer Stripe lost (the reads and creates of
\* HubspotService and StripeService).
OneTwin ==
  \A k \in TwinKinds \ twinned :
    /\ made[k] <= 1
    /\ (\A r \in XRequests : ~(xloc[r].k = k /\ xpc[r] = "save")) => twinOf[k] = made[k]

\* The card a client has added is on the customer the next checkout uses: no
\* sequence of checkouts, cards added and cards removed leaves it on another
\* (getOrCreateCustomer, createSetupIntent, detachPaymentMethod).
CardsAreFound == "customer" \in twinned \/ cards \subseteq {twinOf["customer"]}

\* A row that lost its number or met another request is the only one with a
\* choice of twins, and the client's card may then be on a customer that no
\* checkout shows.
TwinsAgree == OneTwin /\ CardsAreFound

=============================================================================
