---------------------- MODULE ProjectLifecycleProofs ----------------------
(***************************************************************************)
(* Proofs about ProjectLifecycle: every invariant and action property      *)
(* of the run Lifecycle.cfg, for any number of requests, workers, phases,  *)
(* contracts and intents.                                                  *)
(*                                                                         *)
(* The inductive invariant has three parts: the types, what holds of the   *)
(* rows (RowsOK), and what a request that stands at an await may rely on   *)
(* (RequestOK): facts about what the handler read before the await that no *)
(* other handler undoes, because every step keeps them (Keeps).            *)
(***************************************************************************)
EXTENDS ProjectLifecycle, WellFoundedInduction, TLAPS

Intent(i, c) == intents[i].state # "none" /\ intents[i].contract = c

HookAwaits == {"escrow.activate", "advance.read", "advance.lookup", "advance.pay",
               "advance.start", "advance.phase"}

ContractAwaits == HookAwaits \cup {"contract.sign", "escrow.create", "escrow.retrieve",
                                   "escrow.store"}

\* What holds of a request at the await `at` that has read l.
RequestOK(at, l) ==
  /\ l.hook # 0 => /\ at \in HookAwaits
                   /\ intents[l.hook].state = "succeeded"
                   /\ intents[l.hook].contract = l.cid
                   /\ at # "escrow.activate" => l.cid \in escrow \/ l.cid # contract.id
  /\ at \in ContractAwaits => l.cid \in 1..created
  /\ at \in {"escrow.retrieve", "escrow.store"} => l.intent \in IntentIds /\ Intent(l.intent, l.cid)
  /\ at = "escrow.activate" => Paid(l.cid)
  /\ at = "status.save" => /\ <<l.from, l.to>> \in LegalStatusSteps
                           /\ l.to \in {"active_escrow", "in_execution"} => forced
  /\ at = "contract.reassign" => removed # {} \/ l.cid \in escrow
  /\ at = "advance.lookup" => l.from = "contract_signed"
  /\ at = "advance.pay" => l.from = "contract_signed" /\ (removed # {} \/ l.cid \in escrow)
  /\ at = "advance.start" => /\ l.from = "active_escrow"
                             /\ forced \/ removed # {} \/ l.cid \in escrow
  /\ at = "close.save" => l.from \notin {"closing", "closed"}

\* What holds of the rows whatever the requests are doing.
RowsOK ==
  /\ contract.id <= created
  /\ \A p \in IntentIds : /\ intents[p].contract <= created
                          /\ intents[p].state # "none" => intents[p].contract # 0
                          /\ intents[p].acked => intents[p].state # "none"
  /\ contract.intent # 0 => Intent(contract.intent, contract.id)

Safety == /\ HeldMoneyKeepsContract
          /\ EscrowIsPaid
          /\ ExecutionIsFunded
          /\ AnsweredIsHeld

IInv == TypeOK /\ RowsOK /\ Safety /\ \A r \in Requests : RequestOK(pc[r], loc[r])

-----------------------------------------------------------------------------
\* What a step may do to the intents besides creating and settling one: it may
\* answer a webhook, when the money is held or its contract is gone.
IntentsKept ==
  /\ intents' \in [IntentIds -> IntentRow]
  /\ \A p \in IntentIds :
       /\ intents'[p].contract = intents[p].contract
       /\ intents'[p].state = intents[p].state
       /\ intents'[p].acked => \/ intents[p].acked
                               \/ /\ intents[p].state # "none"
                                  /\ \/ intents[p].contract \in escrow
                                     \/ intents[p].contract # contract.id

\* What no step undoes, so that a request may rely on it across an await.
Keeps ==
  /\ created <= created'
  /\ contract'.id = contract.id \/ contract'.id = 0 \/ contract'.id > created
  /\ forced => forced'
  /\ removed # {} => removed' # {}
  /\ \A c \in escrow : c \in escrow' \/ (removed' # {} /\ contract'.id = 0)
  /\ \A p \in IntentIds :
       intents[p].state # "none" =>
         /\ intents'[p].contract = intents[p].contract
         /\ intents'[p].state # "none"
         /\ intents[p].state = "succeeded" => intents'[p].state = "succeeded"

LEMMA NothingTyped == Nothing \in Memory /\ NoContract \in ContractRow /\ NoIntent \in IntentRow
  BY LifecycleAssumption DEF Nothing, Memory, NoContract, ContractRow, NoIntent, IntentRow,
     Statuses, PhaseStatuses

\* The walk of advanceProjectAfterEscrow finds a first pending phase when there is one.
LEMMA FirstPendingTyped == FirstPending \in 0..MaxPhases
<1> DEFINE Waiting == {ph \in PhaseIds : phases[ph] = "pending"}
           Less    == {pair \in Nat \X Nat : pair[1] < pair[2]}
<1>1. CASE Waiting = {}
  BY <1>1, LifecycleAssumption DEF FirstPending
<1>2. CASE Waiting # {}
  <2>1. Waiting \subseteq Nat
    BY DEF PhaseIds
  <2>2. IsWellFoundedOn(Less, Nat)
    BY NatLessThanWellFounded DEF OpToRel
  <2>3. \E x \in Waiting : \A y \in Waiting : x <= y
    <3>1. PICK x \in Waiting : \A y \in Waiting : <<y, x>> \notin Less
      <4> HIDE DEF Less, Waiting
      <4>1. QED
        BY <1>2, <2>1, <2>2, WFMin
    <3>2. ASSUME NEW y \in Waiting PROVE x <= y
      <4>1. x \in Nat /\ y \in Nat /\ <<y, x>> \notin Less
        BY <2>1, <3>1
      <4>2. ~ (y < x)
        <5>1. <<y, x>> \in Nat \X Nat /\ <<y, x>>[1] = y /\ <<y, x>>[2] = x
          BY <4>1
        <5>2. QED
          BY <4>1, <5>1
      <4>3. QED
        BY <4>1, <4>2
    <3>3. QED
      BY <3>2
  <2>4. \E ph \in PhaseIds : /\ phases[ph] = "pending"
                             /\ \A q \in PhaseIds : phases[q] = "pending" => ph <= q
    BY <2>3
  <2>5. QED
    BY <2>4 DEF FirstPending, PhaseIds
<1>3. QED
  BY <1>1, <1>2

\* A step of one request leaves what every other request relies on.
LEMMA OthersOK ==
  ASSUME IInv, TypeOK', Keeps, NEW r \in Requests,
         \A q \in Requests \ {r} : pc'[q] = pc[q] /\ loc'[q] = loc[q],
         RequestOK(pc[r], loc[r])'
  PROVE  \A q \in Requests : RequestOK(pc[q], loc[q])'
<1> SUFFICES ASSUME NEW q \in Requests, q # r PROVE RequestOK(pc[q], loc[q])'
  OBVIOUS
<1>0. PICK at \in Awaits, l \in Memory : at = pc[q] /\ l = loc[q]
  BY DEF IInv, TypeOK
<1>1. /\ RequestOK(at, l) /\ pc'[q] = at /\ loc'[q] = l
      /\ created \in Nat /\ created' \in Nat /\ escrow \subseteq Nat
  BY <1>0, LifecycleAssumption DEF IInv, TypeOK, ContractIds
<1>2. \A c \in 1..created : \/ c \in escrow => c \in escrow'
                             \/ contract'.id # c
  BY <1>1 DEF Keeps
<1>3. \A c \in 1..created : c # contract.id => c # contract'.id
  BY <1>1 DEF Keeps
<1>4. \A c : c \in escrow => c \in escrow' \/ removed' # {}
  BY DEF Keeps
<1>5. ASSUME NEW i \in IntentIds, NEW c, Intent(i, c) PROVE Intent(i, c)'
  BY <1>5 DEF Keeps, Intent
<1>6. ASSUME NEW c, Paid(c) PROVE Paid(c)'
  BY <1>6 DEF Keeps, Paid
<1>7. l.hook # 0 => /\ at \in HookAwaits
                    /\ intents'[l.hook].state = "succeeded"
                    /\ intents'[l.hook].contract = l.cid
                    /\ at # "escrow.activate" => l.cid \in escrow' \/ l.cid # contract'.id
  <2> SUFFICES ASSUME l.hook # 0
               PROVE  /\ at \in HookAwaits
                      /\ intents'[l.hook].state = "succeeded"
                      /\ intents'[l.hook].contract = l.cid
                      /\ at # "escrow.activate" => l.cid \in escrow' \/ l.cid # contract'.id
    OBVIOUS
  <2>1. l.hook \in IntentIds
    BY <1>1, LifecycleAssumption DEF Memory, IntentIds
  <2>2. /\ at \in HookAwaits
        /\ intents[l.hook].state = "succeeded" /\ intents[l.hook].contract = l.cid
        /\ at # "escrow.activate" => l.cid \in escrow \/ l.cid # contract.id
    BY <1>1 DEF RequestOK
  <2>3. l.cid \in 1..created
    BY <1>1, <2>2 DEF RequestOK, ContractAwaits
  <2>4. intents'[l.hook].state = "succeeded" /\ intents'[l.hook].contract = l.cid
    BY <2>1, <2>2 DEF Keeps
  <2>5. QED
    BY <1>2, <1>3, <2>2, <2>3, <2>4
<1>8. /\ at \in ContractAwaits => l.cid \in 1..created'
      /\ at \in {"escrow.retrieve", "escrow.store"}
           => l.intent \in IntentIds /\ Intent(l.intent, l.cid)'
      /\ at = "escrow.activate" => Paid(l.cid)'
  BY <1>1, <1>5, <1>6 DEF RequestOK, Keeps
<1>9. /\ at = "status.save" => /\ <<l.from, l.to>> \in LegalStatusSteps
                               /\ l.to \in {"active_escrow", "in_execution"} => forced'
      /\ at = "contract.reassign" => removed' # {} \/ l.cid \in escrow'
      /\ at = "advance.lookup" => l.from = "contract_signed"
      /\ at = "advance.pay" => l.from = "contract_signed" /\ (removed' # {} \/ l.cid \in escrow')
      /\ at = "advance.start" => /\ l.from = "active_escrow"
                                 /\ forced' \/ removed' # {} \/ l.cid \in escrow'
      /\ at = "close.save" => l.from \notin {"closing", "closed"}
  BY <1>1, <1>4 DEF RequestOK, Keeps
<1>10. QED
  BY <1>1, <1>7, <1>8, <1>9 DEF RequestOK, Intent, Paid

\* Where GoTo takes a request.
LEMMA Moved ==
  ASSUME IInv, NEW r \in Requests, NEW at \in Awaits, NEW l \in Memory, GoTo(r, at, l)
  PROVE  /\ pc' \in [Requests -> Awaits] /\ loc' \in [Requests -> Memory]
         /\ pc'[r] = at /\ loc'[r] = l
         /\ \A q \in Requests \ {r} : pc'[q] = pc[q] /\ loc'[q] = loc[q]
  BY DEF IInv, TypeOK, GoTo

\* The awaits at which a request that is no webhook relies on nothing.
PlainAwaits == {"idle", "contract.replace", "phase.save", "close.phases", "close.project"}

LEMMA PlainOK ==
  ASSUME IInv, NEW r \in Requests, pc'[r] \in PlainAwaits, loc'[r].hook = 0
  PROVE  RequestOK(pc[r], loc[r])'
  BY DEF RequestOK, PlainAwaits, ContractAwaits, HookAwaits

\* A webhook is answered only when the money is held or its contract is gone.
LEMMA Answered ==
  ASSUME IInv, NEW r \in Requests, Return(r), pc[r] # "escrow.activate"
  PROVE  IntentsKept
<1>1. CASE loc[r].hook = 0
  BY <1>1 DEF Return, IntentsKept, IInv, TypeOK
<1>2. CASE loc[r].hook # 0
  <2>1. loc[r].hook \in IntentIds
    BY <1>2, LifecycleAssumption DEF IInv, TypeOK, Memory, IntentIds
  <2>2. intents' = [intents EXCEPT ![loc[r].hook].acked = TRUE]
    BY <1>2 DEF Return
  <2>3. /\ intents[loc[r].hook].state # "none"
        /\ \/ intents[loc[r].hook].contract \in escrow
           \/ intents[loc[r].hook].contract # contract.id
    BY <1>2 DEF IInv, RequestOK
  <2>4. intents' \in [IntentIds -> IntentRow]
    BY <2>1, <2>2 DEF IInv, TypeOK, IntentRow
  <2>5. \A p \in IntentIds : /\ intents'[p].contract = intents[p].contract
                             /\ intents'[p].state = intents[p].state
                             /\ intents'[p].acked => intents[p].acked \/ p = loc[r].hook
    BY <2>1, <2>2 DEF IInv, TypeOK, IntentRow
  <2>6. QED
    BY <2>3, <2>4, <2>5 DEF IntentsKept
<1>3. QED
  BY <1>1, <1>2

LEMMA Continued ==
  ASSUME IInv, NEW r \in Requests, pc[r] # "escrow.activate",
         NEW at \in Awaits \cup {"end"}, NEW l \in Memory, Continue(r, at, l)
  PROVE  /\ IntentsKept
         /\ at = "end" => Return(r)
         /\ at # "end" => GoTo(r, at, l)
<1>1. CASE at = "end"
  BY <1>1, Answered DEF Continue
<1>2. CASE at # "end"
  BY <1>2 DEF Continue, IntentsKept, IInv, TypeOK
<1>3. QED
  BY <1>1, <1>2

\* A step that writes neither status, contract nor escrow.
LEMMA QuietRows ==
  ASSUME IInv, IntentsKept, UNCHANGED <<status, contract, created, escrow, removed>>,
         forced => forced'
  PROVE  RowsOK' /\ Safety' /\ Keeps
<1> USE DEF IInv
<1>1. RowsOK'
  BY DEF RowsOK, IntentsKept, Intent, TypeOK, ContractRow, IntentIds
<1>2. HeldMoneyKeepsContract' /\ ExecutionIsFunded'
  BY DEF Safety, HeldMoneyKeepsContract, ExecutionIsFunded
<1>3. EscrowIsPaid'
  BY DEF Safety, EscrowIsPaid, Paid, IntentsKept
<1>4. AnsweredIsHeld'
  BY DEF Safety, AnsweredIsHeld, IntentsKept
<1>5. Keeps
  BY DEF Keeps, IntentsKept, TypeOK
<1>6. QED
  BY <1>1, <1>2, <1>3, <1>4, <1>5 DEF Safety

LEMMA QuietStep ==
  ASSUME IInv, NEW r \in Requests, NEW at \in Awaits, NEW l \in Memory, GoTo(r, at, l),
         RequestOK(pc[r], loc[r])',
         UNCHANGED <<status, contract, created, escrow, removed>>, IntentsKept,
         phases' \in [PhaseIds -> PhaseStatuses \cup {"none"}],
         forced' \in BOOLEAN, forced => forced'
  PROVE  IInv'
<1>1. RowsOK' /\ Safety' /\ Keeps
  BY QuietRows
<1>2. TypeOK'
  BY Moved DEF IInv, TypeOK, IntentsKept
<1>3. \A q \in Requests : RequestOK(pc[q], loc[q])'
  BY <1>1, <1>2, Moved, OthersOK
<1>4. QED
  BY <1>1, <1>2, <1>3 DEF IInv

LEMMA QuietReturn ==
  ASSUME IInv, NEW r \in Requests, Return(r), pc[r] # "escrow.activate",
         UNCHANGED <<status, contract, created, escrow, removed, forced>>,
         phases' \in [PhaseIds -> PhaseStatuses \cup {"none"}]
  PROVE  IInv'
<1>1. "idle" \in Awaits /\ GoTo(r, "idle", Nothing) /\ Nothing.hook = 0
  BY DEF Awaits, Return, Nothing
<1>2. RequestOK(pc[r], loc[r])'
  BY <1>1, NothingTyped, Moved, PlainOK DEF PlainAwaits
<1>3. QED
  BY <1>1, <1>2, NothingTyped, Answered, QuietStep DEF IInv, TypeOK

LEMMA QuietContinue ==
  ASSUME IInv, NEW r \in Requests, pc[r] # "escrow.activate",
         NEW at \in Awaits \cup {"end"}, NEW l \in Memory, Continue(r, at, l),
         at # "end" /\ pc'[r] = at /\ loc'[r] = l => RequestOK(pc[r], loc[r])',
         UNCHANGED <<status, contract, created, escrow, removed, forced>>,
         phases' \in [PhaseIds -> PhaseStatuses \cup {"none"}]
  PROVE  IInv'
<1>1. CASE at = "end"
  BY <1>1, Continued, QuietReturn
<1>2. CASE at # "end"
  <2>1. at \in Awaits /\ GoTo(r, at, l) /\ IntentsKept
    BY <1>2, Continued
  <2>2. RequestOK(pc[r], loc[r])'
    BY <1>2, <2>1, Moved
  <2>3. QED
    BY <2>1, <2>2, QuietStep DEF IInv, TypeOK
<1>3. QED
  BY <1>1, <1>2

-----------------------------------------------------------------------------
(* Actions that start or move a request without touching status, contract  *)
(* or escrow.                                                              *)

LEMMA FailKeepsIInv ==
  ASSUME IInv, NEW r \in Requests, Fail(r)
  PROVE  IInv'
<1>1. "idle" \in Awaits /\ GoTo(r, "idle", Nothing) /\ Nothing.hook = 0 /\ IntentsKept
  BY DEF Awaits, Fail, Nothing, IntentsKept, IInv, TypeOK
<1>2. RequestOK(pc[r], loc[r])'
  BY <1>1, NothingTyped, Moved, PlainOK DEF PlainAwaits
<1>3. QED
  BY <1>1, <1>2, NothingTyped, QuietStep DEF Fail, IInv, TypeOK

LEMMA MachineStatuses ==
  \A t \in Machine : t[1] \in Statuses /\ t[3] \in Statuses /\ <<t[1], t[3]>> \in LegalStatusSteps
  BY DEF Machine, Statuses, LegalStatusSteps

LEMMA RequestStatusKeepsIInv ==
  ASSUME IInv, NEW r \in Requests, RequestStatus(r) \/ RequestManualAdvance(r)
  PROVE  IInv'
<1>1. CASE RequestStatus(r)
  <2>1. PICK t \in Machine :
          /\ t[1] = status
          /\ GoTo(r, "status.save", [Nothing EXCEPT !.from = t[1], !.to = t[3]])
          /\ forced' = (forced \/ t[2] \in {"PAY", "START"})
    BY <1>1 DEF RequestStatus
  <2> DEFINE l == [Nothing EXCEPT !.from = t[1], !.to = t[3]]
  <2>2. /\ l \in Memory /\ l.hook = 0 /\ l.from = t[1] /\ l.to = t[3] /\ "status.save" \in Awaits
    BY NothingTyped, MachineStatuses DEF Memory, Nothing, Awaits
  <2>3. t[3] \in {"active_escrow", "in_execution"} => t[2] \in {"PAY", "START"}
    BY DEF Machine
  <2>4. pc'[r] = "status.save" /\ loc'[r] = l
    BY <2>1, <2>2, Moved
  <2>5. RequestOK(pc[r], loc[r])'
    BY <2>1, <2>2, <2>3, <2>4, MachineStatuses DEF RequestOK, HookAwaits, ContractAwaits
  <2>6. forced' \in BOOLEAN /\ (forced => forced')
    BY <2>1
  <2>7. UNCHANGED <<status, phases, contract, created, escrow, intents, removed>>
    BY <1>1 DEF RequestStatus
  <2>8. QED
    BY <2>1, <2>2, <2>5, <2>6, <2>7, QuietStep DEF IntentsKept, IInv, TypeOK
<1>2. CASE RequestManualAdvance(r)
  <2>1. PICK t \in { <<"in_execution", "closing">>, <<"closing", "closed">> } :
          GoTo(r, "status.save", [Nothing EXCEPT !.from = t[1], !.to = t[2]])
    BY <1>2 DEF RequestManualAdvance
  <2> DEFINE l == [Nothing EXCEPT !.from = t[1], !.to = t[2]]
  <2>2. /\ l \in Memory /\ l.hook = 0 /\ l.from = t[1] /\ l.to = t[2] /\ "status.save" \in Awaits
    <3>1. t[1] \in Statuses /\ t[2] \in Statuses
      BY DEF Statuses
    <3>2. QED
      BY <3>1, NothingTyped DEF Memory, Nothing, Awaits
  <2>3. <<t[1], t[2]>> \in LegalStatusSteps /\ t[2] \notin {"active_escrow", "in_execution"}
    BY DEF LegalStatusSteps, Machine
  <2>4. pc'[r] = "status.save" /\ loc'[r] = l
    BY <2>1, <2>2, Moved
  <2>5. RequestOK(pc[r], loc[r])'
    BY <2>2, <2>3, <2>4 DEF RequestOK, HookAwaits, ContractAwaits
  <2>6. UNCHANGED <<status, phases, contract, created, escrow, intents, removed, forced>>
    BY <1>2 DEF RequestManualAdvance
  <2>7. QED
    BY <2>1, <2>2, <2>5, <2>6, QuietStep DEF IntentsKept, IInv, TypeOK
<1>3. QED
  BY <1>1, <1>2

LEMMA RequestContractKeepsIInv ==
  ASSUME IInv, NEW r \in Requests, NEW w \in Workers, RequestContract(r, w)
  PROVE  IInv'
<1> DEFINE l == [Nothing EXCEPT !.cid = contract.id, !.worker = w, !.from = status]
<1>1. /\ l \in Memory /\ l.hook = 0 /\ l.cid = contract.id
      /\ "contract.reassign" \in Awaits /\ "contract.replace" \in Awaits
  BY NothingTyped DEF IInv, TypeOK, ContractRow, Memory, Nothing, Awaits
<1>2. /\ UNCHANGED <<status, phases, contract, created, escrow, intents, removed, forced>>
      /\ \/ contract.id \in escrow /\ GoTo(r, "contract.reassign", l)
         \/ GoTo(r, "contract.replace", l)
  BY DEF RequestContract
<1> HIDE DEF l
<1>3. CASE contract.id \in escrow /\ GoTo(r, "contract.reassign", l)
  <2>1. pc'[r] = "contract.reassign" /\ loc'[r] = l
    BY <1>1, <1>3, Moved
  <2>2. RequestOK(pc[r], loc[r])'
    BY <1>1, <1>2, <1>3, <2>1 DEF RequestOK, HookAwaits, ContractAwaits
  <2>3. QED
    BY <1>1, <1>2, <1>3, <2>2, QuietStep DEF IntentsKept, IInv, TypeOK
<1>4. CASE GoTo(r, "contract.replace", l)
  <2>1. RequestOK(pc[r], loc[r])'
    BY <1>1, <1>4, Moved, PlainOK DEF PlainAwaits
  <2>2. QED
    BY <1>1, <1>2, <1>4, <2>1, QuietStep DEF IntentsKept, IInv, TypeOK
<1>5. QED
  BY <1>2, <1>3, <1>4

\* A request that has found the contract knows an id that has been given out.
LEMMA ContractFound ==
  ASSUME IInv, contract.id # 0
  PROVE  contract.id \in 1..created /\ contract.id \in 0..MaxContracts
  BY DEF IInv, TypeOK, RowsOK, ContractRow

LEMMA RequestSignKeepsIInv ==
  ASSUME IInv, NEW r \in Requests, NEW w \in Workers, RequestSign(r, w)
  PROVE  IInv'
<1> DEFINE l == [Nothing EXCEPT !.cid = contract.id, !.worker = w]
<1>1. l \in Memory /\ l.hook = 0 /\ l.cid = contract.id /\ "contract.sign" \in Awaits
  BY NothingTyped DEF IInv, TypeOK, ContractRow, Memory, Nothing, Awaits
<1>2. /\ UNCHANGED <<status, phases, contract, created, escrow, intents, removed, forced>>
      /\ GoTo(r, "contract.sign", l) /\ contract.id \in 1..created
  BY ContractFound DEF RequestSign
<1> HIDE DEF l
<1>3. pc'[r] = "contract.sign" /\ loc'[r] = l
  BY <1>1, <1>2, Moved
<1>4. RequestOK(pc[r], loc[r])'
  BY <1>1, <1>2, <1>3 DEF RequestOK, HookAwaits, ContractAwaits
<1>5. QED
  BY <1>1, <1>2, <1>4, QuietStep DEF IntentsKept, IInv, TypeOK

LEMMA RequestEscrowKeepsIInv ==
  ASSUME IInv, NEW r \in Requests, RequestEscrow(r)
  PROVE  IInv'
<1> DEFINE l  == [Nothing EXCEPT !.cid = contract.id, !.intent = contract.intent]
           at == IF contract.intent = 0 THEN "escrow.create" ELSE "escrow.retrieve"
<1>1. /\ l \in Memory /\ l.hook = 0 /\ l.cid = contract.id /\ l.intent = contract.intent
      /\ at \in Awaits
  BY NothingTyped DEF IInv, TypeOK, ContractRow, Memory, Nothing, Awaits
<1>2. /\ UNCHANGED <<status, phases, contract, created, escrow, intents, removed, forced>>
      /\ GoTo(r, at, l) /\ contract.id \in 1..created
  BY ContractFound DEF RequestEscrow
<1>3. at = "escrow.create" \/ (at = "escrow.retrieve" /\ contract.intent # 0)
  OBVIOUS
<1>4. contract.intent # 0 => contract.intent \in IntentIds /\ Intent(contract.intent, contract.id)
  BY DEF IInv, RowsOK, TypeOK, ContractRow, IntentIds
<1> HIDE DEF l, at
<1>5. pc'[r] = at /\ loc'[r] = l
  BY <1>1, <1>2, Moved
<1>6. RequestOK(pc[r], loc[r])'
  BY <1>1, <1>2, <1>3, <1>4, <1>5 DEF RequestOK, HookAwaits, ContractAwaits, Intent
<1>7. QED
  BY <1>1, <1>2, <1>6, QuietStep DEF IntentsKept, IInv, TypeOK

LEMMA RetrieveIntentKeepsIInv ==
  ASSUME IInv, NEW r \in Requests, RetrieveIntent(r)
  PROVE  IInv'
<1>1. /\ UNCHANGED <<status, phases, contract, created, escrow, removed, forced>>
      /\ pc[r] = "escrow.retrieve" /\ loc[r] \in Memory
      /\ "escrow.activate" \in Awaits /\ "escrow.create" \in Awaits
  BY DEF RetrieveIntent, IInv, TypeOK, Awaits
<1>2. /\ loc[r].hook = 0 /\ loc[r].cid \in 1..created
      /\ loc[r].intent \in IntentIds /\ intents[loc[r].intent].contract = loc[r].cid
  BY <1>1 DEF IInv, RequestOK, HookAwaits, ContractAwaits, Intent
<1>3. \/ /\ intents[loc[r].intent].state = "succeeded" /\ UNCHANGED intents
         /\ GoTo(r, "escrow.activate", loc[r])
      \/ Return(r)
      \/ GoTo(r, "escrow.create", loc[r]) /\ UNCHANGED intents
  BY DEF RetrieveIntent
<1>4. ASSUME intents[loc[r].intent].state = "succeeded", UNCHANGED intents,
             GoTo(r, "escrow.activate", loc[r])
      PROVE  IInv'
  <2>1. pc'[r] = "escrow.activate" /\ loc'[r] = loc[r]
    BY <1>1, <1>4, Moved
  <2>2. RequestOK(pc[r], loc[r])'
    BY <1>1, <1>2, <1>4, <2>1 DEF RequestOK, HookAwaits, ContractAwaits, Paid
  <2>3. QED
    BY <1>1, <1>4, <2>2, QuietStep DEF IntentsKept, IInv, TypeOK
<1>5. CASE Return(r)
  BY <1>1, <1>5, QuietReturn DEF IInv, TypeOK
<1>6. ASSUME UNCHANGED intents, GoTo(r, "escrow.create", loc[r])
      PROVE  IInv'
  <2>1. pc'[r] = "escrow.create" /\ loc'[r] = loc[r]
    BY <1>1, <1>6, Moved
  <2>2. RequestOK(pc[r], loc[r])'
    BY <1>1, <1>2, <1>6, <2>1 DEF RequestOK, HookAwaits, ContractAwaits
  <2>3. QED
    BY <1>1, <1>6, <2>2, QuietStep DEF IntentsKept, IInv, TypeOK
<1>7. QED
  BY <1>3, <1>4, <1>5, <1>6

LEMMA DeliverSucceededKeepsIInv ==
  ASSUME IInv, NEW r \in Requests, NEW p \in IntentIds, DeliverSucceeded(r, p)
  PROVE  IInv'
<1> DEFINE l == [Nothing EXCEPT !.cid = contract.id, !.hook = p]
<1>1. /\ UNCHANGED <<status, phases, contract, created, escrow, removed, forced>>
      /\ pc[r] = "idle" /\ intents[p].state = "succeeded" /\ intents[p].contract # 0
  BY DEF DeliverSucceeded, IInv, RowsOK
<1>2. CASE /\ contract.id = intents[p].contract
           /\ GoTo(r, "escrow.activate", l) /\ UNCHANGED intents
  <2>1. l \in Memory /\ l.hook = p /\ l.cid = contract.id /\ "escrow.activate" \in Awaits
    <3>1. p \in 0..MaxIntents
      BY LifecycleAssumption DEF IntentIds
    <3>2. QED
      BY <3>1, NothingTyped DEF IInv, TypeOK, ContractRow, Memory, Nothing, Awaits
  <2> HIDE DEF l
  <2>2. contract.id \in 1..created
    BY <1>1, <1>2, ContractFound
  <2>3. Paid(l.cid)
    BY <1>1, <1>2, <2>1 DEF Paid
  <2>4. pc'[r] = "escrow.activate" /\ loc'[r] = l
    BY <1>2, <2>1, Moved
  <2>5. RequestOK(pc[r], loc[r])'
    BY <1>1, <1>2, <2>1, <2>2, <2>3, <2>4 DEF RequestOK, HookAwaits, ContractAwaits, Paid
  <2>6. QED
    BY <1>1, <1>2, <2>1, <2>5, QuietStep DEF IntentsKept, IInv, TypeOK
<1>3. CASE /\ contract.id # intents[p].contract
           /\ intents' = [intents EXCEPT ![p].acked = TRUE] /\ UNCHANGED <<pc, loc>>
  <2>1. IntentsKept
    BY <1>1, <1>3 DEF IntentsKept, IInv, TypeOK, IntentRow
  <2>2. RowsOK' /\ Safety' /\ Keeps
    BY <1>1, <2>1, QuietRows
  <2>3. TypeOK'
    BY <1>1, <1>3, <2>1 DEF IInv, TypeOK, IntentsKept
  <2>4. RequestOK(pc[r], loc[r])'
    BY <1>1, <1>3, PlainOK DEF PlainAwaits, IInv, RequestOK, HookAwaits
  <2>5. \A q \in Requests : RequestOK(pc[q], loc[q])'
    BY <1>3, <2>2, <2>3, <2>4, OthersOK
  <2>6. QED
    BY <2>2, <2>3, <2>5 DEF IInv
<1>4. QED
  BY <1>2, <1>3 DEF DeliverSucceeded

LEMMA HealFailsKeepsIInv ==
  ASSUME IInv, NEW r \in Requests, HealFails(r)
  PROVE  IInv'
<1> DEFINE l == [Nothing EXCEPT !.cid = loc[r].cid, !.intent = loc[r].intent]
<1>1. /\ UNCHANGED <<status, phases, contract, created, escrow, intents, removed, forced>>
      /\ GoTo(r, "escrow.create", l) /\ loc[r] \in Memory /\ pc[r] \in HookAwaits
  BY DEF HealFails, IInv, TypeOK, HookAwaits
<1>2. l \in Memory /\ l.hook = 0 /\ l.cid = loc[r].cid /\ "escrow.create" \in Awaits
  BY <1>1, NothingTyped DEF Memory, Nothing, Awaits
<1>3. l.cid \in 1..created
  BY <1>1, <1>2 DEF IInv, RequestOK, ContractAwaits
<1> HIDE DEF l
<1>4. pc'[r] = "escrow.create" /\ loc'[r] = l
  BY <1>1, <1>2, Moved
<1>5. RequestOK(pc[r], loc[r])'
  BY <1>1, <1>2, <1>3, <1>4 DEF RequestOK, HookAwaits, ContractAwaits
<1>6. QED
  BY <1>1, <1>2, <1>5, QuietStep DEF IntentsKept, IInv, TypeOK

Walk == HookAwaits \ {"escrow.activate"}

\* A request that stays in advanceProjectAfterEscrow keeps its contract and its
\* webhook, so it is as sure of the money as it was.
LEMMA WalkOK ==
  ASSUME IInv, NEW r \in Requests, pc[r] \in Walk, pc'[r] \in Walk,
         loc'[r].cid = loc[r].cid, loc'[r].hook = loc[r].hook,
         UNCHANGED <<contract, created, escrow, removed, forced>>, IntentsKept,
         pc'[r] = "advance.lookup" => loc'[r].from = "contract_signed",
         pc'[r] = "advance.pay" => /\ loc'[r].from = "contract_signed"
                                   /\ removed # {} \/ loc[r].cid \in escrow,
         pc'[r] = "advance.start" => /\ loc'[r].from = "active_escrow"
                                     /\ forced \/ removed # {} \/ loc[r].cid \in escrow
  PROVE  RequestOK(pc[r], loc[r])'
<1>1. /\ loc[r].cid \in 1..created
      /\ loc[r].hook # 0 => /\ intents[loc[r].hook].state = "succeeded"
                            /\ intents[loc[r].hook].contract = loc[r].cid
                            /\ loc[r].cid \in escrow \/ loc[r].cid # contract.id
  BY DEF IInv, RequestOK, ContractAwaits, HookAwaits, Walk
<1>2. loc[r].hook # 0 => loc[r].hook \in IntentIds
  BY LifecycleAssumption DEF IInv, TypeOK, Memory, IntentIds
<1>3. QED
  BY <1>1, <1>2 DEF RequestOK, HookAwaits, ContractAwaits, Walk, IntentsKept

LEMMA AdvanceReadKeepsIInv ==
  ASSUME IInv, NEW r \in Requests, AdvanceRead(r)
  PROVE  IInv'
<1> DEFINE signed == contract.signedBy # NoWorker
           at == IF status = "contract_signed" THEN "advance.lookup"
                 ELSE AdvanceFrom(status, signed, FirstPending)
           l  == [loc[r] EXCEPT !.from = status, !.signed = signed, !.phase = FirstPending]
<1>1. /\ UNCHANGED <<status, phases, contract, created, escrow, removed, forced>>
      /\ pc[r] = "advance.read" /\ loc[r] \in Memory /\ status \in Statuses
      /\ phases \in [PhaseIds -> PhaseStatuses \cup {"none"}]
  BY DEF AdvanceRead, IInv, TypeOK
<1>2. CASE Return(r)
  BY <1>1, <1>2, QuietReturn
<1>3. CASE contract.id = loc[r].cid /\ Continue(r, at, l)
  <2>1. l \in Memory /\ l.hook = loc[r].hook /\ l.cid = loc[r].cid /\ l.from = status
    BY <1>1, FirstPendingTyped DEF Memory
  <2>2. \/ at = "advance.lookup" /\ status = "contract_signed"
        \/ at = "advance.start" /\ status = "active_escrow"
        \/ at \in {"advance.phase", "end"}
    BY DEF AdvanceFrom
  <2>3. at \in Awaits \cup {"end"} /\ (at # "end" => at \in Walk)
    BY <2>2 DEF Awaits, Walk, HookAwaits
  <2> HIDE DEF at, l
  <2>4. IntentsKept
    BY <1>1, <1>3, <2>1, <2>3, Continued
  <2>5. status = "active_escrow" => forced \/ removed # {} \/ loc[r].cid \in escrow
    BY <1>3 DEF IInv, Safety, ExecutionIsFunded
  <2>6. at # "end" /\ pc'[r] = at /\ loc'[r] = l => RequestOK(pc[r], loc[r])'
    BY <1>1, <2>1, <2>2, <2>3, <2>4, <2>5, WalkOK DEF Walk, HookAwaits
  <2>7. QED
    BY <1>1, <1>3, <2>1, <2>3, <2>6, QuietContinue
<1>4. QED
  BY <1>2, <1>3 DEF AdvanceRead

LEMMA AdvanceLookupKeepsIInv ==
  ASSUME IInv, NEW r \in Requests, AdvanceLookup(r)
  PROVE  IInv'
<1> DEFINE at == IF loc[r].cid \in escrow THEN "advance.pay" ELSE "end"
<1>1. /\ UNCHANGED <<status, phases, contract, created, escrow, removed, forced>>
      /\ pc[r] = "advance.lookup" /\ loc[r] \in Memory
      /\ phases \in [PhaseIds -> PhaseStatuses \cup {"none"}]
      /\ Continue(r, at, loc[r]) /\ loc[r].from = "contract_signed"
  BY DEF AdvanceLookup, IInv, TypeOK, RequestOK
<1>2. at \in Awaits \cup {"end"} /\ (at # "end" => at = "advance.pay" /\ loc[r].cid \in escrow)
  BY DEF Awaits
<1> HIDE DEF at
<1>3. IntentsKept
  BY <1>1, <1>2, Continued
<1>4. at # "end" /\ pc'[r] = at /\ loc'[r] = loc[r] => RequestOK(pc[r], loc[r])'
  BY <1>1, <1>2, <1>3, WalkOK DEF Walk, HookAwaits
<1>5. QED
  BY <1>1, <1>2, <1>4, QuietContinue

LEMMA AdvancePhaseKeepsIInv ==
  ASSUME IInv, NEW r \in Requests, AdvancePhase(r)
  PROVE  IInv'
<1>1. phases' \in [PhaseIds -> PhaseStatuses \cup {"none"}]
  BY DEF AdvancePhase, IInv, TypeOK, PhaseStatuses
<1>2. QED
  BY <1>1, QuietReturn DEF AdvancePhase

-----------------------------------------------------------------------------
(* Phases.                                                                 *)

LEMMA AddPhaseKeepsIInv ==
  ASSUME IInv, NEW ph \in PhaseIds, AddPhase(ph)
  PROVE  IInv'
<1>1. /\ UNCHANGED <<status, contract, created, escrow, intents, removed, forced, pc, loc>>
      /\ phases' \in [PhaseIds -> PhaseStatuses \cup {"none"}]
  BY DEF AddPhase, IInv, TypeOK, PhaseStatuses
<1>2. IntentsKept
  BY <1>1 DEF IntentsKept, IInv, TypeOK
<1>3. RowsOK' /\ Safety'
  BY <1>1, <1>2, QuietRows
<1>4. TypeOK'
  BY <1>1 DEF IInv, TypeOK
<1>5. \A q \in Requests : RequestOK(pc[q], loc[q])'
  BY <1>1 DEF IInv, RequestOK, Intent, Paid
<1>6. QED
  BY <1>3, <1>4, <1>5 DEF IInv

LEMMA RequestPhaseKeepsIInv ==
  ASSUME IInv, NEW r \in Requests, NEW ph \in PhaseIds, RequestPhase(r, ph) \/ RequestReview(r, ph)
  PROVE  IInv'
<1>1. \E next \in PhaseStatuses :
        GoTo(r, "phase.save", [Nothing EXCEPT !.phase = ph, !.phaseTo = next])
  <2>1. \A t \in PhaseTransitions : t[2] \in PhaseStatuses
    BY DEF PhaseTransitions, PhaseStatuses
  <2>2. CASE RequestPhase(r, ph)
    <3>1. PICK t \in PhaseTransitions :
            GoTo(r, "phase.save", [Nothing EXCEPT !.phase = ph, !.phaseTo = t[2]])
      BY <2>2 DEF RequestPhase
    <3>2. QED
      BY <2>1, <3>1
  <2>3. CASE RequestReview(r, ph)
    <3>1. PICK verdict \in {"completed", "in_progress"} :
            GoTo(r, "phase.save", [Nothing EXCEPT !.phase = ph, !.phaseTo = verdict])
      BY <2>3 DEF RequestReview
    <3>2. verdict \in PhaseStatuses
      BY DEF PhaseStatuses
    <3>3. QED
      BY <3>1, <3>2
  <2>4. QED
    BY <2>2, <2>3
<1>2. PICK next \in PhaseStatuses :
        GoTo(r, "phase.save", [Nothing EXCEPT !.phase = ph, !.phaseTo = next])
  BY <1>1
<1> DEFINE l == [Nothing EXCEPT !.phase = ph, !.phaseTo = next]
<1>3. l \in Memory /\ l.hook = 0 /\ "phase.save" \in Awaits
  <2>1. ph \in 0..MaxPhases
    BY LifecycleAssumption DEF PhaseIds
  <2>2. QED
    BY <2>1, NothingTyped DEF Memory, Nothing, Awaits
<1> HIDE DEF l
<1>4. GoTo(r, "phase.save", l)
  BY <1>2 DEF l
<1>5. RequestOK(pc[r], loc[r])'
  BY <1>3, <1>4, Moved, PlainOK DEF PlainAwaits
<1>6. UNCHANGED <<status, phases, contract, created, escrow, intents, removed, forced>>
  BY DEF RequestPhase, RequestReview
<1>7. QED
  BY <1>3, <1>4, <1>5, <1>6, QuietStep DEF IntentsKept, IInv, TypeOK

LEMMA SavePhaseKeepsIInv ==
  ASSUME IInv, NEW r \in Requests, SavePhase(r) \/ CloseReadPhases(r)
  PROVE  IInv'
<1>1. /\ UNCHANGED <<status, contract, created, escrow, removed, forced>>
      /\ pc[r] # "escrow.activate"
      /\ \E at \in {"close.phases", "close.project", "end"} : Continue(r, at, Nothing)
  BY DEF SavePhase, CloseReadPhases
<1>2. phases' \in [PhaseIds -> PhaseStatuses \cup {"none"}]
  <2>1. loc[r].phaseTo \in PhaseStatuses
    BY DEF IInv, TypeOK, Memory
  <2>2. QED
    BY <2>1 DEF SavePhase, CloseReadPhases, IInv, TypeOK
<1>3. PICK at \in {"close.phases", "close.project", "end"} : Continue(r, at, Nothing)
  BY <1>1
<1>4. at \in Awaits \cup {"end"} /\ (at # "end" => at \in PlainAwaits)
  BY DEF Awaits, PlainAwaits
<1>5. at # "end" /\ pc'[r] = at /\ loc'[r] = Nothing => RequestOK(pc[r], loc[r])'
  BY <1>4, PlainOK DEF Nothing
<1>6. QED
  BY <1>1, <1>2, <1>3, <1>4, <1>5, NothingTyped, QuietContinue

LEMMA CloseReadProjectKeepsIInv ==
  ASSUME IInv, NEW r \in Requests, CloseReadProject(r)
  PROVE  IInv'
<1> DEFINE at == IF status \in {"closing", "closed"} THEN "end" ELSE "close.save"
           l  == [Nothing EXCEPT !.from = status]
<1>1. /\ UNCHANGED <<status, phases, contract, created, escrow, removed, forced>>
      /\ pc[r] = "close.project" /\ status \in Statuses
      /\ phases \in [PhaseIds -> PhaseStatuses \cup {"none"}]
      /\ Continue(r, at, l)
  BY DEF CloseReadProject, IInv, TypeOK
<1>2. l \in Memory /\ l.hook = 0 /\ l.from = status
  BY <1>1, NothingTyped DEF Memory, Nothing
<1>3. /\ at \in Awaits \cup {"end"}
      /\ at # "end" => at = "close.save" /\ status \notin {"closing", "closed"}
  BY DEF Awaits
<1> HIDE DEF at, l
<1>4. at # "end" /\ pc'[r] = at /\ loc'[r] = l => RequestOK(pc[r], loc[r])'
  BY <1>1, <1>2, <1>3 DEF RequestOK, HookAwaits, ContractAwaits
<1>5. QED
  BY <1>1, <1>2, <1>3, <1>4, QuietContinue

-----------------------------------------------------------------------------
(* Writes of the project's status.                                         *)

LEMMA StatusStep ==
  ASSUME IInv, NEW r \in Requests, NEW at \in Awaits \cup {"end"}, NEW l \in Memory,
         pc[r] # "escrow.activate", Continue(r, at, l),
         at # "end" /\ pc'[r] = at /\ loc'[r] = l /\ IntentsKept => RequestOK(pc[r], loc[r])',
         UNCHANGED <<phases, contract, created, escrow, removed, forced>>,
         status' \in Statuses,
         status' \in {"active_escrow", "in_execution"}
           => forced \/ removed # {} \/ contract.id \in escrow
  PROVE  IInv'
<1> USE DEF IInv
<1>1. IntentsKept
  BY Continued
<1>2. PICK a \in Awaits, m \in Memory :
        GoTo(r, a, m) /\ (\/ a = at /\ m = l /\ at # "end"
                          \/ a = "idle" /\ m = Nothing)
  <2>1. CASE at = "end"
    BY <2>1, Continued, NothingTyped DEF Return, Awaits
  <2>2. CASE at # "end"
    BY <2>2, Continued
  <2>3. QED
    BY <2>1, <2>2
<1>3. RequestOK(pc[r], loc[r])'
  BY <1>1, <1>2, Moved, PlainOK DEF PlainAwaits, Nothing
<1>4. RowsOK'
  BY <1>1 DEF RowsOK, IntentsKept, Intent, TypeOK, ContractRow, IntentIds
<1>5. HeldMoneyKeepsContract' /\ ExecutionIsFunded'
  BY DEF Safety, HeldMoneyKeepsContract, ExecutionIsFunded
<1>6. EscrowIsPaid' /\ AnsweredIsHeld'
  BY <1>1 DEF Safety, EscrowIsPaid, Paid, IntentsKept, AnsweredIsHeld
<1>7. Keeps
  BY <1>1 DEF Keeps, IntentsKept, TypeOK
<1>8. TypeOK'
  BY <1>1, <1>2, Moved DEF TypeOK, IntentsKept
<1>9. \A q \in Requests : RequestOK(pc[q], loc[q])'
  BY <1>2, <1>3, <1>7, <1>8, Moved, OthersOK
<1>10. QED
  BY <1>3, <1>4, <1>5, <1>6, <1>8, <1>9 DEF Safety

LEMMA SaveStatusKeepsIInv ==
  ASSUME IInv, NEW r \in Requests, SaveStatus(r) \/ CloseSave(r)
  PROVE  IInv'
<1>1. Continue(r, "end", Nothing) /\ UNCHANGED <<phases, contract, created, escrow, removed, forced>>
  BY DEF SaveStatus, CloseSave, Continue
<1>2. status' \in Statuses
  BY DEF SaveStatus, CloseSave, IInv, TypeOK, Memory, Statuses
<1>3. status' \in {"active_escrow", "in_execution"} => forced
  BY DEF SaveStatus, CloseSave, IInv, RequestOK
<1>4. pc[r] # "escrow.activate" /\ "end" \in Awaits \cup {"end"}
  BY DEF SaveStatus, CloseSave
<1>5. QED
  BY <1>1, <1>2, <1>3, <1>4, NothingTyped, StatusStep

LEMMA AdvancePayKeepsIInv ==
  ASSUME IInv, NEW r \in Requests, AdvancePay(r)
  PROVE  IInv'
<1> DEFINE at == AdvanceFrom("active_escrow", loc[r].signed, loc[r].phase)
           l  == [loc[r] EXCEPT !.from = "active_escrow"]
<1>1. /\ UNCHANGED <<phases, contract, created, escrow, removed, forced>>
      /\ pc[r] = "advance.pay" /\ loc[r] \in Memory /\ Continue(r, at, l)
      /\ removed # {} \/ loc[r].cid \in escrow
      /\ status' = "active_escrow" /\ status' \in Statuses
  BY DEF AdvancePay, IInv, TypeOK, RequestOK, Statuses
<1>2. l \in Memory /\ l.hook = loc[r].hook /\ l.cid = loc[r].cid /\ l.from = "active_escrow"
  BY <1>1 DEF Memory, Statuses
<1>3. at \in Awaits \cup {"end"} /\ (at # "end" => at = "advance.start")
  BY DEF AdvanceFrom, Awaits
<1> HIDE DEF at, l
<1>4. removed # {} \/ contract.id \in escrow
  BY <1>1 DEF IInv, Safety, HeldMoneyKeepsContract
<1>5. at # "end" /\ pc'[r] = at /\ loc'[r] = l /\ IntentsKept => RequestOK(pc[r], loc[r])'
  BY <1>1, <1>2, <1>3, WalkOK DEF Walk, HookAwaits
<1>6. QED
  BY <1>1, <1>2, <1>3, <1>4, <1>5, StatusStep

LEMMA AdvanceStartKeepsIInv ==
  ASSUME IInv, NEW r \in Requests, AdvanceStart(r)
  PROVE  IInv'
<1> DEFINE at == AdvanceFrom("in_execution", TRUE, loc[r].phase)
           l  == [loc[r] EXCEPT !.from = "in_execution"]
<1>1. /\ UNCHANGED <<phases, contract, created, escrow, removed, forced>>
      /\ pc[r] = "advance.start" /\ loc[r] \in Memory /\ Continue(r, at, l)
      /\ forced \/ removed # {} \/ loc[r].cid \in escrow
      /\ status' = "in_execution" /\ status' \in Statuses
  BY DEF AdvanceStart, IInv, TypeOK, RequestOK, Statuses
<1>2. l \in Memory /\ l.hook = loc[r].hook /\ l.cid = loc[r].cid /\ l.from = "in_execution"
  BY <1>1 DEF Memory, Statuses
<1>3. at \in Awaits \cup {"end"} /\ (at # "end" => at = "advance.phase")
  BY DEF AdvanceFrom, Awaits
<1> HIDE DEF at, l
<1>4. forced \/ removed # {} \/ contract.id \in escrow
  BY <1>1 DEF IInv, Safety, HeldMoneyKeepsContract
<1>5. at # "end" /\ pc'[r] = at /\ loc'[r] = l /\ IntentsKept => RequestOK(pc[r], loc[r])'
  BY <1>1, <1>2, <1>3, WalkOK DEF Walk, HookAwaits
<1>6. QED
  BY <1>1, <1>2, <1>3, <1>4, <1>5, StatusStep

-----------------------------------------------------------------------------
(* Writes of the contract.                                                 *)

\* Reassigning, signing and storing an intent write the row and keep its id.
LEMMA SameContractStep ==
  ASSUME IInv, NEW r \in Requests, NEW at \in Awaits, NEW l \in Memory, GoTo(r, at, l),
         IntentsKept, Keeps => RequestOK(pc[r], loc[r])',
         UNCHANGED <<phases, created, escrow, removed, forced>>,
         contract' \in ContractRow, contract'.id = contract.id,
         contract'.intent # 0 => Intent(contract'.intent, contract.id),
         status' \in Statuses,
         status' \in {"active_escrow", "in_execution"}
           => forced \/ removed # {} \/ contract.id \in escrow
  PROVE  IInv'
<1> USE DEF IInv
<1>1. TypeOK'
  BY Moved DEF TypeOK, IntentsKept
<1>2. RowsOK'
  BY DEF RowsOK, IntentsKept, Intent, ContractRow, IntentIds
<1>3. HeldMoneyKeepsContract' /\ ExecutionIsFunded'
  BY DEF Safety, HeldMoneyKeepsContract, ExecutionIsFunded
<1>4. EscrowIsPaid' /\ AnsweredIsHeld'
  BY DEF Safety, EscrowIsPaid, Paid, IntentsKept, AnsweredIsHeld
<1>5. Keeps
  BY DEF Keeps, IntentsKept, TypeOK
<1>6. \A q \in Requests : RequestOK(pc[q], loc[q])'
  BY <1>1, <1>5, Moved, OthersOK
<1>7. QED
  BY <1>1, <1>2, <1>3, <1>4, <1>6 DEF Safety

LEMMA ReassignKeepsIInv ==
  ASSUME IInv, NEW r \in Requests, Reassign(r)
  PROVE  IInv'
<1>1. /\ UNCHANGED <<phases, created, escrow, removed, forced>>
      /\ contract' = [contract EXCEPT !.worker = loc[r].worker, !.signedBy = NoWorker]
      /\ pc[r] = "contract.reassign" /\ contract.id = loc[r].cid
      /\ Return(r) /\ GoTo(r, "idle", Nothing) /\ "idle" \in Awaits /\ Nothing.hook = 0
      /\ status' = status \/ status' = "active_escrow"
  BY DEF Reassign, Return, Awaits, Nothing
<1>2. /\ contract' \in ContractRow /\ contract'.id = contract.id
      /\ contract'.intent = contract.intent /\ status' \in Statuses
  BY <1>1 DEF IInv, TypeOK, ContractRow, Memory, Statuses
<1>3. removed # {} \/ contract.id \in escrow
  BY <1>1 DEF IInv, RequestOK
<1>4. contract'.intent # 0 => Intent(contract'.intent, contract.id)
  BY <1>2 DEF IInv, RowsOK
<1>5. RequestOK(pc[r], loc[r])'
  BY <1>1, NothingTyped, Moved, PlainOK DEF PlainAwaits
<1>6. IntentsKept
  BY <1>1, Answered
<1>7. QED
  BY <1>1, <1>2, <1>3, <1>4, <1>5, <1>6, NothingTyped, SameContractStep

LEMMA SignKeepsIInv ==
  ASSUME IInv, NEW r \in Requests, Sign(r)
  PROVE  IInv'
<1> DEFINE l == [Nothing EXCEPT !.cid = loc[r].cid]
<1>1. /\ UNCHANGED <<status, phases, created, escrow, intents, removed, forced>>
      /\ contract' = [contract EXCEPT !.signedBy = loc[r].worker]
      /\ pc[r] = "contract.sign" /\ contract.id = loc[r].cid /\ loc[r] \in Memory
      /\ GoTo(r, "advance.read", l) /\ "advance.read" \in Awaits
      /\ status \in Statuses
  BY DEF Sign, Awaits, IInv, TypeOK
<1>2. /\ contract' \in ContractRow /\ contract'.id = contract.id
      /\ contract'.intent = contract.intent
  BY <1>1 DEF IInv, TypeOK, ContractRow, Memory
<1>3. contract'.intent # 0 => Intent(contract'.intent, contract.id)
  BY <1>2 DEF IInv, RowsOK
<1>4. l \in Memory /\ l.hook = 0 /\ l.cid = loc[r].cid
  BY <1>1, NothingTyped DEF Memory, Nothing
<1> HIDE DEF l
<1>5. pc'[r] = "advance.read" /\ loc'[r] = l /\ loc[r].cid \in 1..created
  BY <1>1, <1>4, Moved DEF IInv, RequestOK, ContractAwaits
<1>6. RequestOK(pc[r], loc[r])'
  BY <1>1, <1>4, <1>5 DEF RequestOK, ContractAwaits, HookAwaits
<1>7. IntentsKept
  BY <1>1 DEF IntentsKept, IInv, TypeOK
<1>8. status \in {"active_escrow", "in_execution"}
        => forced \/ removed # {} \/ contract.id \in escrow
  BY DEF IInv, Safety, ExecutionIsFunded
<1>9. QED
  BY <1>1, <1>2, <1>3, <1>4, <1>6, <1>7, <1>8, SameContractStep

LEMMA StoreIntentKeepsIInv ==
  ASSUME IInv, NEW r \in Requests, StoreIntent(r)
  PROVE  IInv'
<1>1. /\ UNCHANGED <<status, phases, created, escrow, removed, forced>>
      /\ contract' = [contract EXCEPT !.intent = loc[r].intent]
      /\ pc[r] = "escrow.store" /\ contract.id = loc[r].cid /\ loc[r] \in Memory
      /\ Return(r) /\ GoTo(r, "idle", Nothing) /\ "idle" \in Awaits /\ Nothing.hook = 0
      /\ status \in Statuses
  BY DEF StoreIntent, Return, Awaits, Nothing, IInv, TypeOK
<1>2. /\ contract' \in ContractRow /\ contract'.id = contract.id
      /\ contract'.intent = loc[r].intent
  BY <1>1 DEF IInv, TypeOK, ContractRow, Memory
<1>3. contract'.intent # 0 => Intent(contract'.intent, contract.id)
  BY <1>1, <1>2 DEF IInv, RequestOK
<1>4. RequestOK(pc[r], loc[r])'
  BY <1>1, NothingTyped, Moved, PlainOK DEF PlainAwaits
<1>5. IntentsKept
  BY <1>1, Answered
<1>6. status \in {"active_escrow", "in_execution"}
        => forced \/ removed # {} \/ contract.id \in escrow
  BY DEF IInv, Safety, ExecutionIsFunded
<1>7. QED
  BY <1>1, <1>2, <1>3, <1>4, <1>5, <1>6, NothingTyped, SameContractStep

LEMMA ReplaceKeepsIInv ==
  ASSUME IInv, NEW r \in Requests, Replace(r)
  PROVE  IInv'
<1>1. /\ UNCHANGED <<phases, escrow, removed, forced>>
      /\ contract.id \notin escrow /\ created' = created + 1 /\ created < MaxContracts
      /\ contract' = [NoContract EXCEPT !.id = created + 1, !.worker = loc[r].worker]
      /\ pc[r] = "contract.replace"
      /\ Return(r) /\ GoTo(r, "idle", Nothing) /\ "idle" \in Awaits /\ Nothing.hook = 0
      /\ status' = status \/ status' = "contract_signed"
      /\ created \in Nat /\ loc[r] \in Memory
  BY LifecycleAssumption DEF Replace, Return, Awaits, Nothing, IInv, TypeOK
<1>2. /\ created' \in 0..MaxContracts /\ created + 1 \in 0..MaxContracts
  BY <1>1, LifecycleAssumption
<1>3. contract' \in ContractRow /\ contract'.id = created + 1 /\ contract'.intent = 0
  BY <1>1, <1>2, NothingTyped DEF ContractRow, Memory, NoContract
<1>4. IntentsKept
  BY <1>1, Answered
<1>5. TypeOK'
  <2>1. status' \in Statuses
    BY <1>1 DEF IInv, TypeOK, Statuses
  <2>2. QED
    BY <1>1, <1>2, <1>3, <1>4, <2>1, NothingTyped, Moved DEF IInv, TypeOK, IntentsKept
<1>6. RowsOK'
  <2>1. \A p \in IntentIds : intents'[p].contract \in Nat
    BY <1>4, LifecycleAssumption DEF IntentsKept, IntentRow
  <2>2. QED
    BY <1>1, <1>3, <1>4, <2>1 DEF IInv, RowsOK, IntentsKept
<1>7. escrow = {}
  BY <1>1 DEF IInv, Safety, HeldMoneyKeepsContract
<1>8. HeldMoneyKeepsContract' /\ EscrowIsPaid'
  BY <1>1, <1>7 DEF HeldMoneyKeepsContract, EscrowIsPaid
<1>9. ExecutionIsFunded'
  BY <1>1 DEF IInv, Safety, ExecutionIsFunded
<1>10. AnsweredIsHeld'
  <2> SUFFICES ASSUME NEW p \in IntentIds PROVE intents'[p].contract # contract'.id
    BY DEF AnsweredIsHeld
  <2>1. intents'[p].contract <= created /\ intents'[p].contract \in Nat
    BY <1>4, LifecycleAssumption DEF IInv, RowsOK, IntentsKept, IntentRow
  <2>2. QED
    BY <1>1, <1>3, <2>1
<1>11. Keeps
  BY <1>1, <1>3, <1>4 DEF Keeps, IntentsKept
<1>12. RequestOK(pc[r], loc[r])'
  BY <1>1, NothingTyped, Moved, PlainOK DEF PlainAwaits
<1>13. \A q \in Requests : RequestOK(pc[q], loc[q])'
  BY <1>1, <1>5, <1>11, <1>12, NothingTyped, Moved, OthersOK
<1>14. QED
  BY <1>5, <1>6, <1>8, <1>9, <1>10, <1>13 DEF IInv, Safety

\* Deleting a worker takes the contract and its escrow away together.
LEMMA DeleteWorkerKeepsIInv ==
  ASSUME IInv, NEW w \in Workers, DeleteWorker(w)
  PROVE  IInv'
<1>1. /\ UNCHANGED <<status, phases, created, intents, forced, pc, loc>>
      /\ removed' = removed \cup {w}
      /\ \/ contract' = contract /\ escrow' = escrow
         \/ contract' = NoContract /\ escrow' = escrow \ {contract.id}
  BY DEF DeleteWorker
<1>2. TypeOK'
  BY <1>1, NothingTyped DEF IInv, TypeOK
<1>3. RowsOK'
  BY <1>1 DEF IInv, RowsOK, NoContract, Intent, TypeOK
<1>4. HeldMoneyKeepsContract' /\ EscrowIsPaid' /\ ExecutionIsFunded'
  BY <1>1 DEF IInv, Safety, HeldMoneyKeepsContract, EscrowIsPaid, ExecutionIsFunded, Paid
<1>5. AnsweredIsHeld'
  <2>1. \A p \in IntentIds : intents[p].acked => intents[p].contract # 0
    BY DEF IInv, RowsOK
  <2>2. QED
    BY <1>1, <2>1 DEF IInv, Safety, AnsweredIsHeld, NoContract
<1>6. Keeps
  BY <1>1 DEF Keeps, NoContract, IInv, TypeOK, Safety, HeldMoneyKeepsContract
<1>7. ASSUME NEW r \in Requests PROVE RequestOK(pc[r], loc[r])'
  <2>1. PICK at \in Awaits, l \in Memory : at = pc[r] /\ l = loc[r]
    BY DEF IInv, TypeOK
  <2>2. RequestOK(at, l) /\ pc'[r] = at /\ loc'[r] = l
    BY <1>1, <2>1 DEF IInv
  <2>3. /\ removed' # {}
        /\ l.cid \in 1..created => (l.cid \in escrow => l.cid \in escrow' \/ l.cid # contract'.id)
        /\ l.cid \in 1..created => (l.cid # contract.id => l.cid # contract'.id)
    BY <1>1 DEF NoContract
  <2>4. l.hook # 0 => l.cid \in 1..created
    BY <2>2 DEF RequestOK, ContractAwaits
  <2>5. QED
    BY <1>1, <2>2, <2>3, <2>4 DEF RequestOK, Intent, Paid
<1>8. QED
  BY <1>2, <1>3, <1>4, <1>5, <1>7 DEF IInv, Safety

-----------------------------------------------------------------------------
(* Writes of the intents and of the escrow.                                *)

LEMMA CreateIntentKeepsIInv ==
  ASSUME IInv, NEW r \in Requests, NEW p \in IntentIds, CreateIntent(r, p)
  PROVE  IInv'
<1> DEFINE l   == [loc[r] EXCEPT !.intent = p]
           row == [NoIntent EXCEPT !.contract = loc[r].cid, !.state = "open"]
<1>1. /\ UNCHANGED <<status, phases, contract, created, escrow, removed, forced>>
      /\ pc[r] = "escrow.create" /\ loc[r] \in Memory /\ intents[p] = NoIntent
      /\ intents' = [intents EXCEPT ![p] = row]
      /\ GoTo(r, "escrow.store", l) /\ "escrow.store" \in Awaits
      /\ intents \in [IntentIds -> IntentRow]
  BY DEF CreateIntent, IInv, TypeOK, Awaits
<1>2. loc[r].cid \in 1..created /\ loc[r].hook = 0
  BY <1>1 DEF IInv, RequestOK, ContractAwaits, HookAwaits
<1>3. l \in Memory /\ l.hook = 0 /\ l.cid = loc[r].cid /\ l.intent = p
  <2>1. p \in 0..MaxIntents
    BY LifecycleAssumption DEF IntentIds
  <2>2. QED
    BY <1>1, <1>2, <2>1 DEF Memory
<1>4. row \in IntentRow /\ row.contract = loc[r].cid /\ row.state = "open" /\ ~row.acked
  BY <1>1, NothingTyped DEF IntentRow, NoIntent, Memory
<1> HIDE DEF l, row
<1>5. /\ intents' \in [IntentIds -> IntentRow] /\ intents'[p] = row
      /\ \A q \in IntentIds \ {p} : intents'[q] = intents[q]
  BY <1>1, <1>4
<1>6. intents[p].state = "none" /\ ~intents[p].acked
  BY <1>1 DEF NoIntent
<1>7. TypeOK'
  BY <1>1, <1>3, <1>5, Moved DEF IInv, TypeOK
<1>8. RowsOK'
  <2>1. loc[r].cid <= created /\ loc[r].cid # 0
    BY <1>2 DEF IInv, TypeOK
  <2>2. contract.intent # 0 => contract.intent # p
    BY <1>6 DEF IInv, RowsOK, Intent
  <2>3. contract.intent # 0 => Intent(contract.intent, contract.id)'
    BY <1>1, <1>5, <2>2 DEF IInv, RowsOK, Intent, TypeOK, ContractRow, IntentIds
  <2>4. QED
    BY <1>1, <1>4, <1>5, <2>1, <2>3 DEF IInv, RowsOK
<1>9. HeldMoneyKeepsContract' /\ ExecutionIsFunded'
  BY <1>1 DEF IInv, Safety, HeldMoneyKeepsContract, ExecutionIsFunded
<1>10. EscrowIsPaid'
  BY <1>1, <1>5, <1>6 DEF IInv, Safety, EscrowIsPaid, Paid
<1>11. AnsweredIsHeld'
  BY <1>1, <1>4, <1>5 DEF IInv, Safety, AnsweredIsHeld
<1>12. Keeps
  BY <1>1, <1>5, <1>6 DEF Keeps, IInv, TypeOK
<1>13. RequestOK(pc[r], loc[r])'
  <2>1. pc'[r] = "escrow.store" /\ loc'[r] = l
    BY <1>1, <1>3, Moved
  <2>2. QED
    BY <1>1, <1>2, <1>3, <1>4, <1>5, <2>1 DEF RequestOK, ContractAwaits, HookAwaits, Intent
<1>14. \A q \in Requests : RequestOK(pc[q], loc[q])'
  BY <1>1, <1>3, <1>7, <1>12, <1>13, Moved, OthersOK
<1>15. QED
  BY <1>7, <1>8, <1>9, <1>10, <1>11, <1>14 DEF IInv, Safety

LEMMA SettleIntentKeepsIInv ==
  ASSUME IInv, NEW p \in IntentIds, SettleIntent(p)
  PROVE  IInv'
<1>1. /\ UNCHANGED <<status, phases, contract, created, escrow, removed, forced, pc, loc>>
      /\ intents[p].state = "open" /\ intents \in [IntentIds -> IntentRow]
  BY DEF SettleIntent, IInv, TypeOK
<1>2. PICK s \in {"succeeded", "canceled"} : intents' = [intents EXCEPT ![p].state = s]
  BY DEF SettleIntent
<1>3. /\ intents' \in [IntentIds -> IntentRow]
      /\ \A q \in IntentIds : /\ intents'[q].contract = intents[q].contract
                              /\ intents'[q].acked = intents[q].acked
                              /\ q # p => intents'[q].state = intents[q].state
      /\ intents'[p].state = s
  BY <1>1, <1>2 DEF IntentRow
<1>4. \A q \in IntentIds : /\ intents[q].state # "none" <=> intents'[q].state # "none"
                           /\ intents[q].state = "succeeded" => intents'[q].state = "succeeded"
  BY <1>1, <1>3
<1>5. TypeOK'
  BY <1>1, <1>3 DEF IInv, TypeOK
<1>6. RowsOK'
  BY <1>1, <1>3, <1>4 DEF IInv, RowsOK, Intent, TypeOK, ContractRow, IntentIds
<1>7. HeldMoneyKeepsContract' /\ ExecutionIsFunded'
  BY <1>1 DEF IInv, Safety, HeldMoneyKeepsContract, ExecutionIsFunded
<1>8. EscrowIsPaid' /\ AnsweredIsHeld'
  BY <1>1, <1>3, <1>4 DEF IInv, Safety, EscrowIsPaid, AnsweredIsHeld, Paid
<1>9. Keeps
  BY <1>1, <1>3, <1>4 DEF Keeps, IInv, TypeOK
<1>10. ASSUME NEW r \in Requests PROVE RequestOK(pc[r], loc[r])'
  <2>1. PICK at \in Awaits, l \in Memory : at = pc[r] /\ l = loc[r]
    BY DEF IInv, TypeOK
  <2>2. RequestOK(at, l) /\ pc'[r] = at /\ loc'[r] = l
    BY <1>1, <2>1 DEF IInv
  <2>3. l.hook # 0 => l.hook \in IntentIds
    BY LifecycleAssumption DEF Memory, IntentIds
  <2>4. Paid(l.cid) => \E q \in IntentIds : intents'[q].contract = l.cid
                                            /\ intents'[q].state = "succeeded"
    BY <1>3, <1>4 DEF Paid
  <2>5. QED
    BY <1>1, <1>3, <1>4, <2>2, <2>3, <2>4 DEF RequestOK, Intent, Paid
<1>11. QED
  BY <1>5, <1>6, <1>7, <1>8, <1>10 DEF IInv, Safety

LEMMA ActivateEscrowKeepsIInv ==
  ASSUME IInv, NEW r \in Requests, ActivateEscrow(r)
  PROVE  IInv'
<1>1. /\ UNCHANGED <<status, phases, contract, created, intents, removed, forced>>
      /\ pc[r] = "escrow.activate" /\ contract.id = loc[r].cid
      /\ escrow' = escrow \cup {loc[r].cid}
      /\ GoTo(r, "advance.read", loc[r]) /\ loc[r] \in Memory /\ "advance.read" \in Awaits
  BY DEF ActivateEscrow, IInv, TypeOK, Awaits
<1>2. /\ loc[r].cid \in 1..created /\ Paid(loc[r].cid)
      /\ loc[r].hook # 0 => /\ intents[loc[r].hook].state = "succeeded"
                            /\ intents[loc[r].hook].contract = loc[r].cid
  <2>1. RequestOK("escrow.activate", loc[r])
    BY <1>1 DEF IInv
  <2>2. QED
    BY <2>1 DEF RequestOK, ContractAwaits, HookAwaits
<1>3. TypeOK'
  <2>1. loc[r].cid \in ContractIds
    BY <1>2, LifecycleAssumption DEF IInv, TypeOK, ContractIds
  <2>2. QED
    BY <1>1, <2>1, Moved DEF IInv, TypeOK
<1>4. RowsOK'
  BY <1>1 DEF IInv, RowsOK, Intent
<1>5. HeldMoneyKeepsContract' /\ ExecutionIsFunded'
  BY <1>1 DEF IInv, Safety, HeldMoneyKeepsContract, ExecutionIsFunded
<1>6. EscrowIsPaid' /\ AnsweredIsHeld'
  BY <1>1, <1>2 DEF IInv, Safety, EscrowIsPaid, AnsweredIsHeld, Paid
<1>7. Keeps
  BY <1>1 DEF Keeps, IInv, TypeOK
<1>8. RequestOK(pc[r], loc[r])'
  <2>1. pc'[r] = "advance.read" /\ loc'[r] = loc[r]
    BY <1>1, Moved
  <2>2. QED
    BY <1>1, <1>2, <2>1 DEF RequestOK, ContractAwaits, HookAwaits
<1>9. \A q \in Requests : RequestOK(pc[q], loc[q])'
  BY <1>1, <1>3, <1>7, <1>8, Moved, OthersOK
<1>10. QED
  BY <1>3, <1>4, <1>5, <1>6, <1>9 DEF IInv, Safety

-----------------------------------------------------------------------------
LEMMA InitIInv == Init => IInv
<1> SUFFICES ASSUME Init PROVE IInv
  OBVIOUS
<1>1. TypeOK
  <2>1. phases \in [PhaseIds -> PhaseStatuses \cup {"none"}]
    BY DEF Init, PhaseStatuses
  <2>2. pc \in [Requests -> Awaits] /\ loc \in [Requests -> Memory]
    BY NothingTyped DEF Init, Awaits
  <2>3. created \in 0..MaxContracts /\ status \in Statuses
    BY LifecycleAssumption DEF Init, Statuses
  <2>4. QED
    BY <2>1, <2>2, <2>3, NothingTyped DEF Init, TypeOK
<1>2. RowsOK /\ Safety
  BY DEF Init, RowsOK, Safety, NoIntent, NoContract, HeldMoneyKeepsContract, EscrowIsPaid,
         ExecutionIsFunded, AnsweredIsHeld
<1>3. ASSUME NEW r \in Requests PROVE RequestOK(pc[r], loc[r])
  BY DEF Init, Nothing, RequestOK, ContractAwaits, HookAwaits
<1>4. QED
  BY <1>1, <1>2, <1>3 DEF IInv

LEMMA UnchangedIInv == IInv /\ UNCHANGED vars => IInv'
  BY DEF IInv, vars, TypeOK, RowsOK, Safety, HeldMoneyKeepsContract, EscrowIsPaid, Paid, Intent,
         ExecutionIsFunded, AnsweredIsHeld, RequestOK

LEMMA RequestStepIInv ==
  ASSUME IInv, NEW r \in Requests, RequestStep(r)
  PROVE  IInv'
<1>1. CASE ProjectStep(r)
  BY <1>1, RequestStatusKeepsIInv, SaveStatusKeepsIInv DEF ProjectStep
<1>2. CASE ContractStep(r)
  BY <1>2, RequestContractKeepsIInv, RequestSignKeepsIInv, ReassignKeepsIInv, ReplaceKeepsIInv,
     SignKeepsIInv DEF ContractStep
<1>3. CASE PaymentStep(r)
  BY <1>3, RequestEscrowKeepsIInv, RetrieveIntentKeepsIInv, StoreIntentKeepsIInv,
     ActivateEscrowKeepsIInv, HealFailsKeepsIInv, CreateIntentKeepsIInv,
     DeliverSucceededKeepsIInv DEF PaymentStep
<1>4. CASE AdvanceStep(r)
  BY <1>4, AdvanceReadKeepsIInv, AdvanceLookupKeepsIInv, AdvancePayKeepsIInv,
     AdvanceStartKeepsIInv, AdvancePhaseKeepsIInv DEF AdvanceStep
<1>5. CASE PhaseStep(r)
  BY <1>5, RequestPhaseKeepsIInv, SavePhaseKeepsIInv, CloseReadProjectKeepsIInv,
     SaveStatusKeepsIInv DEF PhaseStep
<1>6. CASE Fail(r)
  BY <1>6, FailKeepsIInv
<1>7. QED
  BY <1>1, <1>2, <1>3, <1>4, <1>5, <1>6 DEF RequestStep

LEMMA NextIInv == IInv /\ [Next]_vars => IInv'
<1> SUFFICES ASSUME IInv, [Next]_vars PROVE IInv'
  OBVIOUS
<1>1. ASSUME NEW r \in Requests, RequestStep(r) PROVE IInv'
  BY <1>1, RequestStepIInv
<1>2. ASSUME NEW p \in IntentIds, SettleIntent(p) PROVE IInv'
  BY <1>2, SettleIntentKeepsIInv
<1>3. ASSUME NEW ph \in PhaseIds, AddPhase(ph) PROVE IInv'
  BY <1>3, AddPhaseKeepsIInv
<1>4. ASSUME NEW w \in Workers, DeleteWorker(w) PROVE IInv'
  BY <1>4, DeleteWorkerKeepsIInv
<1>5. CASE UNCHANGED vars
  BY <1>5, UnchangedIInv
<1>6. QED
  BY <1>1, <1>2, <1>3, <1>4, <1>5 DEF Next

-----------------------------------------------------------------------------
(* The theorems.                                                           *)

\* The rows and the requests in flight satisfy the inductive invariant.
THEOREM InvariantHolds == Spec => []IInv
<1>1. QED
  BY InitIInv, NextIInv, PTL DEF Spec

\* Rows and pending requests keep the shape the schema gives them.
THEOREM TypeCorrect == Spec => []TypeOK
<1>1. IInv => TypeOK
  BY DEF IInv
<1>2. QED
  BY <1>1, InvariantHolds, PTL

\* No replacement of a contract decided before the payment cuts held money off
\* (ContractsService.create against PaymentsService.activateEscrow).
THEOREM MoneyKeepsContract == Spec => []HeldMoneyKeepsContract
<1>1. IInv => HeldMoneyKeepsContract
  BY DEF IInv, Safety
<1>2. QED
  BY <1>1, InvariantHolds, PTL

\* No path through createEscrow's self-heal or the webhook makes an EscrowTxn
\* without a succeeded PaymentIntent of that contract.
THEOREM EscrowMeansPaid == Spec => []EscrowIsPaid
<1>1. IInv => EscrowIsPaid
  BY DEF IInv, Safety
<1>2. QED
  BY <1>1, InvariantHolds, PTL

\* A project in escrow or in execution has its money held (advanceProjectAfterEscrow,
\* ContractsService.create), short of manual overrides and deleted workers.
THEOREM WorkIsFunded == Spec => []ExecutionIsFunded
<1>1. IInv => ExecutionIsFunded
  BY DEF IInv, Safety
<1>2. QED
  BY <1>1, InvariantHolds, PTL

\* The webhook controller answers a payment only when it is held or moot.
THEOREM AnswerMeansHeld == Spec => []AnsweredIsHeld
<1>1. IInv => AnsweredIsHeld
  BY DEF IInv, Safety
<1>2. QED
  BY <1>1, InvariantHolds, PTL

\* The handlers that write the status.
LEMMA StatusWriters ==
  ASSUME IInv, [Next]_vars, status' # status
  PROVE  \E r \in Requests : \/ SaveStatus(r) \/ CloseSave(r) \/ Reassign(r) \/ Replace(r)
                             \/ AdvancePay(r) \/ AdvanceStart(r)
  BY DEF Next, vars, RequestStep, ProjectStep, ContractStep, PaymentStep, AdvanceStep, PhaseStep,
         Fail, RequestStatus, RequestManualAdvance, RequestContract, RequestSign, Sign,
         RequestEscrow, RetrieveIntent, StoreIntent, ActivateEscrow, HealFails, CreateIntent,
         DeliverSucceeded, AdvanceRead, AdvanceLookup, AdvancePhase, RequestPhase,
         RequestReview, SavePhase, CloseReadPhases, CloseReadProject, SettleIntent, AddPhase,
         DeleteWorker

\* Of every step: it leaves the status, moves it legally, or is the write of a
\* request that decided on a status that has changed since.
LEMMA StatusWrites ==
  ASSUME IInv, [Next]_vars, status' # status
  PROVE  \/ <<status, status'>> \in LegalStatusSteps
         \/ \E r \in Requests : pc'[r] # pc[r] /\ loc[r].from # status
<1>1. PICK r \in Requests : \/ SaveStatus(r) \/ CloseSave(r) \/ Reassign(r) \/ Replace(r)
                           \/ AdvancePay(r) \/ AdvanceStart(r)
  BY StatusWriters
<1>2. pc'[r] # pc[r]
  BY <1>1 DEF SaveStatus, CloseSave, Reassign, Replace, AdvancePay, AdvanceStart, Return, GoTo,
              Continue, AdvanceFrom, IInv, TypeOK
<1>3. <<loc[r].from, status'>> \in LegalStatusSteps
  <2>1. status \in Statuses /\ loc[r].from \in Statuses /\ RequestOK(pc[r], loc[r])
    BY DEF IInv, TypeOK, Memory
  <2>2. CASE SaveStatus(r)
    BY <2>1, <2>2 DEF SaveStatus, RequestOK
  <2>3. CASE CloseSave(r)
    BY <2>1, <2>3 DEF CloseSave, RequestOK, LegalStatusSteps
  <2>4. CASE Reassign(r) \/ Replace(r)
    BY <2>4 DEF Reassign, Replace, LegalStatusSteps
  <2>5. CASE AdvancePay(r)
    BY <2>1, <2>5 DEF AdvancePay, RequestOK, LegalStatusSteps, Machine
  <2>6. CASE AdvanceStart(r)
    BY <2>1, <2>6 DEF AdvanceStart, RequestOK, LegalStatusSteps, Machine
  <2>7. QED
    BY <1>1, <2>2, <2>3, <2>4, <2>5, <2>6
<1>4. QED
  BY <1>2, <1>3

\* The status of a project leaves its machine only through a stale write.
THEOREM StatusFollowsMachine == Spec => IllegalStatusWritesAreStale
<1>1. ASSUME IInv, [Next]_vars
      PROVE  [ status' # status =>
                 \/ <<status, status'>> \in LegalStatusSteps
                 \/ \E r \in Requests : pc'[r] # pc[r] /\ loc[r].from # status ]_vars
  BY <1>1, StatusWrites
<1>2. QED
  BY <1>1, InvariantHolds, PTL DEF Spec, IllegalStatusWritesAreStale
\* Of every step that leaves the status alone: only a cut closer leaves a finished
\* project open, because the request that completes the last phase is a closer and
\* a closer that runs on closes.
LEMMA ClosersClose ==
  ASSUME IInv, [Next]_vars, ~LeftOpen, LeftOpen', status' = status
  PROVE  \E r \in Requests : Closing(r) /\ Fail(r)
<1> USE DEF IInv, TypeOK
<1>1. Finished' /\ status \notin {"closing", "closed"} /\ \A r \in Requests : ~Closing(r)'
  BY DEF LeftOpen
<1>2. CASE \E r \in Requests : Closing(r)
  <2>1. PICK r \in Requests : Closing(r)
    BY <1>2
  <2>2. pc'[r] # pc[r]
    BY <1>1, <2>1 DEF Closing
  <2>3. CloseReadPhases(r) \/ CloseReadProject(r) \/ CloseSave(r) \/ Fail(r)
    <3>1. PICK q \in Requests : RequestStep(q)
      BY <2>2 DEF Next, vars, SettleIntent, AddPhase, DeleteWorker
    <3>2. \A at, l : \A x \in Requests : GoTo(x, at, l) /\ x # r => pc'[r] = pc[r]
      BY DEF GoTo
    <3>3. \A x \in Requests : Return(x) /\ x # r => pc'[r] = pc[r]
      BY <3>2 DEF Return
    <3>4. \A at, l : \A x \in Requests : Continue(x, at, l) /\ x # r => pc'[r] = pc[r]
      BY <3>2, <3>3 DEF Continue
    <3>5. CASE ProjectStep(q)
      BY <2>1, <2>2, <3>2, <3>3, <3>5 DEF Closing, ProjectStep, RequestStatus,
         RequestManualAdvance, SaveStatus
    <3>6. CASE ContractStep(q)
      BY <2>1, <2>2, <3>2, <3>3, <3>6 DEF Closing, ContractStep, RequestContract,
         RequestSign, Reassign, Replace, Sign
    <3>7. CASE PaymentStep(q)
      BY <2>1, <2>2, <3>2, <3>3, <3>7 DEF Closing, PaymentStep, RequestEscrow, RetrieveIntent,
         StoreIntent, ActivateEscrow, HealFails, CreateIntent, DeliverSucceeded
    <3>8. CASE AdvanceStep(q)
      BY <2>1, <2>2, <3>3, <3>4, <3>8 DEF Closing, AdvanceStep, AdvanceRead, AdvanceLookup,
         AdvancePay, AdvanceStart, AdvancePhase
    <3>9. CASE PhaseStep(q)
      BY <2>1, <2>2, <3>2, <3>3, <3>4, <3>9 DEF Closing, PhaseStep, RequestPhase,
         RequestReview, SavePhase, CloseReadPhases, CloseReadProject, CloseSave
    <3>10. CASE Fail(q)
      BY <2>2, <3>2, <3>10 DEF Fail
    <3>11. QED
      BY <3>1, <3>5, <3>6, <3>7, <3>8, <3>9, <3>10 DEF RequestStep
  <2>4. ~CloseReadPhases(r)
    <3> SUFFICES ASSUME CloseReadPhases(r) PROVE FALSE
      OBVIOUS
    <3>1. phases' = phases
      BY DEF CloseReadPhases
    <3>2. HasPhases /\ AllCompleted
      BY <1>1, <3>1 DEF Finished, HasPhases, AllCompleted, Exists
    <3>3. GoTo(r, "close.project", Nothing)
      BY <3>2 DEF CloseReadPhases, Continue
    <3>4. QED
      BY <1>1, <3>3 DEF GoTo, Closing
  <2>5. ~CloseReadProject(r)
    <3> SUFFICES ASSUME CloseReadProject(r) PROVE FALSE
      OBVIOUS
    <3>1. GoTo(r, "close.save", [Nothing EXCEPT !.from = status])
      BY <1>1 DEF CloseReadProject, Continue
    <3>2. QED
      BY <1>1, <3>1 DEF GoTo, Closing
  <2>6. ~CloseSave(r)
    BY <1>1 DEF CloseSave
  <2>7. QED
    BY <2>1, <2>3, <2>4, <2>5, <2>6
<1>3. CASE \A r \in Requests : ~Closing(r)
  <2>1. ~Finished
    BY <1>1, <1>3 DEF LeftOpen
  <2>2. phases' # phases
    BY <1>1, <2>1 DEF Finished, HasPhases, AllCompleted, Exists
  <2>3. \A ph \in PhaseIds : phases'[ph] \in {"none", "completed"}
    BY <1>1 DEF Finished, AllCompleted
  <2>4. \/ \E r \in Requests : SavePhase(r) \/ AdvancePhase(r)
        \/ \E ph \in PhaseIds : AddPhase(ph)
    BY <2>2 DEF Next, vars, RequestStep, ProjectStep, ContractStep, PaymentStep, AdvanceStep,
       PhaseStep, Fail, RequestStatus, RequestManualAdvance, SaveStatus, RequestContract,
       RequestSign, Reassign, Replace, Sign, RequestEscrow, RetrieveIntent, StoreIntent,
       ActivateEscrow, HealFails, CreateIntent, DeliverSucceeded, AdvanceRead, AdvanceLookup,
       AdvancePay, AdvanceStart, RequestPhase, RequestReview, CloseReadPhases,
       CloseReadProject, CloseSave, SettleIntent, DeleteWorker
  <2>5. ASSUME NEW ph \in PhaseIds PROVE ~AddPhase(ph)
    BY <2>3 DEF AddPhase
  <2>6. ASSUME NEW r \in Requests PROVE ~AdvancePhase(r)
    <3> SUFFICES ASSUME AdvancePhase(r) PROVE FALSE
      OBVIOUS
    <3>1. phases' = [phases EXCEPT ![loc[r].phase] = "in_progress"]
      BY DEF AdvancePhase
    <3>2. loc[r].phase \in PhaseIds
      BY <2>2, <3>1
    <3>3. QED
      BY <2>3, <3>1, <3>2
  <2>7. ASSUME NEW r \in Requests PROVE ~SavePhase(r)
    <3> SUFFICES ASSUME SavePhase(r) PROVE FALSE
      OBVIOUS
    <3>1. phases' = [phases EXCEPT ![loc[r].phase] = loc[r].phaseTo]
      BY DEF SavePhase
    <3>2. loc[r].phase \in PhaseIds
      BY <2>2, <3>1
    <3>3. phases'[loc[r].phase] = loc[r].phaseTo /\ loc[r].phaseTo \in PhaseStatuses
      BY <3>1, <3>2 DEF Memory
    <3>4. loc[r].phaseTo = "completed"
      BY <2>3, <3>2, <3>3 DEF PhaseStatuses
    <3>5. GoTo(r, "close.phases", Nothing)
      BY <3>4 DEF SavePhase, Continue
    <3>6. QED
      BY <1>1, <3>5 DEF GoTo, Closing
  <2>8. QED
    BY <2>4, <2>5, <2>6, <2>7
<1>4. QED
  BY <1>2, <1>3

\* A write of the status that is not stale never leaves a finished project open: the
\* machine leads from closing and closed nowhere but to closed, and no write of a
\* status but the closer's own ends a closer.
LEMMA LegalWritesClose ==
  ASSUME IInv, [Next]_vars, ~LeftOpen, LeftOpen', status' # status
  PROVE  \E r \in Requests : pc'[r] # pc[r] /\ loc[r].from # status
<1>1. Finished' /\ status' \notin {"closing", "closed"} /\ \A r \in Requests : ~Closing(r)'
  BY DEF LeftOpen
<1>2. PICK r \in Requests : \/ SaveStatus(r) \/ Reassign(r) \/ Replace(r)
                           \/ AdvancePay(r) \/ AdvanceStart(r)
  <2>1. \A r \in Requests : ~CloseSave(r)
    BY <1>1 DEF CloseSave
  <2>2. QED
    BY <2>1, StatusWriters
<1>3. Finished
  <2>1. phases' = phases
    BY <1>2 DEF SaveStatus, Reassign, Replace, AdvancePay, AdvanceStart
  <2>2. QED
    BY <1>1, <2>1 DEF Finished, HasPhases, AllCompleted, Exists
<1>4. \A q \in Requests : ~Closing(q)
  <2>1. ~Closing(r)
    BY <1>2 DEF Closing, SaveStatus, Reassign, Replace, AdvancePay, AdvanceStart
  <2>2. \A q \in Requests \ {r} : pc'[q] = pc[q]
    BY <1>2 DEF SaveStatus, Reassign, Replace, AdvancePay, AdvanceStart, Return, GoTo,
       Continue, IInv, TypeOK
  <2>3. QED
    BY <1>1, <2>1, <2>2 DEF Closing
<1>5. status \in {"closing", "closed"}
  BY <1>3, <1>4 DEF LeftOpen
<1>6. <<status, status'>> \notin LegalStatusSteps
  BY <1>1, <1>5 DEF LegalStatusSteps, Machine
<1>7. QED
  BY <1>6, StatusWrites

\* A finished project stays open only after a cut request or a stale status write
\* (maybeAdvanceProjectToClosing).
THEOREM FinishedProjectsClose == Spec => FinishedClosesUnlessCut
<1>1. ASSUME IInv, [Next]_vars
      PROVE  [ ~LeftOpen /\ LeftOpen' =>
                 \/ \E r \in Requests : Closing(r) /\ Fail(r)
                 \/ status' # status /\ \E r \in Requests : pc'[r] # pc[r] /\ loc[r].from # status ]_vars
  BY <1>1, ClosersClose, LegalWritesClose
<1>2. QED
  BY <1>1, InvariantHolds, PTL DEF Spec, FinishedClosesUnlessCut
=============================================================================
