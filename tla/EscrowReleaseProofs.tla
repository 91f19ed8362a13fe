------------------------ MODULE EscrowReleaseProofs ------------------------
(***************************************************************************)
(* Proofs about EscrowRelease, for any number of overlapping releases, any *)
(* workers and any amounts.                                                *)
(*                                                                         *)
(* The inductive invariant says what a request knows once Stripe has       *)
(* accepted its transfer: the transfer that exists is the one it asked     *)
(* for, and stays so.  From there on the ledger can only credit the payee. *)
(***************************************************************************)
EXTENDS EscrowRelease, TLAPS

\* What a request standing at an await has already established.
RequestInv ==
  \A r \in Requests :
    /\ pc[r] \in {"transfer", "record", "mark"} => loc[r] \in Workers
    /\ pc[r] \in {"record", "mark"} => transfer.to = loc[r]
    /\ pc[r] = "mark" => rows[loc[r]].count > 0

\* The transfer Stripe holds is none, or the worker's share to a worker.
TransferInv ==
  \/ transfer = NoTransfer
  \/ transfer.to \in Workers /\ transfer.cents = WorkerCents(total)

\* Every row in the ledger carries the two shares of this escrow.
RowsInv ==
  \A w \in Workers :
    rows[w].count > 0 => /\ rows[w].worker = WorkerCents(total)
                         /\ rows[w].platform = PlatformCents(total)

IInv == /\ TypeOK /\ RequestInv /\ TransferInv /\ RowsInv
        /\ LedgerNamesPayee /\ ReleasedIsPaidAndRecorded

-----------------------------------------------------------------------------
\* The worker's share of any amount is a whole number of cents, at most seven
\* tenths of it and less than two cents below (stripe.service.ts, totalCents * 0.7).
LEMMA WorkerCentsBounds ==
  ASSUME NEW amount \in Nat
  PROVE  /\ WorkerCents(amount) \in Int
         /\ 10 * WorkerCents(amount) <= 7 * amount
         /\ 7 * amount < 10 * WorkerCents(amount) + 20
<1> DEFINE floor == (7 * amount) \div 10
<1>1. floor \in Int /\ 10 * floor <= 7 * amount /\ 7 * amount < 10 * floor + 10
  OBVIOUS
<1>2. WorkerCents(amount) = floor \/ WorkerCents(amount) = floor - 1
  BY DEF WorkerCents
<1> HIDE DEF floor
<1>3. QED
  BY <1>1, <1>2

\* Stripe's answer is the transfer that was asked for, whether new or repeated.
LEMMA TransferStep ==
  ASSUME IInv, NEW r \in Requests,
         pc[r] = "transfer", StripeAccepts(loc[r]),
         transfer' = [to |-> loc[r], cents |-> WorkerCents(total)]
  PROVE  /\ transfer'.to = loc[r] /\ loc[r] \in Workers
         /\ transfer # NoTransfer => transfer' = transfer
         /\ transfer' \in [to : Workers \cup {NoWorker}, cents : Int]
<1>1. loc[r] \in Workers
  BY DEF IInv, RequestInv
<1>2. WorkerCents(total) \in Int
  BY WorkerCentsBounds, ReleaseAssumption DEF IInv, TypeOK
<1>3. ASSUME transfer # NoTransfer PROVE transfer' = transfer
  BY <1>3 DEF IInv, TransferInv, TypeOK, StripeAccepts
<1>4. QED
  BY <1>1, <1>2, <1>3

-----------------------------------------------------------------------------
LEMMA InitIInv == Init => IInv
<1> SUFFICES ASSUME Init PROVE IInv
  OBVIOUS
<1>1. TypeOK
  <2>1. [count |-> 0, worker |-> 0, platform |-> 0] \in Row
    BY ReleaseAssumption DEF Row
  <2>2. rows \in [Workers -> Row]
    BY <2>1 DEF Init
  <2>3. transfer \in [to : Workers \cup {NoWorker}, cents : Int]
    BY DEF Init, NoTransfer
  <2>4. QED
    BY <2>2, <2>3 DEF Init, TypeOK
<1>2. RequestInv /\ TransferInv /\ RowsInv /\ LedgerNamesPayee /\ ReleasedIsPaidAndRecorded
  BY DEF Init, RequestInv, TransferInv, RowsInv, LedgerNamesPayee, ReleasedIsPaidAndRecorded
<1>3. QED
  BY <1>1, <1>2 DEF IInv

\* The two outcomes of the transfer call differ only in where the request goes.
LEMMA TransferKeepsIInv ==
  ASSUME IInv, NEW r \in Requests, CreateTransfer(r) \/ LoseAnswer(r)
  PROVE  IInv'
<1> USE DEF IInv
<1>1. /\ pc[r] = "transfer" /\ StripeAccepts(loc[r])
      /\ transfer' = [to |-> loc[r], cents |-> WorkerCents(total)]
      /\ UNCHANGED <<total, worker, connected, charged, released, rows>>
      /\ \E at \in {"idle", "record"} : pc' = [pc EXCEPT ![r] = at]
      /\ \/ loc' = [loc EXCEPT ![r] = loc[r]]
         \/ pc'[r] = "idle" /\ loc' = [loc EXCEPT ![r] = NoWorker]
  BY DEF CreateTransfer, LoseAnswer, GoTo, TypeOK
<1>2. /\ transfer'.to = loc[r] /\ loc[r] \in Workers
      /\ transfer # NoTransfer => transfer' = transfer
      /\ transfer' \in [to : Workers \cup {NoWorker}, cents : Int]
  BY <1>1, TransferStep
<1>3. TypeOK'
  BY <1>1, <1>2 DEF TypeOK
<1>4. \A w \in Workers : transfer.to = w => transfer'.to = w
  BY <1>2, ReleaseAssumption DEF NoTransfer
<1>5. RequestInv'
  <2> SUFFICES ASSUME NEW q \in Requests
               PROVE /\ pc'[q] \in {"transfer", "record", "mark"} => loc'[q] \in Workers
                     /\ pc'[q] \in {"record", "mark"} => transfer'.to = loc'[q]
                     /\ pc'[q] = "mark" => rows'[loc'[q]].count > 0
    BY DEF RequestInv
  <2>1. CASE q = r
    BY <2>1, <1>1, <1>2 DEF TypeOK
  <2>2. CASE q # r
    BY <2>2, <1>1, <1>4 DEF RequestInv, TypeOK
  <2>3. QED
    BY <2>1, <2>2
<1>6. TransferInv'
  BY <1>1, <1>2 DEF TransferInv
<1>7. RowsInv'
  BY <1>1 DEF RowsInv
<1>8. LedgerNamesPayee' /\ ReleasedIsPaidAndRecorded'
  BY <1>1, <1>4 DEF LedgerNamesPayee, ReleasedIsPaidAndRecorded
<1>9. QED
  BY <1>3, <1>5, <1>6, <1>7, <1>8

LEMMA RecordKeepsIInv ==
  ASSUME IInv, NEW r \in Requests, RecordPayments(r)
  PROVE  IInv'
<1> USE DEF IInv
<1>1. loc[r] \in Workers /\ transfer.to = loc[r]
  BY DEF RecordPayments, RequestInv
<1>2. WorkerCents(total) \in Int /\ PlatformCents(total) \in Int
  BY WorkerCentsBounds, ReleaseAssumption DEF TypeOK, PlatformCents
<1>3. /\ rows' \in [Workers -> Row]
      /\ rows'[loc[r]] = [count |-> rows[loc[r]].count + 1, worker |-> WorkerCents(total),
                          platform |-> PlatformCents(total)]
      /\ \A w \in Workers : w # loc[r] => rows'[w] = rows[w]
      /\ rows'[loc[r]].count > 0
  <2>1. rows[loc[r]].count \in 0..MaxReleases /\ rows[loc[r]].count < MaxReleases
    BY <1>1 DEF RecordPayments, TypeOK, Row
  <2>2. QED
    BY <2>1, <1>1, <1>2, ReleaseAssumption DEF RecordPayments, TypeOK, Row
<1>4. TypeOK'
  BY <1>1, <1>3 DEF TypeOK, RecordPayments, GoTo
<1>5. RequestInv'
  BY <1>1, <1>3 DEF RequestInv, RecordPayments, GoTo, TypeOK
<1>6. TransferInv' /\ RowsInv'
  BY <1>3 DEF TransferInv, RowsInv, RecordPayments, WorkerCents, PlatformCents
<1>7. LedgerNamesPayee' /\ ReleasedIsPaidAndRecorded'
  BY <1>1, <1>3 DEF LedgerNamesPayee, ReleasedIsPaidAndRecorded, RecordPayments
<1>8. QED
  BY <1>4, <1>5, <1>6, <1>7

LEMMA NextIInv == IInv /\ [Next]_vars => IInv'
<1> SUFFICES ASSUME IInv, [Next]_vars PROVE IInv'
  OBVIOUS
<1> USE DEF IInv
<1>1. ASSUME NEW r \in Requests, CheckHeld(r) \/ ReadEscrow(r) \/ Fail(r)
      PROVE  IInv'
  <2>1. TypeOK'
    BY <1>1 DEF CheckHeld, ReadEscrow, Fail, GoTo, TypeOK
  <2>2. RequestInv'
    BY <1>1 DEF CheckHeld, ReadEscrow, Fail, GoTo, TypeOK, RequestInv
  <2>3. TransferInv' /\ RowsInv' /\ LedgerNamesPayee' /\ ReleasedIsPaidAndRecorded'
    BY <1>1 DEF CheckHeld, ReadEscrow, Fail, TransferInv, RowsInv, LedgerNamesPayee,
                ReleasedIsPaidAndRecorded
  <2>4. QED
    BY <2>1, <2>2, <2>3
<1>2. ASSUME NEW r \in Requests, MarkReleased(r)
      PROVE  IInv'
  <2>1. TypeOK' /\ RequestInv'
    BY <1>2 DEF MarkReleased, GoTo, TypeOK, RequestInv
  <2>2. TransferInv' /\ RowsInv' /\ LedgerNamesPayee'
    BY <1>2 DEF MarkReleased, TransferInv, RowsInv, LedgerNamesPayee
  <2>3. ReleasedIsPaidAndRecorded'
    BY <1>2 DEF MarkReleased, RequestInv, ReleasedIsPaidAndRecorded
  <2>4. QED
    BY <2>1, <2>2, <2>3
<1>3. ASSUME NEW w \in Workers, Reassign(w) \/ Connect(w)
      PROVE  IInv'
  BY <1>3 DEF Reassign, Connect, TypeOK, RequestInv, TransferInv, RowsInv,
              LedgerNamesPayee, ReleasedIsPaidAndRecorded
<1>4. CASE AddCharge
  BY <1>4 DEF AddCharge, TypeOK, RequestInv, TransferInv, RowsInv,
              LedgerNamesPayee, ReleasedIsPaidAndRecorded
<1>5. CASE UNCHANGED vars
  BY <1>5 DEF vars, TypeOK, RequestInv, TransferInv, RowsInv,
              LedgerNamesPayee, ReleasedIsPaidAndRecorded
<1>6. QED
  BY <1>1, <1>2, <1>3, <1>4, <1>5, TransferKeepsIInv, RecordKeepsIInv DEF Next

\* The strengthened invariant holds of every reachable state.
THEOREM InvariantHolds == Spec => []IInv
<1>1. Init => IInv
  BY InitIInv
<1>2. IInv /\ [Next]_vars => IInv'
  BY NextIInv
<1>3. QED
  BY <1>1, <1>2, PTL DEF Spec

\* Rows and requests keep their shape.
THEOREM TypeCorrect == Spec => []TypeOK
<1>1. IInv => TypeOK
  BY DEF IInv
<1>2. QED
  BY <1>1, InvariantHolds, PTL

\* releaseEscrow credits in the ledger only the worker Stripe paid.
THEOREM LedgerCreditsPayee == Spec => []LedgerNamesPayee
<1>1. IInv => LedgerNamesPayee
  BY DEF IInv
<1>2. QED
  BY <1>1, InvariantHolds, PTL

\* releaseEscrow marks an escrow released only when it is paid and recorded.
THEOREM ReleasedMeansPaid == Spec => []ReleasedIsPaidAndRecorded
<1>1. IInv => ReleasedIsPaidAndRecorded
  BY DEF IInv
<1>2. QED
  BY <1>1, InvariantHolds, PTL

\* The two rows of a release share out the escrow to the cent, for every amount.
THEOREM SplitSharesEscrow == Spec => []SplitIsSound
<1>1. IInv => SplitIsSound
  <2> SUFFICES ASSUME IInv, NEW w \in Workers, rows[w].count > 0
               PROVE /\ rows[w].worker = transfer.cents
                     /\ rows[w].worker + rows[w].platform = total
                     /\ 10 * rows[w].worker <= 7 * total
                     /\ 7 * total < 10 * rows[w].worker + 20
    BY DEF SplitIsSound
  <2>1. rows[w].worker = WorkerCents(total) /\ rows[w].platform = total - WorkerCents(total)
    BY DEF IInv, RowsInv, PlatformCents
  <2>2. transfer.cents = WorkerCents(total)
    BY ReleaseAssumption DEF IInv, LedgerNamesPayee, TransferInv, NoTransfer
  <2>3. total \in Nat
    BY ReleaseAssumption DEF IInv, TypeOK
  <2>4. /\ WorkerCents(total) \in Int
        /\ 10 * WorkerCents(total) <= 7 * total
        /\ 7 * total < 10 * WorkerCents(total) + 20
    BY <2>3, WorkerCentsBounds
  <2>5. QED
    BY <2>1, <2>2, <2>3, <2>4
<1>2. QED
  BY <1>1, InvariantHolds, PTL

-----------------------------------------------------------------------------
\* Every step of a release is a step of PayOnce or changes nothing it sees.
LEMMA StepRefines ==
  IInv /\ [Next]_vars => [Abstract!Next]_<<transfer.to, released>>
<1> SUFFICES ASSUME IInv, [Next]_vars
             PROVE [Abstract!Next]_<<transfer.to, released>>
  OBVIOUS
<1>1. ASSUME NEW r \in Requests, CreateTransfer(r) \/ LoseAnswer(r)
      PROVE  [Abstract!Next]_<<transfer.to, released>>
  <2>1. /\ transfer'.to = loc[r] /\ loc[r] \in Workers
        /\ transfer # NoTransfer => transfer' = transfer
        /\ UNCHANGED released
    BY <1>1, TransferStep DEF CreateTransfer, LoseAnswer
  <2>2. CASE transfer # NoTransfer
    BY <2>1, <2>2
  <2>3. CASE transfer = NoTransfer
    BY <2>1, <2>3 DEF NoTransfer, Abstract!Next, Abstract!Pay
  <2>4. QED
    BY <2>2, <2>3
<1>2. ASSUME NEW r \in Requests, MarkReleased(r)
      PROVE  [Abstract!Next]_<<transfer.to, released>>
  BY <1>2, ReleaseAssumption
  DEF MarkReleased, IInv, RequestInv, Abstract!Next, Abstract!Close
<1>3. ASSUME NEW r \in Requests,
             CheckHeld(r) \/ ReadEscrow(r) \/ RecordPayments(r) \/ Fail(r)
      PROVE  UNCHANGED <<transfer.to, released>>
  BY <1>3 DEF CheckHeld, ReadEscrow, RecordPayments, Fail
<1>4. ASSUME NEW w \in Workers, Reassign(w) \/ Connect(w)
      PROVE  UNCHANGED <<transfer.to, released>>
  BY <1>4 DEF Reassign, Connect
<1>5. CASE AddCharge \/ UNCHANGED vars
  BY <1>5 DEF AddCharge, vars
<1>6. QED
  BY <1>1, <1>2, <1>3, <1>4, <1>5 DEF Next

\* Releasing an escrow implements PayOnce: the share goes out once, to one worker,
\* and the escrow is closed after.
THEOREM ReleaseImplementsPayOnce == Spec => PaysOnce
<1>1. Init => Abstract!Init
  BY DEF Init, NoTransfer, Abstract!Init
<1>2. IInv /\ [Next]_vars => [Abstract!Next]_<<transfer.to, released>>
  BY StepRefines
<1>3. QED
  BY <1>1, <1>2, InvariantHolds, PTL DEF Spec, PaysOnce, Abstract!Spec
=============================================================================
