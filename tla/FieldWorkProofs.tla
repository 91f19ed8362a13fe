--------------------------- MODULE FieldWorkProofs ---------------------------
(***************************************************************************)
(* Numbers, notifications and the timeline, and then the whole: what the   *)
(* runs check of the services around the project is proved for any         *)
(* constants.  FieldWorkSpec is the conjunction of its components'         *)
(* specifications, so each theorem about the whole follows from those      *)
(* about the parts it names.                                               *)
(***************************************************************************)
EXTENDS FieldWork, RecordsProofs, PeopleProofs, SequenceTheorems

-----------------------------------------------------------------------------
(***************************************************************************)
(* Numbers and sums.  The last number is the one that sorts after all      *)
(* others, in whatever order their digits make; it exists because a finite *)
(* set of numbers has a greatest one of either length.  NumbersAreSentOnce *)
(* counts how often a number was sent, until a sent invoice that had it is *)
(* deleted.                                                                *)
(***************************************************************************)

\* Euclid's, of the naturals.
LEMMA Division == ASSUME NEW a \in Nat, NEW n \in Nat \ {0}
  PROVE a \div n \in Nat /\ a = n * (a \div n) + (a % n) /\ a % n \in 0 .. (n-1)
OBVIOUS

\* A greater number has no fewer of the divisor.
LEMMA DivMonotone ==
  ASSUME NEW a \in Nat, NEW b \in Nat, NEW n \in Nat \ {0}, a <= b
  PROVE  a \div n <= b \div n
<1>1. PICK p \in Nat, s \in 0 .. (n - 1) : p = a \div n /\ a = n * p + s
  BY Division
<1>2. PICK q \in Nat, t \in 0 .. (n - 1) : q = b \div n /\ b = n * q + t
  BY Division
<1>3. ASSUME p > q PROVE FALSE
  <2>1. PICK d \in Nat : p = q + 1 + d
    BY <1>3
  <2>2. n * p = n * q + n + n * d
    BY <2>1
  <2>3. n * d \in Nat /\ n * q \in Nat
    OBVIOUS
  <2> QED BY <1>1, <1>2, <2>2, <2>3
<1> QED BY <1>1, <1>2, <1>3

\* The greatest of the numbers in use that fit the padding, or do not.
LEMMA GreatestNumber ==
  ASSUME NEW T \in SUBSET Numbers, T # {}
  PROVE  \E m \in T : \A n \in T : n <= m
<1> DEFINE S == {MaxNumber - n : n \in T}
<1>0. MaxNumber \in Nat
  BY PricingAssumption
<1>a. \A n \in T : n \in Nat /\ n <= MaxNumber
  BY <1>0 DEF Numbers
<1>1. S \subseteq Nat /\ S # {}
  BY <1>0, <1>a
<1>2. PICK k \in S : \A n \in S : k <= n
  BY <1>1, LeastNumber
<1>3. PICK m \in T : k = MaxNumber - m
  BY <1>2
<1>4. ASSUME NEW n \in T PROVE n <= m
  <2>1. MaxNumber - n \in S
    OBVIOUS
  <2>2. MaxNumber - m <= MaxNumber - n
    BY <1>2, <1>3, <2>1
  <2> QED BY <1>0, <1>a, <2>2
<1> QED BY <1>4

\* One number sorts after all the others, whatever their digits.
LEMMA LastSorts ==
  ASSUME NEW T \in SUBSET Numbers, T # {}
  PROVE  \E a \in T : \A b \in T \ {a} : SortsAfter(a, b)
<1>1. PICK P \in Nat : P = Padded
  BY PaddedAssumption
<1>2. \A n \in T : n \in Nat
  BY DEF Numbers
<1> DEFINE S == {n \in T : n < P}
           L == {n \in T : n >= P}
<1>3. \A n \in T : n \in S \/ n \in L
  BY <1>2
<1>4. CASE S = {} \/ L = {}
  <2>1. PICK a \in T : \A b \in T : b <= a
    BY GreatestNumber
  <2>2. ASSUME NEW b \in T \ {a} PROVE SortsAfter(a, b)
    <3>1. (a < P) = (b < P) /\ a > b
      BY <1>2, <1>3, <1>4, <2>1
    <3> QED BY <1>1, <1>2, <3>1 DEF SortsAfter
  <2> QED BY <2>2
<1>5. CASE S # {} /\ L # {}
  <2>1. PICK s \in S : \A b \in S : b <= s
    BY <1>5, GreatestNumber
  <2>2. PICK l \in L : \A b \in L : b <= l
    BY <1>5, GreatestNumber
  <2>3. s \in Nat /\ l \in Nat /\ s < P /\ l >= P /\ s \in T /\ l \in T
    BY <1>2
  <2>4. l \div Base \in Nat
    BY <2>3, PricingAssumption, Division
  <2>5. CASE l \div Base >= s
    <3>1. ASSUME NEW b \in T \ {l} PROVE SortsAfter(l, b)
      <4>1. CASE b \in L
        <5>1. (l < P) = (b < P) /\ l > b
          BY <1>2, <2>2, <2>3, <4>1
        <5> QED BY <1>1, <1>2, <2>3, <5>1 DEF SortsAfter
      <4>2. CASE b \in S
        <5>1. b \in Nat /\ b < P /\ b <= s
          BY <1>2, <2>1, <4>2
        <5>2. l \div Base >= b
          BY <2>3, <2>4, <2>5, <5>1
        <5>3. ~((l < P) = (b < P)) /\ l >= P
          BY <2>3, <5>1
        <5> QED BY <1>1, <5>1, <5>2, <5>3 DEF SortsAfter
      <4> QED BY <1>3, <4>1, <4>2
    <3> QED BY <2>3, <3>1
  <2>6. CASE ~(l \div Base >= s)
    <3>1. ASSUME NEW b \in T \ {s} PROVE SortsAfter(s, b)
      <4>1. CASE b \in S
        <5>1. (s < P) = (b < P) /\ s > b
          BY <1>2, <2>1, <2>3, <4>1
        <5> QED BY <1>1, <1>2, <2>3, <5>1 DEF SortsAfter
      <4>2. CASE b \in L
        <5>1. b \in Nat /\ b >= P /\ b <= l
          BY <1>2, <2>2, <4>2
        <5>2. b \div Base <= l \div Base /\ b \div Base \in Nat
          BY <2>3, <5>1, DivMonotone, Division, PricingAssumption
        <5>3. s > b \div Base
          BY <2>3, <2>4, <2>6, <5>2
        <5>4. ~((s < P) = (b < P)) /\ ~(s >= P)
          BY <2>3, <5>1
        <5> QED BY <1>1, <5>3, <5>4 DEF SortsAfter
      <4> QED BY <1>3, <4>1, <4>2
    <3> QED BY <2>3, <3>1
  <2> QED BY <2>5, <2>6
<1> QED BY <1>4, <1>5

\* The last number is one, or zero.
LEMMA LastIsNumber == ASSUME NEW used \in SUBSET Numbers PROVE LastNumber(used) \in Nat /\ LastNumber(used) <= MaxNumber
<1>1. CASE used = {}
  BY <1>1, PricingAssumption DEF LastNumber
<1>2. CASE used # {}
  <2>1. \E a \in used : \A b \in used \ {a} : SortsAfter(a, b)
    BY <1>2, LastSorts
  <2>2. LastNumber(used) \in used
    BY <1>2, <2>1 DEF LastNumber
  <2>3. MaxNumber \in Nat
    BY PricingAssumption
  <2>4. \A n \in used : n \in Nat /\ n <= MaxNumber
    BY <2>3 DEF Numbers
  <2> QED BY <2>2, <2>4
<1> QED BY <1>1, <1>2

\* While all numbers fit the padding the last one is the greatest.
LEMMA LastIsGreatest ==
  ASSUME NEW used \in SUBSET Numbers, \A i \in used : i < Padded
  PROVE  \A i \in used : i <= LastNumber(used)
<1> SUFFICES ASSUME used # {} PROVE \A i \in used : i <= LastNumber(used)
  OBVIOUS
<1>1. \E a \in used : \A b \in used \ {a} : SortsAfter(a, b)
  BY LastSorts
<1>2. PICK a \in used : a = LastNumber(used) /\ \A b \in used \ {a} : SortsAfter(a, b)
  BY <1>1 DEF LastNumber
<1>3. \A n \in used : n \in Nat
  BY DEF Numbers
<1>4. ASSUME NEW b \in used \ {a} PROVE b <= a
  <2>1. SortsAfter(a, b) /\ (a < Padded) = (b < Padded)
    BY <1>2
  <2>2. a > b
    BY <1>3, <2>1, PaddedAssumption DEF SortsAfter
  <2> QED BY <1>3, <2>2
<1> QED BY <1>2, <1>3, <1>4

\* While all numbers fit the padding the next is free.
LEMMA NextNumberIsFree == PriceTypeOK => NextIsFree
<1> SUFFICES ASSUME PriceTypeOK, \A i \in Used : i < Padded PROVE \A i \in Used : i <= LastNumber(Used)
  BY DEF NextIsFree
<1>1. Used \in SUBSET Numbers
  BY DEF Used
<1> QED BY <1>1, LastIsGreatest

\* The split of a budget adds up, for every total and every number of phases.
LEMMA SplitAddsUp ==
  ASSUME NEW total \in Nat, NEW n \in Nat \ {0}, budget' = [total |-> total, n |-> n, amounts |-> SplitBudget(total, n)]
  PROVE  PhasesAddUp'
<1>1. PICK base \in Nat, rest \in 0 .. (n - 1) : base = total \div n /\ total = n * base + rest
  BY Division
<1>2. PICK p \in Nat : p = n * base
  OBVIOUS
<1>3. base * n = p /\ total = p + rest
  BY <1>1, <1>2
<1>4. PICK split \in [1 .. n -> Int] : /\ split = SplitBudget(total, n)
                                       /\ \A i \in 1 .. n : split[i] = IF i = n THEN base + rest ELSE base
  BY <1>1, <1>3 DEF SplitBudget
<1>5. budget'.amounts = split /\ budget'.n = n /\ budget'.total = total
  BY <1>4
<1>6. split[1] \in {base, base + rest} /\ split[n] = base + rest /\ (n = 1 => split[1] = base + rest)
  BY <1>4
<1>7. n > 1 => split[1] = base /\ \A i \in 1 .. (n - 1) : split[i] = base
  BY <1>4
<1>8. CASE n = 1
  BY <1>2, <1>3, <1>5, <1>6, <1>8 DEF PhasesAddUp
<1>9. CASE n > 1
  <2>1. (n - 1) * base = p - base
    BY <1>2
  <2>2. (n - 1) * base + (base + rest) = total
    BY <1>3, <2>1
  <2> QED BY <1>5, <1>6, <1>7, <1>9, <2>2 DEF PhasesAddUp
<1> QED BY <1>8, <1>9

\* A fee rounded to cents, half a cent up or down, is within half a cent of its percentage.
LEMMA BillIsRounded ==
  ASSUME NEW subtotal \in Nat, NEW percent \in Nat, NEW absorbed \in BOOLEAN,
         NEW fee \in Fee(subtotal, percent), bill' = Bill(subtotal, percent, absorbed, fee)
  PROVE  BillAddsUp'
<1>1. PICK p \in Nat : p = subtotal * percent
  OBVIOUS
<1>2. PICK up \in Nat : up = (p + 5000) \div 10000
  OBVIOUS
<1>3. fee \in Int /\ (fee = up \/ p = 10000 * fee + 5000)
  BY <1>1, <1>2 DEF Fee
<1>4. PICK over \in Nat : p + 5000 = 10000 * up + over /\ over < 10000
  <2>1. (p + 5000) % 10000 \in Nat /\ (p + 5000) % 10000 < 10000
    OBVIOUS
  <2>2. p + 5000 = 10000 * ((p + 5000) \div 10000) + ((p + 5000) % 10000)
    OBVIOUS
  <2> QED BY <1>2, <2>1, <2>2
<1>5. 10000 * fee - p <= 5000 /\ p - 10000 * fee <= 5000
  BY <1>3, <1>4
<1>6. /\ bill'.fee = fee /\ bill'.subtotal = subtotal /\ bill'.percent = percent /\ bill'.absorbed = absorbed
      /\ bill'.total = IF absorbed THEN subtotal ELSE subtotal + fee
  BY DEF Bill
<1>7. /\ 10000 * bill'.fee - bill'.subtotal * bill'.percent = 10000 * fee - p
      /\ bill'.subtotal * bill'.percent - 10000 * bill'.fee = p - 10000 * fee
  BY <1>1, <1>6
<1>8. bill'.total = IF bill'.absorbed THEN bill'.subtotal ELSE bill'.subtotal + bill'.fee
  BY <1>6
<1> QED BY <1>5, <1>7, <1>8 DEF BillAddsUp

\* A number is sent once, from a draft, as long as no sent invoice that had it was deleted.
NumbersAreSentOnce == \A i \in Numbers \ withdrawn : shownTo[i] = IF numbered[i] = "sent" THEN 1 ELSE 0

\* The inductive invariant.
PriceIInv ==
  /\ PriceTypeOK /\ NumbersAreSentOnce
  /\ \A r \in NRequests : ipc[r] # "idle" => iloc[r] \in Numbers
  /\ PhasesAddUp /\ BillAddsUp

\* Nothing is computed and nothing numbered.
LEMMA PriceInitial == PriceInit => PriceIInv
<1> SUFFICES ASSUME PriceInit PROVE PriceIInv
  OBVIOUS
<1>1. PriceTypeOK /\ NumbersAreSentOnce
  BY DEF PriceInit, PriceTypeOK, NumbersAreSentOnce
<1>2. budget.n = 1 /\ budget.total = 0 /\ budget.amounts[1] = 0
  BY DEF PriceInit, NoBudget
<1>3. PhasesAddUp
  BY <1>2 DEF PhasesAddUp
<1>4. BillAddsUp
  BY DEF PriceInit, NoBill, BillAddsUp
<1> QED BY <1>1, <1>3, <1>4 DEF PriceInit, PriceIInv

\* What is computed once is not changed by the numbering.
LEMMA SumsStay ==
  /\ PriceIInv /\ budget' = budget => PhasesAddUp'
  /\ PriceIInv /\ bill' = bill => BillAddsUp'
<1> DEFINE Split(b) == LET first == b.amounts[1]  last == b.amounts[b.n] IN
                       /\ \A i \in 1..(b.n - 1) : b.amounts[i] = first
                       /\ (b.n - 1) * first + last = b.total
                       /\ first <= last /\ last < first + b.n
           Rounded(b) == /\ b.total = IF b.absorbed THEN b.subtotal ELSE b.subtotal + b.fee
                         /\ 10000 * b.fee - b.subtotal * b.percent <= 5000
                         /\ b.subtotal * b.percent - 10000 * b.fee <= 5000
<1>1. (PhasesAddUp <=> Split(budget)) /\ (PhasesAddUp' <=> Split(budget'))
  BY DEF PhasesAddUp
<1>2. (BillAddsUp <=> Rounded(bill)) /\ (BillAddsUp' <=> Rounded(bill'))
  BY DEF BillAddsUp
<1> HIDE DEF Split, Rounded
<1> QED BY <1>1, <1>2 DEF PriceIInv

\* A request goes to another await; the others stay.
LEMMA NumberGoes ==
  ASSUME PriceIInv, NEW r \in NRequests, NEW at \in {"idle", "insert", "delete"},
         NEW i \in Numbers \cup {NoNumber}, NGo(r, at, i)
  PROVE  /\ ipc' \in [NRequests -> {"idle", "insert", "delete"}] /\ iloc' \in [NRequests -> Numbers \cup {NoNumber}]
         /\ ipc'[r] = at /\ iloc'[r] = i
         /\ \A q \in NRequests \ {r} : ipc'[q] = ipc[q] /\ iloc'[q] = iloc[q]
BY DEF PriceIInv, PriceTypeOK, NGo

\* A budget is split, a bill computed, or nothing happens.
LEMMA SumStepKeeps ==
  ASSUME PriceIInv,
         \/ \E total \in Totals, n \in Phases : FromTemplate(total, n)
         \/ \E subtotal \in Totals, percent \in Fees, absorbed \in BOOLEAN : CalculateTotals(subtotal, percent, absorbed)
         \/ UNCHANGED priceVars
  PROVE  PriceIInv'
<1>1. /\ numbered' = numbered /\ shownTo' = shownTo /\ withdrawn' = withdrawn /\ ipc' = ipc /\ iloc' = iloc
  BY DEF FromTemplate, CalculateTotals, priceVars
<1>2. PhasesAddUp' /\ BillAddsUp'
  <2>1. ASSUME NEW total \in Totals, NEW n \in Phases, FromTemplate(total, n) PROVE PhasesAddUp' /\ BillAddsUp'
    <3>1. total \in Nat /\ n \in Nat \ {0}
      BY PricingAssumption
    <3>2. PhasesAddUp'
      BY <2>1, <3>1, SplitAddsUp DEF FromTemplate
    <3>3. BillAddsUp'
      BY <2>1, SumsStay DEF FromTemplate
    <3> QED BY <3>2, <3>3
  <2>2. ASSUME NEW subtotal \in Totals, NEW percent \in Fees, NEW absorbed \in BOOLEAN,
               CalculateTotals(subtotal, percent, absorbed)
        PROVE  PhasesAddUp' /\ BillAddsUp'
    <3>1. subtotal \in Nat /\ percent \in Nat
      BY PricingAssumption
    <3>2. BillAddsUp'
      <4>1. PICK fee \in Fee(subtotal, percent) : bill' = Bill(subtotal, percent, absorbed, fee)
        BY <2>2 DEF CalculateTotals
      <4> QED BY <3>1, <4>1, BillIsRounded
    <3>3. PhasesAddUp'
      BY <2>2, SumsStay DEF CalculateTotals
    <3> QED BY <3>2, <3>3
  <2>3. CASE UNCHANGED priceVars
    BY <2>3, SumsStay DEF priceVars
  <2> QED BY <2>1, <2>2, <2>3
<1>3. PriceTypeOK' /\ NumbersAreSentOnce'
  BY <1>1 DEF PriceIInv, PriceTypeOK, NumbersAreSentOnce
<1> QED BY <1>1, <1>2, <1>3 DEF PriceIInv

\* A request takes the next number, inserts an invoice with it, or reads a draft it is to
\* delete.
LEMMA NumberRequestKeeps ==
  ASSUME PriceIInv, NEW r \in NRequests,
         generateInvoiceNumber(r) \/ InsertInvoice(r) \/ PriceFail(r) \/ \E i \in Numbers : DeleteDraftRead(r, i)
  PROVE  PriceIInv'
<1>1. /\ shownTo' = shownTo /\ withdrawn' = withdrawn /\ budget' = budget /\ bill' = bill
  BY DEF generateInvoiceNumber, InsertInvoice, PriceFail, DeleteDraftRead
<1>2. PICK i \in Numbers \cup {NoNumber} :
        \/ NGo(r, "insert", i) /\ i \in Numbers /\ numbered' = numbered
        \/ NGo(r, "idle", i) /\ (numbered' = numbered \/ InsertInvoice(r))
        \/ NGo(r, "delete", i) /\ i \in Numbers /\ numbered[i] = "draft" /\ numbered' = numbered
  <2>1. CASE generateInvoiceNumber(r)
    <3>1. Used \in SUBSET Numbers
      BY DEF Used
    <3>2. LastNumber(Used) + 1 \in Numbers
      BY <2>1, <3>1, LastIsNumber, PricingAssumption DEF generateInvoiceNumber, Numbers
    <3> QED BY <2>1, <3>2 DEF generateInvoiceNumber
  <2> QED BY <2>1 DEF InsertInvoice, PriceFail, DeleteDraftRead, NDone
<1>3. /\ ipc' \in [NRequests -> {"idle", "insert", "delete"}] /\ iloc' \in [NRequests -> Numbers \cup {NoNumber}]
      /\ iloc'[r] = i /\ ipc'[r] \in {"idle", "insert", "delete"}
      /\ (ipc'[r] # "idle" => i \in Numbers /\ numbered' = numbered) /\ (ipc'[r] = "delete" => numbered[i] = "draft")
      /\ \A q \in NRequests \ {r} : ipc'[q] = ipc[q] /\ iloc'[q] = iloc[q]
  BY <1>2, NumberGoes
<1>4. /\ numbered' \in [Numbers -> {"none", "draft", "sent"}]
      /\ \A j \in Numbers : numbered'[j] = numbered[j] \/ (numbered[j] = "none" /\ numbered'[j] = "draft")
  <2>1. CASE numbered' = numbered
    BY <2>1 DEF PriceIInv, PriceTypeOK
  <2>2. CASE InsertInvoice(r)
    BY <2>2 DEF PriceIInv, PriceTypeOK, InsertInvoice
  <2> QED BY <1>2, <2>1, <2>2
<1>5. PriceTypeOK'
  BY <1>1, <1>3, <1>4 DEF PriceIInv, PriceTypeOK
<1>6. \A q \in NRequests : ipc'[q] # "idle" => iloc'[q] \in Numbers
  BY <1>3 DEF PriceIInv
<1>7. NumbersAreSentOnce'
  BY <1>1, <1>3, <1>4 DEF PriceIInv, NumbersAreSentOnce
<1> QED BY <1>1, <1>5, <1>6, <1>7, SumsStay DEF PriceIInv

\* A draft is sent, and with it its number.
LEMMA SendNumberKeeps ==
  ASSUME PriceIInv, NEW i \in Numbers, SendNumber(i)
  PROVE  PriceIInv'
<1>1. /\ numbered[i] = "draft" /\ numbered' = [numbered EXCEPT ![i] = "sent"]
      /\ shownTo' = [shownTo EXCEPT ![i] = @ + 1] /\ withdrawn' = withdrawn
      /\ budget' = budget /\ bill' = bill /\ ipc' = ipc /\ iloc' = iloc
  BY DEF SendNumber
<1>2. PriceTypeOK'
  BY <1>1 DEF PriceIInv, PriceTypeOK
<1>3. NumbersAreSentOnce'
  BY <1>1 DEF PriceIInv, PriceTypeOK, NumbersAreSentOnce
<1> QED BY <1>1, <1>2, <1>3, SumsStay DEF PriceIInv

\* Rows that go take their numbers along, those of sent ones to the withdrawn.
LEMMA InvoicesGoKeeps ==
  ASSUME PriceIInv, NEW gone \in SUBSET Numbers, NEW ends, InvoicesGo(gone, ends)
  PROVE  PriceIInv'
<1>1. /\ numbered' = [i \in Numbers |-> IF i \in gone THEN "none" ELSE numbered[i]]
      /\ withdrawn' = withdrawn \cup {i \in gone : numbered[i] = "sent"}
      /\ ipc'  = [q \in NRequests |-> IF q \in ends THEN "idle" ELSE ipc[q]]
      /\ iloc' = [q \in NRequests |-> IF q \in ends THEN NoNumber ELSE iloc[q]]
      /\ shownTo' = shownTo /\ budget' = budget /\ bill' = bill
  BY DEF InvoicesGo
<1>2. PriceTypeOK'
  BY <1>1 DEF PriceIInv, PriceTypeOK
<1>3. \A q \in NRequests : ipc'[q] # "idle" => iloc'[q] \in Numbers
  BY <1>1 DEF PriceIInv
<1>4. NumbersAreSentOnce'
  <2> SUFFICES ASSUME NEW i \in Numbers \ withdrawn'
               PROVE  shownTo'[i] = IF numbered'[i] = "sent" THEN 1 ELSE 0
    BY DEF NumbersAreSentOnce
  <2>1. shownTo[i] = IF numbered[i] = "sent" THEN 1 ELSE 0
    BY <1>1 DEF PriceIInv, NumbersAreSentOnce
  <2>2. CASE i \in gone
    BY <1>1, <2>1, <2>2
  <2>3. CASE i \notin gone
    BY <1>1, <2>1, <2>3
  <2> QED BY <2>2, <2>3
<1> QED BY <1>1, <1>2, <1>3, <1>4, SumsStay DEF PriceIInv

\* An invoice that is deleted, or goes with its project, takes its number along.
LEMMA DeleteKeeps ==
  ASSUME PriceIInv, (\E r \in NRequests : DeleteDraft(r)) \/ (\E gone \in SUBSET Used : RemoveWithProject(gone))
  PROVE  PriceIInv'
<1>1. CASE \E r \in NRequests : DeleteDraft(r)
  <2>1. PICK r \in NRequests : DeleteDraft(r)
    BY <1>1
  <2>2. {iloc[r]} \in SUBSET Numbers
    BY <2>1 DEF DeleteDraft, PriceIInv
  <2> QED BY <2>1, <2>2, InvoicesGoKeeps DEF DeleteDraft
<1>2. CASE \E gone \in SUBSET Used : RemoveWithProject(gone)
  <2>1. PICK gone \in SUBSET Used : RemoveWithProject(gone)
    BY <1>2
  <2>2. gone \in SUBSET Numbers
    BY DEF Used
  <2> QED BY <2>1, <2>2, InvoicesGoKeeps DEF RemoveWithProject
<1> QED BY <1>1, <1>2

\* Every step keeps the invariant.
LEMMA PriceStepKeeps == PriceIInv /\ [PriceNext]_priceVars => PriceIInv'
BY SumStepKeeps, NumberRequestKeeps, SendNumberKeeps, DeleteKeeps DEF PriceNext

\* The invariant holds of every behaviour.
LEMMA PricesHold == PriceSpec => []PriceIInv
BY PriceInitial, PriceStepKeeps, PTL DEF PriceSpec

\* The invariant is more than the types and what the figures agree on.
LEMMA PricesFollow == PriceIInv => PriceTypeOK /\ PricesAgree
<1> SUFFICES ASSUME PriceIInv PROVE SentNumberIsUnique
  BY NextNumberIsFree DEF PriceIInv, PricesAgree
<1> QED BY DEF PriceIInv, NumbersAreSentOnce, SentNumberIsUnique

-----------------------------------------------------------------------------
(***************************************************************************)
(* Notifications.  A handler tells groups of accounts, one after the       *)
(* other.  Counted says that an account has been told as often as groups   *)
(* it is in were begun, short of the creation that is still to come, fewer *)
(* only when the handler failed and more only when a creation was          *)
(* repeated.                                                               *)
(***************************************************************************)

\* Groups that were begun, by their number among those meant.
Begun == Len(meant) - Len(groups)
Among(n, s, u) == {g \in 1 .. n : u \in s[g]}
BegunOf(u) == Among(Begun, meant, u)
BeingMade(u) == IF u \in todo THEN 1 ELSE 0

\* A group that was begun has made a notification, or is making it.
Counted(u, n) ==
  /\ ~repeated => n + BeingMade(u) <= Cardinality(BegunOf(u))
  /\ ~failed   => n + BeingMade(u) >= Cardinality(BegunOf(u))

\* Of an event about the contract's worker no other worker is told.
LeadOnly ==
  event \in OfLead /\ ~moved =>
    /\ leadWorker = named
    /\ \A g \in 1 .. Len(meant) : meant[g] \cap NWorkers \subseteq {named}
    /\ todo \cap NWorkers \subseteq {named}
    /\ \A w \in NWorkers : notices[w] > 0 => w = named

\* The inductive invariant.
NoticeIInv ==
  /\ NoticeTypeOK
  /\ client \in NClients \cup NAdmins
  /\ event \in OfLead => named \in NWorkers
  /\ npc = "emitted" => /\ meant = <<>> /\ todo = {} /\ ~failed /\ ~repeated
                        /\ \A u \in NUsers : notices[u] = 0
  /\ npc = "over" => groups = <<>>
  /\ npc = "over" /\ ~failed => todo = {}
  /\ Begun \in Nat
  /\ \A g \in 1 .. Len(groups) : groups[g] = meant[Begun + g]
  /\ \A u \in NUsers : Counted(u, notices[u])
  /\ LeadOnly

\* Every handler tells groups of accounts.
LEMMA ReceiversAreUsers ==
  ASSUME NoticeIInv
  PROVE  Receivers \in Seq(SUBSET NUsers)
<1>1. /\ {client} \in SUBSET NUsers /\ {named} \in SUBSET NUsers /\ TheLead \in SUBSET NUsers
      /\ NAdmins \in SUBSET NUsers /\ NInspectors \in SUBSET NUsers
  BY DEF NoticeIInv, NoticeTypeOK, TheLead, NUsers
<1>2. /\ UserCreated \in Seq(SUBSET NUsers) /\ ProjectCreated \in Seq(SUBSET NUsers)
      /\ PhaseStarted \in Seq(SUBSET NUsers) /\ PhaseEvidenceUploaded \in Seq(SUBSET NUsers)
      /\ PhaseClientCommented \in Seq(SUBSET NUsers) /\ ContractCreated \in Seq(SUBSET NUsers)
      /\ WorkerInvited \in Seq(SUBSET NUsers) /\ WorkerAssignedToProject \in Seq(SUBSET NUsers)
      /\ WorkerRemovedFromProject \in Seq(SUBSET NUsers) /\ WorkerAssigned \in Seq(SUBSET NUsers)
      /\ ContractSigned \in Seq(SUBSET NUsers) /\ EscrowHeld \in Seq(SUBSET NUsers)
      /\ PaymentReleased \in Seq(SUBSET NUsers) /\ PaymentFailed \in Seq(SUBSET NUsers)
      /\ InviteRedeemed \in Seq(SUBSET NUsers) /\ WorkerRated \in Seq(SUBSET NUsers)
      /\ PhaseUnderReview \in Seq(SUBSET NUsers) /\ PhaseValidated \in Seq(SUBSET NUsers)
  BY <1>1 DEF UserCreated, ProjectCreated, PhaseStarted, PhaseEvidenceUploaded, PhaseClientCommented,
     ContractCreated, WorkerInvited, WorkerAssignedToProject, WorkerRemovedFromProject, WorkerAssigned,
     ContractSigned, EscrowHeld, PaymentReleased, PaymentFailed, InviteRedeemed, WorkerRated,
     PhaseUnderReview, PhaseValidated
<1>3. ProjectStatusChanged \in Seq(SUBSET NUsers)
  BY <1>1 DEF ProjectStatusChanged
<1> QED BY <1>2, <1>3 DEF Receivers

\* Of an event about the contract's worker no other worker is told.
LEMMA TheLeadIsTold ==
  ASSUME NoticeIInv, event \in OfLead, leadWorker = named
  PROVE  \A g \in 1 .. Len(Receivers) : Receivers[g] \cap NWorkers \subseteq {named}
<1>1. {client} \cap NWorkers = {} /\ NAdmins \cap NWorkers = {} /\ TheLead \subseteq {named}
  BY NoticesAssumption DEF NoticeIInv, TheLead
<1>2. CASE event = "contract.signed"
  <2>1. Receivers = <<{client}, TheLead, NAdmins>>
    BY <1>2 DEF Receivers, ContractSigned
  <2> QED BY <1>1, <2>1
<1>3. CASE event = "payment.released"
  <2>1. Receivers = <<TheLead, {client}>>
    BY <1>3 DEF Receivers, PaymentReleased
  <2> QED BY <1>1, <2>1
<1>4. CASE event = "phase.validated"
  <2>1. Receivers = <<TheLead>>
    <3>1. PhaseValidated = <<TheLead>>
      BY DEF PhaseValidated
    <3> QED BY <1>4, <3>1 DEF Receivers
  <2> QED BY <1>1, <2>1
<1> QED BY <1>2, <1>3, <1>4 DEF OfLead

\* Groups are counted.
LEMMA AmongIsFinite ==
  ASSUME NEW n \in Nat, NEW s, NEW u
  PROVE  IsFiniteSet(Among(n, s, u)) /\ Cardinality(Among(n, s, u)) \in Nat
<1>0. IsFiniteSet(1 .. n)
  BY FS_Interval
<1>1. IsFiniteSet(1 .. n) /\ Among(n, s, u) \subseteq 1 .. n
  BY <1>0 DEF Among
<1>2. IsFiniteSet(Among(n, s, u))
  BY <1>1, FS_Subset
<1> QED BY <1>2, FS_CardinalityType

\* One more group begun is one more for those who are in it.
LEMMA AmongOneMore ==
  ASSUME NEW n \in Nat, NEW s, NEW u
  PROVE  Cardinality(Among(n + 1, s, u)) = Cardinality(Among(n, s, u)) + (IF u \in s[n + 1] THEN 1 ELSE 0)
<1>1. IsFiniteSet(Among(n, s, u)) /\ Cardinality(Among(n, s, u)) \in Nat
  BY AmongIsFinite
<1>2. CASE u \in s[n + 1]
  <2>1. Among(n + 1, s, u) = Among(n, s, u) \cup {n + 1} /\ n + 1 \notin Among(n, s, u)
    BY <1>2 DEF Among
  <2>2. Cardinality(Among(n, s, u) \cup {n + 1}) = Cardinality(Among(n, s, u)) + 1
    BY <1>1, <2>1, FS_AddElement
  <2> QED BY <1>2, <2>1, <2>2
<1>3. CASE u \notin s[n + 1]
  <2>1. Among(n + 1, s, u) = Among(n, s, u)
    BY <1>3 DEF Among
  <2> QED BY <1>1, <1>3, <2>1
<1> QED BY <1>2, <1>3

\* More groups begun are no fewer of anybody's.
LEMMA AmongMore ==
  ASSUME NEW n \in Nat, NEW m \in Nat, n <= m, NEW s, NEW u
  PROVE  Cardinality(Among(n, s, u)) <= Cardinality(Among(m, s, u))
<1>1. Among(n, s, u) \subseteq Among(m, s, u)
  BY DEF Among
<1>2. IsFiniteSet(Among(m, s, u))
  BY AmongIsFinite
<1> QED BY <1>1, <1>2, FS_Subset

\* The event is emitted and nobody is told yet.
LEMMA NoticeInitial == NoticeInit => NoticeIInv
<1> SUFFICES ASSUME NoticeInit PROVE NoticeIInv
  OBVIOUS
<1>1. Begun = 0 /\ meant = <<>> /\ groups = <<>> /\ Len(meant) = 0
  BY DEF NoticeInit, Begun
<1>2. \A u \in NUsers : BegunOf(u) = {} /\ Cardinality(BegunOf(u)) = 0 /\ BeingMade(u) = 0 /\ notices[u] = 0
  BY <1>1, FS_EmptySet DEF NoticeInit, BegunOf, Among, BeingMade
<1>3. client \in NUsers /\ named \in NUsers /\ leadWorker \in NWorkers \cup {Nobody}
  BY DEF NoticeInit, NUsers
<1>4. groups \in Seq(SUBSET NUsers) /\ meant \in Seq(SUBSET NUsers)
  BY <1>1
<1>5. NoticeTypeOK
  BY <1>3, <1>4 DEF NoticeInit, NoticeTypeOK
<1>6. event \in OfLead => named \in NWorkers /\ leadWorker = named
  BY DEF NoticeInit
<1>7. \A w \in NWorkers : notices[w] = 0
  BY <1>2 DEF NUsers
<1>8. LeadOnly /\ \A u \in NUsers : Counted(u, notices[u])
  BY <1>1, <1>2, <1>6, <1>7 DEF NoticeInit, LeadOnly, Counted
<1> QED BY <1>1, <1>2, <1>5, <1>6, <1>8 DEF NoticeInit, NoticeIInv

\* The receivers are read: no group is begun.
LEMMA ReadReceiversKeeps == ASSUME NoticeIInv, ReadReceivers PROVE NoticeIInv'
<1>1. Receivers \in Seq(SUBSET NUsers)
  BY ReceiversAreUsers
<1>2. PICK rs \in Seq(SUBSET NUsers) : rs = Receivers
  BY <1>1
<1>3. /\ npc = "emitted" /\ npc' = "making" /\ groups' = rs /\ meant' = rs
      /\ client' = client /\ leadWorker' = leadWorker /\ event' = event /\ named' = named
      /\ todo' = todo /\ notices' = notices /\ failed' = failed /\ repeated' = repeated /\ moved' = moved
  BY <1>2 DEF ReadReceivers
<1>4. NoticeTypeOK'
  BY <1>3 DEF NoticeIInv, NoticeTypeOK
<1>5. Begun' = 0 /\ Len(rs) \in Nat
  BY <1>3 DEF Begun
<1>6. \A u \in NUsers : BegunOf(u)' = {} /\ BeingMade(u)' = 0 /\ notices'[u] = 0
  BY <1>3, <1>5 DEF BegunOf, Among, BeingMade, NoticeIInv
<1>7. event \in OfLead /\ ~moved => \A g \in 1 .. Len(rs) : rs[g] \cap NWorkers \subseteq {named}
  BY <1>2, TheLeadIsTold DEF NoticeIInv, LeadOnly
<1>8. \A g \in 1 .. Len(groups') : groups'[g] = meant'[Begun' + g]
  BY <1>3, <1>5
<1>9. LeadOnly'
  BY <1>3, <1>7 DEF NoticeIInv, LeadOnly
<1>10. ASSUME NEW u \in NUsers PROVE Counted(u, notices[u])'
  <2>1. Cardinality({}) = 0
    BY FS_EmptySet
  <2>2. Cardinality(BegunOf(u)') = 0
    BY <1>6, <2>1
  <2> QED BY <1>6, <2>2 DEF Counted
<1>11. (\A u \in NUsers : Counted(u, notices[u]))'
  BY <1>10
<1> QED BY <1>3, <1>4, <1>5, <1>8, <1>9, <1>11 DEF NoticeIInv

\* A group is begun, and a creation for each who is in it.
LEMMA NextGroupKeeps == ASSUME NoticeIInv, NextGroup PROVE NoticeIInv'
<1>1. /\ npc = "making" /\ todo = {} /\ groups # <<>>
      /\ todo' = Head(groups) /\ groups' = Tail(groups)
      /\ client' = client /\ leadWorker' = leadWorker /\ event' = event /\ named' = named /\ npc' = npc
      /\ notices' = notices /\ meant' = meant /\ failed' = failed /\ repeated' = repeated /\ moved' = moved
  BY DEF NextGroup
<1>2. groups \in Seq(SUBSET NUsers) /\ meant \in Seq(SUBSET NUsers)
  BY DEF NoticeIInv, NoticeTypeOK
<1>3. /\ Len(groups) \in Nat \ {0} /\ Len(meant) \in Nat /\ Len(groups') = Len(groups) - 1
      /\ groups' \in Seq(SUBSET NUsers) /\ Head(groups) = groups[1] /\ groups[1] \in SUBSET NUsers
      /\ \A g \in 1 .. Len(groups') : groups'[g] = groups[g + 1]
  BY <1>1, <1>2
<1>4. Begun \in Nat /\ Begun' = Begun + 1 /\ Begun + 1 <= Len(meant)
  BY <1>1, <1>3 DEF Begun, NoticeIInv
<1>5. \A g \in 1 .. Len(groups) : groups[g] = meant[Begun + g]
  BY DEF NoticeIInv
<1>6. todo' = meant[Begun + 1] /\ todo' \subseteq NUsers
  BY <1>1, <1>3, <1>5
<1>7. NoticeTypeOK'
  BY <1>1, <1>3, <1>6 DEF NoticeIInv, NoticeTypeOK
<1>8. ASSUME NEW g \in 1 .. Len(groups') PROVE groups'[g] = meant'[Begun' + g]
  <2>1. g \in Nat /\ g + 1 \in 1 .. Len(groups)
    BY <1>3
  <2>2. groups'[g] = meant[Begun + (g + 1)] /\ Begun + (g + 1) = (Begun + 1) + g
    BY <1>3, <1>4, <1>5, <2>1
  <2> QED BY <1>1, <1>4, <2>2
<1>9. ASSUME NEW u \in NUsers PROVE Counted(u, notices[u])'
  <2>1. BegunOf(u)' = Among(Begun + 1, meant, u)
    BY <1>1, <1>4 DEF BegunOf
  <2>2. Cardinality(Among(Begun + 1, meant, u)) = Cardinality(BegunOf(u)) + (IF u \in meant[Begun + 1] THEN 1 ELSE 0)
    BY <1>4, AmongOneMore DEF BegunOf
  <2>3. Cardinality(BegunOf(u)') = Cardinality(BegunOf(u)) + BeingMade(u)'
    BY <1>6, <2>1, <2>2 DEF BeingMade
  <2>4. Cardinality(BegunOf(u)) \in Nat
    BY <1>4, AmongIsFinite DEF BegunOf
  <2>5. BeingMade(u) = 0 /\ notices[u] \in Nat /\ BeingMade(u)' \in {0, 1}
    BY <1>1 DEF BeingMade, NoticeIInv, NoticeTypeOK
  <2>6. Counted(u, notices[u])
    BY DEF NoticeIInv
  <2> QED BY <1>1, <2>3, <2>4, <2>5, <2>6 DEF Counted
<1>10. (\A u \in NUsers : Counted(u, notices[u]))'
  BY <1>9
<1>11. LeadOnly'
  BY <1>1, <1>4, <1>6 DEF NoticeIInv, LeadOnly
<1>12. \A g \in 1 .. Len(groups') : groups'[g] = meant'[Begun' + g]
  BY <1>8
<1> QED BY <1>1, <1>4, <1>7, <1>10, <1>11, <1>12 DEF NoticeIInv

\* A creation, once or repeated.
LEMMA NoticeCreateKeeps ==
  ASSUME NoticeIInv, NEW u \in NUsers, Create(u) \/ CreateRetried(u)
  PROVE  NoticeIInv'
<1>0. repeated' \in BOOLEAN /\ (repeated => repeated')
  BY DEF Create, CreateRetried, NoticeIInv, NoticeTypeOK
<1>1. PICK k \in {1, 2} : u \in todo /\ notices' = [notices EXCEPT ![u] = @ + k] /\ (k = 1 \/ repeated')
  BY DEF Create, CreateRetried
<1>2. /\ todo' = todo \ {u}
      /\ client' = client /\ leadWorker' = leadWorker /\ event' = event /\ named' = named /\ npc' = npc
      /\ groups' = groups /\ meant' = meant /\ failed' = failed /\ moved' = moved
  BY DEF Create, CreateRetried
<1>3. /\ notices' \in [NUsers -> Nat] /\ notices[u] \in Nat /\ notices'[u] = notices[u] + k
      /\ \A v \in NUsers \ {u} : notices'[v] = notices[v]
  BY <1>1 DEF NoticeIInv, NoticeTypeOK
<1>4. npc # "emitted" /\ (npc = "over" => failed)
  BY <1>1 DEF NoticeIInv
<1>5. NoticeTypeOK'
  BY <1>0, <1>1, <1>2, <1>3 DEF NoticeIInv, NoticeTypeOK
<1>6. Begun' = Begun /\ Begun \in Nat
  BY <1>2 DEF Begun, NoticeIInv
<1>7. ASSUME NEW v \in NUsers PROVE Counted(v, notices[v])'
  <2>1. Cardinality(BegunOf(v)') = Cardinality(BegunOf(v)) /\ Cardinality(BegunOf(v)) \in Nat
    BY <1>2, <1>6, AmongIsFinite DEF BegunOf
  <2>2. CASE v = u
    <3>1. BeingMade(v) = 1 /\ BeingMade(v)' = 0
      BY <1>1, <1>2, <2>2 DEF BeingMade
    <3>2. Counted(v, notices[v])
      BY DEF NoticeIInv
    <3>3. repeated => repeated'
      BY <1>0
    <3> QED BY <1>1, <1>2, <1>3, <2>1, <2>2, <3>1, <3>2, <3>3 DEF Counted
  <2>3. CASE v # u
    <3>1. BeingMade(v)' = BeingMade(v) /\ notices'[v] = notices[v]
      BY <1>2, <1>3, <2>3 DEF BeingMade
    <3>2. Counted(v, notices[v])
      BY DEF NoticeIInv
    <3>3. repeated => repeated'
      BY <1>0
    <3> QED BY <1>2, <2>1, <3>1, <3>2, <3>3 DEF Counted
  <2> QED BY <2>2, <2>3
<1>8. (\A v \in NUsers : Counted(v, notices[v]))'
  BY <1>7
<1>9. \A g \in 1 .. Len(groups') : groups'[g] = meant'[Begun' + g]
  BY <1>2, <1>6 DEF NoticeIInv
<1>10. LeadOnly'
  <2>1. SUFFICES ASSUME event \in OfLead, ~moved PROVE LeadOnly'
    BY <1>2 DEF LeadOnly
  <2>2. LeadOnly
    BY DEF NoticeIInv
  <2>3. ASSUME NEW w \in NWorkers, notices'[w] > 0 PROVE w = named
    <3>1. w \in NUsers
      BY DEF NUsers
    <3>2. w # u => notices[w] > 0
      BY <1>3, <2>3, <3>1
    <3> QED BY <1>1, <2>1, <2>2, <3>2 DEF LeadOnly
  <2> QED BY <1>2, <2>1, <2>2, <2>3 DEF LeadOnly
<1> QED BY <1>2, <1>4, <1>5, <1>6, <1>8, <1>9, <1>10 DEF NoticeIInv

\* A handler that ends in a failure begins no more groups.
LEMMA FailureKeeps ==
  ASSUME NoticeIInv, NEW rest \in SUBSET todo,
         npc' = "over" /\ groups' = <<>> /\ todo' = rest /\ failed' = TRUE,
         UNCHANGED <<client, leadWorker, event, named, notices, meant, repeated, moved>>
  PROVE  NoticeIInv'
<1>1. NoticeTypeOK'
  <2>1. groups' \in Seq(SUBSET NUsers)
    OBVIOUS
  <2> QED BY <2>1 DEF NoticeIInv, NoticeTypeOK
<1>2. Len(meant) \in Nat /\ Len(groups) \in Nat /\ Len(groups') = 0
  BY DEF NoticeIInv, NoticeTypeOK
<1>3. Begun \in Nat /\ Begun' \in Nat /\ Begun <= Begun'
  BY <1>2 DEF Begun, NoticeIInv
<1>4. ASSUME NEW u \in NUsers PROVE Counted(u, notices[u])'
  <2>1. PICK b \in Nat : b = Begun'
    BY <1>3
  <2>2. BegunOf(u)' = Among(b, meant, u)
    BY <2>1 DEF BegunOf
  <2>3. /\ Cardinality(BegunOf(u)) <= Cardinality(Among(b, meant, u))
        /\ Cardinality(BegunOf(u)) \in Nat /\ Cardinality(Among(b, meant, u)) \in Nat
    BY <1>3, <2>1, AmongMore, AmongIsFinite DEF BegunOf
  <2>4. BeingMade(u)' <= BeingMade(u) /\ BeingMade(u) \in {0, 1} /\ BeingMade(u)' \in {0, 1} /\ notices[u] \in Nat
    BY DEF BeingMade, NoticeIInv, NoticeTypeOK
  <2>5. Counted(u, notices[u])
    BY DEF NoticeIInv
  <2> QED BY <2>2, <2>3, <2>4, <2>5 DEF Counted
<1>5. (\A u \in NUsers : Counted(u, notices[u]))'
  BY <1>4
<1>6. LeadOnly'
  BY DEF NoticeIInv, LeadOnly
<1>7. \A g \in 1 .. Len(groups') : groups'[g] = meant'[Begun' + g]
  BY <1>2
<1> QED BY <1>1, <1>3, <1>5, <1>6, <1>7 DEF NoticeIInv

\* The handler ends with nothing left to do, or its read fails and nobody is told.
LEMMA FinishKeeps == ASSUME NoticeIInv, Finish PROVE NoticeIInv'
<1>1. /\ npc' = "over" /\ failed' = (failed \/ npc = "emitted")
      /\ client' = client /\ leadWorker' = leadWorker /\ event' = event /\ named' = named
      /\ groups' = groups /\ todo' = todo /\ notices' = notices /\ meant' = meant
      /\ repeated' = repeated /\ moved' = moved
  BY DEF Finish
<1>2. groups = <<>> /\ todo = {}
  <2>1. CASE npc = "emitted"
    <3>1. Begun \in Nat /\ meant = <<>> /\ groups \in Seq(SUBSET NUsers)
      BY <2>1 DEF NoticeIInv, NoticeTypeOK
    <3>2. Len(groups) = 0
      BY <3>1 DEF Begun
    <3> QED BY <2>1, <3>1, <3>2 DEF NoticeIInv
  <2> QED BY <2>1 DEF Finish
<1>3. NoticeTypeOK'
  BY <1>1 DEF NoticeIInv, NoticeTypeOK
<1>4. Begun' = Begun
  BY <1>1 DEF Begun
<1>5. ASSUME NEW u \in NUsers PROVE Counted(u, notices[u])'
  <2>1. BegunOf(u)' = BegunOf(u) /\ BeingMade(u)' = BeingMade(u)
    BY <1>1, <1>4 DEF BegunOf, BeingMade
  <2>2. Counted(u, notices[u]) /\ (failed => failed')
    BY <1>1 DEF NoticeIInv
  <2> QED BY <1>1, <2>1, <2>2 DEF Counted
<1>6. (\A u \in NUsers : Counted(u, notices[u]))'
  BY <1>5
<1>7. LeadOnly'
  BY <1>1 DEF NoticeIInv, LeadOnly
<1>8. \A g \in 1 .. Len(groups') : groups'[g] = meant'[Begun' + g]
  BY <1>1, <1>4 DEF NoticeIInv
<1> QED BY <1>1, <1>2, <1>3, <1>4, <1>6, <1>7, <1>8 DEF NoticeIInv

\* The contract goes to another worker before the handler reads it.
LEMMA NoticeReassignKeeps == ASSUME NoticeIInv, NoticeReassign PROVE NoticeIInv'
<1>1. /\ npc = "emitted" /\ leadWorker' \in NWorkers /\ moved' = TRUE
      /\ client' = client /\ event' = event /\ named' = named /\ npc' = npc
      /\ groups' = groups /\ todo' = todo /\ notices' = notices /\ meant' = meant
      /\ failed' = failed /\ repeated' = repeated
  BY DEF NoticeReassign
<1>2. NoticeTypeOK'
  BY <1>1 DEF NoticeIInv, NoticeTypeOK
<1>3. Begun' = Begun
  BY <1>1 DEF Begun
<1>4. \A u \in NUsers : BegunOf(u)' = BegunOf(u) /\ BeingMade(u)' = BeingMade(u)
  BY <1>1, <1>3 DEF BegunOf, BeingMade
<1>5. ASSUME NEW u \in NUsers PROVE Counted(u, notices[u])'
  BY <1>1, <1>4 DEF Counted, NoticeIInv
<1>6. (\A u \in NUsers : Counted(u, notices[u]))'
  BY <1>5
<1>7. LeadOnly'
  BY <1>1 DEF LeadOnly
<1>8. \A g \in 1 .. Len(groups') : groups'[g] = meant'[Begun' + g]
  BY <1>1, <1>3 DEF NoticeIInv
<1> QED BY <1>1, <1>2, <1>3, <1>6, <1>7, <1>8 DEF NoticeIInv

\* Nothing changes.
LEMMA NoticeStutterKeeps == ASSUME NoticeIInv, UNCHANGED noticeVars PROVE NoticeIInv'
<1>1. Begun' = Begun
  BY DEF noticeVars, Begun
<1>2. \A u \in NUsers : BegunOf(u)' = BegunOf(u) /\ BeingMade(u)' = BeingMade(u)
  BY <1>1 DEF noticeVars, BegunOf, BeingMade
<1>3. (\A u \in NUsers : Counted(u, notices[u]))'
  BY <1>2 DEF noticeVars, Counted, NoticeIInv
<1>4. LeadOnly' /\ NoticeTypeOK'
  BY DEF noticeVars, NoticeIInv, LeadOnly, NoticeTypeOK
<1> QED BY <1>1, <1>3, <1>4 DEF noticeVars, NoticeIInv

\* Every step keeps the invariant.
LEMMA NoticeStepKeeps == NoticeIInv /\ [NoticeNext]_noticeVars => NoticeIInv'
<1> SUFFICES ASSUME NoticeIInv, [NoticeNext]_noticeVars PROVE NoticeIInv'
  OBVIOUS
<1>1. ASSUME NEW u \in NUsers, CreateFails(u) PROVE NoticeIInv'
  <2>1. todo \ {u} \in SUBSET todo
    OBVIOUS
  <2> QED BY <1>1, <2>1, FailureKeeps DEF CreateFails
<1>2. ASSUME NoticeDies PROVE NoticeIInv'
  <2>1. {} \in SUBSET todo
    OBVIOUS
  <2> QED BY <1>2, <2>1, FailureKeeps DEF NoticeDies
<1> QED BY <1>1, <1>2, ReadReceiversKeeps, NextGroupKeeps, NoticeCreateKeeps, FinishKeeps, NoticeReassignKeeps,
           NoticeStutterKeeps DEF NoticeNext

\* The invariant holds of every behaviour.
LEMMA NoticesHold == NoticeSpec => []NoticeIInv
BY NoticeInitial, NoticeStepKeeps, PTL DEF NoticeSpec

\* The invariant is more than the types and the three parts of NoticesAreRight.
LEMMA NoticesFollow == NoticeIInv => NoticeTypeOK /\ NoticesAreRight
<1> SUFFICES ASSUME NoticeIInv PROVE NoticesAreRight
  BY DEF NoticeIInv
<1>1. Len(meant) \in Nat /\ Len(groups) \in Nat /\ Begun \in Nat /\ Begun <= Len(meant)
  BY DEF NoticeIInv, NoticeTypeOK, Begun
<1>2. ASSUME NEW u \in NUsers
      PROVE  /\ ~repeated => notices[u] <= Cardinality(GroupsOf(u))
             /\ npc = "over" /\ ~failed => notices[u] >= Cardinality(GroupsOf(u))
  <2>1. GroupsOf(u) = Among(Len(meant), meant, u)
    BY DEF GroupsOf, Among, NoticeIInv, NoticeTypeOK
  <2>2. /\ Cardinality(BegunOf(u)) <= Cardinality(GroupsOf(u))
        /\ Cardinality(BegunOf(u)) \in Nat /\ Cardinality(GroupsOf(u)) \in Nat
    BY <1>1, <2>1, AmongMore, AmongIsFinite DEF BegunOf
  <2>3. BeingMade(u) \in {0, 1} /\ notices[u] \in Nat /\ Counted(u, notices[u])
    BY DEF BeingMade, NoticeIInv, NoticeTypeOK
  <2>4. CASE npc = "over" /\ ~failed
    <3>1. groups = <<>> /\ todo = {}
      BY <2>4 DEF NoticeIInv
    <3>2. Begun = Len(meant) /\ BeingMade(u) = 0
      BY <1>1, <3>1 DEF Begun, BeingMade
    <3>3. BegunOf(u) = GroupsOf(u)
      BY <2>1, <3>2 DEF BegunOf
    <3> QED BY <2>2, <2>3, <2>4, <3>2, <3>3 DEF Counted
  <2>5. ~repeated => notices[u] <= Cardinality(GroupsOf(u))
    BY <2>2, <2>3 DEF Counted
  <2> QED BY <2>4, <2>5
<1>3. NoticeOnce /\ EveryoneIsTold
  BY <1>2 DEF NoticeOnce, EveryoneIsTold
<1>4. TheRightWorker
  BY DEF TheRightWorker, NoticeIInv, LeadOnly
<1> QED BY <1>3, <1>4 DEF NoticesAreRight

\* Whoever a handler tells, and whatever fails or is repeated on its way: nobody is told
\* more often than meant unless a creation is repeated, nobody less unless the handler
\* failed, and of what is the contract's worker's no other worker is told unless the contract
\* went to another in between (the listeners of NotificationsModule).
THEOREM NoticesReachTheirReaders == NoticeSpec => []NoticesAreRight
<1>1. NoticeIInv => NoticesAreRight
  BY NoticesFollow
<1> QED BY <1>1, NoticesHold, PTL

-----------------------------------------------------------------------------
(***************************************************************************)
(* The timeline.  First its order: a finite set that is ordered can be     *)
(* listed, as a smallest subset that could not would have a last element,  *)
(* and be listable without it.  Then the reader: what was shown stands     *)
(* before the cursor and what is due behind it, whatever rows come and go  *)
(* (ReadSoFar), unless the cursor's own row is gone.                       *)
(***************************************************************************)

\* A finite set that is totally ordered has a last element.
Ordered(S, R) == /\ \A x \in S : <<x, x>> \notin R
                 /\ \A x, y \in S : x # y => <<x, y>> \in R \/ <<y, x>> \in R
                 /\ \A x, y, z \in S : <<x, y>> \in R /\ <<y, z>> \in R => <<x, z>> \in R

\* Of the sets of a collection of finite sets one includes no other.
LEMMA SmallestFails ==
  ASSUME NEW S, IsFiniteSet(S), NEW Bad \in SUBSET (SUBSET S), Bad # {}
  PROVE  \E X \in Bad : \A Y \in Bad : Y \subseteq X => Y = X
<1>1. Bad \subseteq FiniteSubsetsOf(S)
  BY FS_Subset DEF FiniteSubsetsOf
<1>2. PICK X \in Bad : \A Y \in Bad : ~ (<<Y, X>> \in StrictSubsetOrdering(S))
  BY <1>1, FS_StrictSubsetOrderingWellFounded, WFMin
<1>3. ASSUME NEW Y \in Bad, Y \subseteq X PROVE Y = X
  BY <1>2, <1>3 DEF StrictSubsetOrdering
<1> QED BY <1>3

\* A finite set that is ordered has a last element, or a smallest subset without one had.
LEMMA LastExists ==
  ASSUME NEW S, IsFiniteSet(S), NEW R, Ordered(S, R), S # {}
  PROVE  \E z \in S : \A x \in S \ {z} : <<x, z>> \in R
<1> DEFINE Good(X) == \E z \in X : \A x \in X \ {z} : <<x, z>> \in R
           Bad == {X \in SUBSET S : X # {} /\ ~Good(X)}
<1>1. SUFFICES ASSUME Bad # {} PROVE FALSE
  OBVIOUS
<1>2. PICK X \in Bad : \A Y \in Bad : Y \subseteq X => Y = X
  <2>1. Bad \in SUBSET (SUBSET S)
    OBVIOUS
  <2> HIDE DEF Bad
  <2> QED BY <1>1, <2>1, SmallestFails
<1>3. PICK y \in X : TRUE
  OBVIOUS
<1>4. CASE X \ {y} = {}
  BY <1>2, <1>3, <1>4
<1>5. CASE X \ {y} # {}
  <2>1. X \ {y} \notin Bad
    BY <1>2, <1>3
  <2>2. Good(X \ {y})
    BY <1>2, <1>5, <2>1
  <2>3. PICK z \in X \ {y} : \A x \in (X \ {y}) \ {z} : <<x, z>> \in R
    BY <2>2
  <2>4. CASE <<y, z>> \in R
    BY <2>3, <2>4, <1>2
  <2>5. CASE <<z, y>> \in R
    <3>1. ASSUME NEW x \in X \ {y} PROVE <<x, y>> \in R
      <4>1. x = z \/ <<x, z>> \in R
        BY <2>3
      <4>2. x \in S /\ y \in S /\ z \in S
        BY <1>2
      <4> QED BY <2>5, <4>1, <4>2 DEF Ordered
    <3>2. Good(X)
      BY <1>3, <3>1
    <3> QED BY <1>2, <3>2
  <2>6. y \in S /\ z \in S /\ y # z
    BY <1>2, <2>3
  <2> QED BY <2>4, <2>5, <2>6 DEF Ordered
<1> QED BY <1>4, <1>5

\* A list in the order of R.
Sorted(l, R) == \A m, n \in DOMAIN l : m < n => <<l[m], l[n]>> \in R

\* A finite set that is ordered can be listed, or a smallest subset that cannot be had
\* its last element left out.
LEMMA SortedExists ==
  ASSUME NEW S, IsFiniteSet(S), NEW R, Ordered(S, R)
  PROVE  \E l \in [1 .. Cardinality(S) -> S] : Sorted(l, R)
<1> DEFINE Good(X) == \E l \in [1 .. Cardinality(X) -> X] : Sorted(l, R)
           Bad == {X \in SUBSET S : ~Good(X)}
<1>1. SUFFICES ASSUME Bad # {} PROVE FALSE
  OBVIOUS
<1>2. PICK X \in Bad : \A Y \in Bad : Y \subseteq X => Y = X
  <2>1. Bad \in SUBSET (SUBSET S)
    OBVIOUS
  <2> HIDE DEF Bad
  <2> QED BY <1>1, <2>1, SmallestFails
<1>3. IsFiniteSet(X) /\ Ordered(X, R) /\ X \subseteq S
  <2>1. X \in SUBSET S
    BY <1>2
  <2>2. IsFiniteSet(X)
    BY <2>1, FS_Subset
  <2> QED BY <2>1, <2>2 DEF Ordered
<1>4. X # {}
  <2>1. Cardinality({}) = 0
    BY FS_EmptySet
  <2>2. [i \in 1 .. 0 |-> i] \in [1 .. 0 -> {}]
    OBVIOUS
  <2>3. Sorted([i \in 1 .. 0 |-> i], R)
    BY DEF Sorted
  <2> QED BY <1>2, <2>1, <2>2, <2>3
<1>5. PICK z \in X : \A x \in X \ {z} : <<x, z>> \in R
  BY <1>3, <1>4, LastExists
<1>6. X \ {z} \notin Bad /\ X \ {z} \in SUBSET S
  BY <1>2, <1>3, <1>5
<1>7. PICK k \in Nat : k = Cardinality(X \ {z}) /\ Cardinality(X) = k + 1
  <2>1. IsFiniteSet(X \ {z}) /\ Cardinality(X \ {z}) = Cardinality(X) - 1
    BY <1>3, <1>5, FS_RemoveElement
  <2>2. Cardinality(X) \in Nat /\ Cardinality(X \ {z}) \in Nat
    BY <1>3, <2>1, FS_CardinalityType
  <2> QED BY <2>1, <2>2
<1>8. PICK l \in [1 .. k -> X \ {z}] : Sorted(l, R)
  BY <1>6, <1>7
<1> DEFINE more == [i \in 1 .. (k + 1) |-> IF i = k + 1 THEN z ELSE l[i]]
<1>9. more \in [1 .. (k + 1) -> X]
  <2>1. ASSUME NEW i \in 1 .. (k + 1) PROVE (IF i = k + 1 THEN z ELSE l[i]) \in X
    <3>1. i = k + 1 \/ i \in 1 .. k
      OBVIOUS
    <3> QED BY <3>1
  <2> QED BY <2>1
<1>10. ASSUME NEW m \in 1 .. (k + 1), NEW n \in 1 .. (k + 1), m < n PROVE <<more[m], more[n]>> \in R
  <2>1. m \in 1 .. k /\ more[m] = l[m] /\ l[m] \in X \ {z}
    BY <1>10
  <2>2. CASE n = k + 1
    BY <1>5, <2>1, <2>2
  <2>3. CASE n # k + 1
    <3>1. n \in 1 .. k /\ more[n] = l[n]
      BY <2>3
    <3> QED BY <1>8, <1>10, <2>1, <3>1 DEF Sorted
  <2> QED BY <2>2, <2>3
<1>11. Sorted(more, R)
  <2>1. DOMAIN more = 1 .. (k + 1)
    OBVIOUS
  <2> HIDE DEF more
  <2> QED BY <1>10, <2>1 DEF Sorted
<1> QED BY <1>2, <1>7, <1>9, <1>11

\* The rows there are.
PresentRows == {i \in Ids : row[i] # NoRow}
Those(events, kinds) == {i \in events : row[i].kind \in kinds}
ShownIds == {e.id : e \in shown}

\* Rows have their types, are finitely many and none is of the future; a phase event
\* hangs on nothing.
RowsOK ==
  /\ clock \in Times
  /\ row \in [Ids -> [kind : TKinds \cup {"none"}, at : Times, on : Ids \cup {0}]]
  /\ IsFiniteSet(PresentRows)
  /\ \A i \in Ids : row[i].kind = "none" <=> row[i] = NoRow
  /\ \A i \in PresentRows : row[i].at <= clock
  /\ \A i \in Ids : row[i].kind = "notice" => row[i].on = 0

\* Newer orders the rows: no two have the same time and id.
LEMMA NewerOrders ==
  ASSUME RowsOK
  PROVE  /\ \A i \in Ids : ~ Newer(i, i)
         /\ \A i, j \in Ids : i # j => Newer(i, j) \/ Newer(j, i)
         /\ \A i, j, k \in Ids : Newer(i, j) /\ Newer(j, k) => Newer(i, k)
<1>1. \A i \in Ids : i \in Nat /\ row[i].at \in Nat
  BY TimelineAssumption DEF RowsOK
<1> QED BY <1>1 DEF Newer

\* The list that EventList is.
SortedList(S) ==
  CHOOSE list \in [1..Cardinality(S) -> S] :
    \A m, n \in DOMAIN list : m < n => Newer(list[m], list[n])

\* EventList lists every event once, the newest first.
LEMMA ListIsSorted ==
  ASSUME RowsOK, NEW S \in SUBSET PresentRows, NEW list, list = SortedList(S)
  PROVE  /\ Cardinality(S) \in Nat /\ list \in [1 .. Cardinality(S) -> S]
         /\ \A m, n \in 1 .. Cardinality(S) : m < n => Newer(list[m], list[n])
         /\ \A i \in S : \E n \in 1 .. Cardinality(S) : list[n] = i
<1> DEFINE R == {p \in S \X S : Newer(p[1], p[2])}
<1>1. IsFiniteSet(S) /\ Cardinality(S) \in Nat /\ S \subseteq Ids
  BY FS_Subset, FS_CardinalityType DEF RowsOK, PresentRows
<1>2. \A i, j \in S : <<i, j>> \in R <=> Newer(i, j)
  OBVIOUS
<1>3. Ordered(S, R)
  <2> HIDE DEF R
  <2> QED BY <1>1, <1>2, NewerOrders DEF Ordered
<1>4. \E l \in [1 .. Cardinality(S) -> S] : Sorted(l, R)
  <2> HIDE DEF R
  <2> QED BY <1>1, <1>3, SortedExists
<1>5. \E l \in [1 .. Cardinality(S) -> S] : \A m, n \in DOMAIN l : m < n => Newer(l[m], l[n])
  <2>1. PICK l \in [1 .. Cardinality(S) -> S] : Sorted(l, R)
    BY <1>4
  <2>2. ASSUME NEW m \in DOMAIN l, NEW n \in DOMAIN l, m < n PROVE Newer(l[m], l[n])
    <3>1. l[m] \in S /\ l[n] \in S /\ <<l[m], l[n]>> \in R
      BY <2>1, <2>2 DEF Sorted
    <3> QED BY <1>2, <3>1
  <2> QED BY <2>2
<1>6. list \in [1 .. Cardinality(S) -> S] /\ \A m, n \in DOMAIN list : m < n => Newer(list[m], list[n])
  BY <1>5 DEF SortedList
<1>7. PICK k \in Nat : k = Cardinality(S)
  BY <1>1
<1>8. list \in [1 .. k -> S] /\ DOMAIN list = 1 .. k
  BY <1>6, <1>7
<1>a. \A m, n \in 1 .. k : m < n => Newer(list[m], list[n])
  BY <1>6, <1>8
<1>9. ASSUME NEW m \in 1 .. k, NEW n \in 1 .. k, list[m] = list[n] PROVE m = n
  <2>1. ~ Newer(list[m], list[n]) /\ ~ Newer(list[n], list[m])
    <3>1. list[m] \in Ids
      BY <1>1, <1>8
    <3>2. \A i \in Ids : ~ Newer(i, i)
      BY NewerOrders
    <3> QED BY <1>9, <3>1, <3>2
  <2>2. ~ (m < n) /\ ~ (n < m)
    BY <1>a, <2>1
  <2> QED BY <2>2
<1>10. list \in Injection(1 .. k, S)
  BY <1>8, <1>9 DEF Injection, IsInjective
<1>11. Cardinality(1 .. k) = k
  BY FS_Interval
<1>12. list \in Surjection(1 .. k, S)
  BY <1>1, <1>7, <1>10, <1>11, FS_Injection
<1>13. \A i \in S : \E n \in 1 .. k : list[n] = i
  BY <1>12 DEF Surjection
<1> QED BY <1>1, <1>6, <1>7, <1>8, <1>13

\* A sequence is a function.
LEMMA SeqIsFunction == ASSUME NEW S, NEW s \in Seq(S) PROVE s \in [1 .. Len(s) -> S]
OBVIOUS

\* The page of a list of which a number of events are skipped.
PageFrom(list, start) == SubSeq(list, start + 1, Min({start + Limit, Len(list)}))

\* The part of a list that a page skips, and the page.
LEMMA PageOfList ==
  ASSUME NEW k \in Nat, NEW list \in [1 .. k -> Ids], NEW start \in 0 .. k,
         NEW slice, slice = PageFrom(list, start)
  PROVE  /\ Len(list) = k
         /\ \A i : i \in ToSet(slice) <=> \E n \in 1 .. k : start < n /\ n <= start + Limit /\ i = list[n]
         /\ start + Limit < k => slice[Limit] = list[start + Limit]
<1>1. Limit \in Nat \ {0}
  BY TimelineAssumption
<1>2. list \in Seq(Ids) /\ Len(list) = k
  OBVIOUS
<1>3. PICK top \in Nat : top = Min({start + Limit, Len(list)}) /\ start <= top /\ top <= k
                         /\ (top = start + Limit \/ (top = k /\ k < start + Limit))
  <2>1. Min({start + Limit, k}) \in {start + Limit, k} /\ \A y \in {start + Limit, k} : Min({start + Limit, k}) <= y
    <3>1. \E x \in {start + Limit, k} : \A y \in {start + Limit, k} : x <= y
      BY <1>1
    <3> QED BY <3>1 DEF Min
  <2> QED BY <1>1, <1>2, <2>1
<1>4. /\ SubSeq(list, start + 1, top) \in [1 .. (top - start) -> Ids]
      /\ \A n \in 1 .. (top - start) : SubSeq(list, start + 1, top)[n] = list[start + n]
  <2>1. \A i \in (start + 1) .. top : list[i] \in Ids
    BY <1>3
  <2>2. /\ SubSeq(list, start + 1, top) \in Seq(Ids)
        /\ Len(SubSeq(list, start + 1, top)) = IF start + 1 <= top THEN top - (start + 1) + 1 ELSE 0
        /\ \A i \in 1 .. (top - (start + 1) + 1) : SubSeq(list, start + 1, top)[i] = list[(start + 1) + i - 1]
    <3>1. start + 1 \in Int /\ top \in Int
      BY <1>3
    <3> QED BY <2>1, <3>1, SubSeqProperties
  <2>3. PICK some \in Seq(Ids) : some = SubSeq(list, start + 1, top)
    BY <2>2
  <2>a. (IF start + 1 <= top THEN top - (start + 1) + 1 ELSE 0) = top - start
    BY <1>3
  <2>4. Len(some) = top - start
    BY <2>2, <2>3, <2>a
  <2>5. some \in [1 .. (top - start) -> Ids]
    <3>1. some \in [1 .. Len(some) -> Ids]
      BY SeqIsFunction
    <3> QED BY <2>4, <3>1
  <2>6. ASSUME NEW n \in 1 .. (top - start) PROVE some[n] = list[start + n]
    <3>1. n \in 1 .. (top - (start + 1) + 1) /\ (start + 1) + n - 1 = start + n
      BY <1>3
    <3> QED BY <2>2, <2>3, <3>1
  <2> QED BY <2>3, <2>5, <2>6
<1>5. \A n \in 1 .. (top - start) : start + n \in {m \in 1 .. k : start < m /\ m <= start + Limit}
  BY <1>1, <1>3
<1>6. \A m \in {j \in 1 .. k : start < j /\ j <= start + Limit} : m - start \in 1 .. (top - start)
  BY <1>1, <1>3
<1>7. ToSet(SubSeq(list, start + 1, top)) = {list[n] : n \in {m \in 1 .. k : start < m /\ m <= start + Limit}}
  <2>1. ASSUME NEW n \in 1 .. (top - start)
        PROVE  SubSeq(list, start + 1, top)[n] \in {list[j] : j \in {m \in 1 .. k : start < m /\ m <= start + Limit}}
    BY <1>4, <1>5
  <2>2. ASSUME NEW m \in {j \in 1 .. k : start < j /\ j <= start + Limit}
        PROVE  \E n \in 1 .. (top - start) : SubSeq(list, start + 1, top)[n] = list[m]
    <3>1. m - start \in 1 .. (top - start) /\ start + (m - start) = m
      BY <1>6
    <3> QED BY <1>4, <3>1
  <2> QED BY <1>4, <2>1, <2>2 DEF ToSet
<1>8. start + Limit < k => SubSeq(list, start + 1, top)[Limit] = list[start + Limit]
  BY <1>1, <1>3, <1>4
<1>10. slice = SubSeq(list, start + 1, top)
  BY <1>3 DEF PageFrom
<1>9. \A i : i \in ToSet(slice) <=> \E n \in 1 .. k : start < n /\ n <= start + Limit /\ i = list[n]
  BY <1>3, <1>7, <1>10
<1> QED BY <1>2, <1>3, <1>8, <1>9, <1>10

\* What a page that begins after c is chosen from.
Follow(S, c) == {i \in S : c = 0 \/ Newer(c, i)}

\* A page that begins after c shows the events N of those listed, S.
Shows(N, S, c) ==
  /\ shown' = shown \cup {[id |-> i, tells |-> Tells(i)] : i \in N}
  /\ again' = again \cup ({Tells(i) : i \in N} \cap {e.tells : e \in shown})
  /\ clock' = clock /\ row' = row /\ tied' = tied
  /\ broken' = (broken \/ (c # 0 /\ c \notin S))

\* The cursor after it: the last event shown, when more follow.
GoesOn(N, S, c) ==
  \/ c # 0 /\ c \notin S /\ N = {} /\ reader' = "finished" /\ cursor' = 0
  \/ (c = 0 \/ c \in S) /\ N = Follow(S, c) /\ reader' = "finished" /\ cursor' = 0
  \/ /\ c = 0 \/ c \in S
     /\ reader' = "reading" /\ cursor' \in N /\ N \subseteq Follow(S, c)
     /\ \A i \in N : i = cursor' \/ Newer(i, cursor')
     /\ \A i \in Follow(S, c) \ N : Newer(cursor', i)

\* Only rows there are listed.
LEMMA ListedArePresent ==
  ASSUME NEW later, NEW events \in ListedEvents(later)
  PROVE  events \subseteq {i \in Ids : later[i] # NoRow}
<1>1. events \subseteq Ids /\ \A i \in events : later[i].kind \in TKinds
  BY DEF ListedEvents, DedupNotices, Earliest, PaymentEvents, Of, TKinds
<1>2. NoRow.kind \notin TKinds
  BY DEF NoRow, TKinds
<1> QED BY <1>1, <1>2

\* So are those of the kinds asked for.
LEMMA ListedAreRows ==
  ASSUME NEW events \in ListedEvents(row), NEW kinds
  PROVE  events \subseteq PresentRows /\ Those(events, kinds) \in SUBSET PresentRows
<1>1. events \subseteq PresentRows
  BY ListedArePresent DEF PresentRows
<1> QED BY <1>1 DEF Those

\* A page shows what follows the cursor, up to the next one, or nothing when the cursor's
\* event is gone.
LEMMA PageShows ==
  ASSUME RowsOK, NEW events \in ListedEvents(row), NEW kinds \in SUBSET TKinds,
         NEW c \in Ids \cup {0}, Page(events, kinds, c)
  PROVE  \E N \in SUBSET Those(events, kinds) : Shows(N, Those(events, kinds), c) /\ GoesOn(N, Those(events, kinds), c)
<1>1. PICK S \in SUBSET PresentRows : S = Those(events, kinds)
  BY ListedAreRows
<1>2. PICK list : list = EventList(events, kinds)
  OBVIOUS
<1>3. PICK k \in Nat : /\ k = Cardinality(S) /\ list \in [1 .. k -> S]
                       /\ \A m, n \in 1 .. k : m < n => Newer(list[m], list[n])
                       /\ \A i \in S : \E n \in 1 .. k : list[n] = i
  <2>1. EventList(events, kinds) = SortedList(Those(events, kinds))
    BY DEF EventList, SortedList, Those
  <2>2. list = SortedList(S)
    BY <1>1, <1>2, <2>1
  <2> QED BY <2>2, ListIsSorted
<1>4. DOMAIN list = 1 .. k /\ Len(list) = k
  BY <1>3
<1>5. S \subseteq Ids /\ 0 \notin Ids
  BY TimelineAssumption DEF PresentRows
<1>6. c \in S => IndexOf(list, c) \in 1 .. k /\ list[IndexOf(list, c)] = c
  BY <1>3, <1>4 DEF IndexOf
<1>7. c \notin S => IndexOf(list, c) = 0
  BY <1>3, <1>4 DEF IndexOf
<1>8. PICK start \in 0 .. k : /\ start = StartIndex(list, c)
                              /\ c = 0 => start = 0
                              /\ c # 0 /\ c \notin S => start = k
                              /\ c # 0 /\ c \in S => start \in 1 .. k /\ list[start] = c
  BY <1>4, <1>6, <1>7 DEF StartIndex
<1>9. PICK slice : slice = SubSeq(list, start + 1, Min({start + Limit, Len(list)}))
  OBVIOUS
<1>10. Limit \in Nat \ {0}
  BY TimelineAssumption
<1>11. PICK N \in SUBSET S : /\ N = ToSet(slice)
                             /\ \A i : i \in N <=> \E n \in 1 .. k : start < n /\ n <= start + Limit /\ i = list[n]
                             /\ start + Limit < k => slice[Limit] = list[start + Limit]
  <2>1. /\ \A i : i \in ToSet(slice) <=> \E n \in 1 .. k : start < n /\ n <= start + Limit /\ i = list[n]
        /\ start + Limit < k => slice[Limit] = list[start + Limit]
    <3>1. k \in Nat /\ list \in [1 .. k -> Ids] /\ start \in 0 .. k
      BY <1>3, <1>5, <1>8
    <3>2. slice = PageFrom(list, start)
      BY <1>9 DEF PageFrom
    <3> QED BY <3>1, <3>2, PageOfList
  <2>2. ToSet(slice) \in SUBSET S
    BY <1>3, <2>1
  <2> QED BY <2>1, <2>2
<1>12. /\ cursor' = IF start + Limit < k THEN slice[Limit] ELSE 0
       /\ reader' = IF start + Limit < k THEN "reading" ELSE "finished"
       /\ again' = again \cup ({Tells(i) : i \in ToSet(slice)} \cap {e.tells : e \in shown})
       /\ shown' = shown \cup {[id |-> i, tells |-> Tells(i)] : i \in ToSet(slice)}
       /\ broken' = (broken \/ (c # 0 /\ IndexOf(list, c) = 0))
       /\ clock' = clock /\ row' = row /\ tied' = tied
  BY <1>2, <1>4, <1>8, <1>9 DEF Page
<1>13. IndexOf(list, c) = 0 <=> c \notin S
  BY <1>6, <1>7
<1>14. Shows(N, S, c)
  BY <1>11, <1>12, <1>13 DEF Shows
<1>15. c = 0 \/ c \in S => \A n \in 1 .. k : start < n <=> list[n] \in Follow(S, c)
  <2>1. CASE c = 0
    BY <1>3, <1>8, <2>1 DEF Follow
  <2>2. CASE c # 0 /\ c \in S
    <3> SUFFICES ASSUME NEW n \in 1 .. k PROVE start < n <=> Newer(c, list[n])
      BY <1>3, <2>2 DEF Follow
    <3>1. start \in 1 .. k /\ list[start] = c /\ list[n] \in Ids /\ c \in Ids
      BY <1>3, <1>5, <1>8, <2>2
    <3>2. start < n => Newer(c, list[n])
      BY <1>3, <3>1
    <3>3. n < start => Newer(list[n], c)
      BY <1>3, <3>1
    <3>4. n = start => list[n] = c
      BY <3>1
    <3>5. ~ (Newer(c, list[n]) /\ Newer(list[n], c)) /\ ~ Newer(c, c)
      BY <3>1, NewerOrders
    <3>6. n < start \/ n = start \/ start < n
      BY <3>1
    <3> QED BY <3>2, <3>3, <3>4, <3>5, <3>6
  <2> QED BY <1>5, <2>1, <2>2
<1>16. GoesOn(N, S, c)
  <2>1. CASE c # 0 /\ c \notin S
    <3>1. start = k
      BY <1>8, <2>1
    <3>2. N = {} /\ ~ (start + Limit < k)
      BY <1>10, <1>11, <3>1
    <3> QED BY <1>12, <2>1, <3>2 DEF GoesOn
  <2>2. CASE (c = 0 \/ c \in S) /\ ~ (start + Limit < k)
    <3>1. \A n \in 1 .. k : start < n => n <= start + Limit
      BY <1>10, <2>2
    <3>2. N = Follow(S, c)
      <4>1. ASSUME NEW i \in N PROVE i \in Follow(S, c)
        BY <1>11, <1>15, <2>2
      <4>2. ASSUME NEW i \in Follow(S, c) PROVE i \in N
        <5>1. PICK n \in 1 .. k : list[n] = i
          BY <1>3 DEF Follow
        <5> QED BY <1>11, <1>15, <2>2, <3>1, <5>1
      <4> QED BY <4>1, <4>2
    <3> QED BY <1>12, <2>2, <3>2 DEF GoesOn
  <2>3. CASE (c = 0 \/ c \in S) /\ start + Limit < k
    <3>1. PICK last \in 1 .. k : last = start + Limit /\ start < last
      BY <1>10, <2>3
    <3>2. cursor' = list[last] /\ reader' = "reading" /\ cursor' \in N
      BY <1>11, <1>12, <2>3, <3>1
    <3>3. N \subseteq Follow(S, c)
      BY <1>11, <1>15, <2>3
    <3>4. ASSUME NEW i \in N PROVE i = cursor' \/ Newer(i, cursor')
      <4>1. PICK n \in 1 .. k : n <= last /\ i = list[n]
        BY <1>11, <3>1
      <4>2. n = last \/ n < last
        BY <4>1
      <4> QED BY <1>3, <3>2, <4>1, <4>2
    <3>5. ASSUME NEW i \in Follow(S, c) \ N PROVE Newer(cursor', i)
      <4>1. PICK n \in 1 .. k : i = list[n]
        BY <1>3, <3>5 DEF Follow
      <4>2. start < n
        BY <1>15, <2>3, <4>1
      <4>3. last < n
        BY <1>11, <3>1, <4>1, <4>2
      <4> QED BY <1>3, <3>2, <4>1, <4>3
    <3> QED BY <2>3, <3>2, <3>3, <3>4, <3>5 DEF GoesOn
  <2> QED BY <2>1, <2>2, <2>3
<1> QED BY <1>1, <1>14, <1>16

\* The notifications of the phase event.
NoticeRows == Of({"notice"}, row)
NoticeTold == \E e \in shown : e.tells = 0

\* What was shown stands before the cursor, what is still due behind it.
ReadSoFar(c) ==
  /\ \A i \in PresentRows \cap ShownIds : i = c \/ Newer(i, c)
  /\ \A i \in due \ ShownIds : Newer(c, i)
  /\ ~tied /\ NoticeTold => /\ \A i \in NoticeRows : i = c \/ Newer(i, c)
                            /\ row[c].at = clock => NoticeRows # {}

\* The inductive invariant.
TimelineIInv ==
  /\ RowsOK
  /\ filter \subseteq TKinds /\ cursor \in Ids \cup {0} /\ reader \in {"closed", "reading", "finished"}
  /\ tied \in BOOLEAN /\ broken \in BOOLEAN
  /\ ~tied => \A i, j \in Earliest(row) : i = j
  /\ due \subseteq AlwaysListed(row) /\ \A d \in due : row[d].kind \in filter
  /\ \A e \in shown : e.id \in Ids /\ e.tells \in {0, e.id}
  /\ reader = "closed" => shown = {} /\ due = {} /\ cursor = 0
  /\ again \subseteq IF tied THEN {0} ELSE {}
  /\ reader = "reading" => cursor \in ShownIds /\ (row[cursor] # NoRow => ReadSoFar(cursor))
  /\ reader = "finished" => broken \/ due \subseteq ShownIds

\* No rows and no reader.
LEMMA TimelineInitial == TimelineInit => TimelineIInv
<1> SUFFICES ASSUME TimelineInit PROVE TimelineIInv
  OBVIOUS
<1>1. PresentRows = {} /\ 0 \in Times
  BY TimelineAssumption DEF TimelineInit, PresentRows
<1>2. RowsOK
  BY <1>1, FS_EmptySet DEF TimelineInit, RowsOK, NoRow, TKinds
<1>3. Earliest(row) = {}
  BY DEF TimelineInit, Earliest, Of, NoRow
<1> QED BY <1>2, <1>3 DEF TimelineInit, TimelineIInv

\* What every list has is there.
LEMMA AlwaysAreRows ==
  ASSUME NEW later
  PROVE  /\ AlwaysListed(later) \subseteq {i \in Ids : later[i] # NoRow}
         /\ \A events \in ListedEvents(later) : AlwaysListed(later) \subseteq events
<1>1. PICK n : n \in DedupNotices(later)
  BY DEF DedupNotices
<1>2. PICK events : events \in ListedEvents(later)
  BY <1>1 DEF ListedEvents
<1>3. events \subseteq {i \in Ids : later[i] # NoRow}
  BY <1>2, ListedArePresent
<1> QED BY <1>2, <1>3 DEF AlwaysListed

\* Unless notifications are tied one of them is the earliest.
LEMMA OneEarliest ==
  ASSUME NEW later, \A n \in DedupNotices(later) : n = Earliest(later)
  PROVE  \A i, j \in Earliest(later) : i = j
BY DEF DedupNotices

\* A notification that is listed is an earliest one.
LEMMA ListedNoticeIsEarliest ==
  ASSUME NEW events \in ListedEvents(row), NEW i \in events, row[i].kind = "notice"
  PROVE  i \in Earliest(row)
<1>1. PICK n \in DedupNotices(row) : events = Of({"evidence", "comment"}, row) \cup n \cup PaymentEvents(row)
  BY DEF ListedEvents
<1>2. i \notin Of({"evidence", "comment"}, row) /\ i \notin PaymentEvents(row)
  BY DEF Of, PaymentEvents
<1> QED BY <1>1, <1>2 DEF DedupNotices

\* A page: it shows nothing again, as all that was shown stands before it, and what is
\* due and stands before its end is shown.
LEMMA PageKeeps ==
  ASSUME TimelineIInv, reader \in {"closed", "reading"},
         NEW events \in ListedEvents(row), NEW kinds \in SUBSET TKinds,
         Page(events, kinds, cursor), filter' = kinds,
         reader = "reading" => due' = due,
         \A d \in due' : d \in AlwaysListed(row) /\ row[d].kind \in kinds
  PROVE  TimelineIInv'
<1>1. RowsOK /\ cursor \in Ids \cup {0}
  BY DEF TimelineIInv
<1>2. PICK S \in SUBSET PresentRows : S = Those(events, kinds)
  BY <1>1, ListedAreRows
<1>3. PICK N \in SUBSET S : Shows(N, S, cursor) /\ GoesOn(N, S, cursor)
  BY <1>1, <1>2, PageShows
<1>4. PICK c \in Ids \cup {0} : c = cursor
  BY <1>1
<1>5. clock' = clock /\ row' = row /\ tied' = tied /\ broken' = (broken \/ (c # 0 /\ c \notin S))
  BY <1>3, <1>4 DEF Shows
<1>6. RowsOK' /\ PresentRows' = PresentRows
  BY <1>1, <1>5 DEF RowsOK, PresentRows
<1>7. \A e \in shown : e.id \in Ids /\ e.tells \in {0, e.id}
  BY DEF TimelineIInv
<1>8. /\ shown' = shown \cup {[id |-> i, tells |-> Tells(i)] : i \in N}
      /\ again' = again \cup ({Tells(i) : i \in N} \cap {e.tells : e \in shown})
  BY <1>3 DEF Shows
<1>9. \A i \in N : i \in Ids /\ i # 0 /\ Tells(i) \in {0, i} /\ (Tells(i) = 0 => row[i].kind = "notice")
  BY <1>2, TimelineAssumption DEF PresentRows, Tells
<1>10. ShownIds' = ShownIds \cup N
  <2>1. \A i \in N : [id |-> i, tells |-> Tells(i)].id = i /\ [id |-> i, tells |-> Tells(i)] \in shown'
    BY <1>8
  <2>2. shown \subseteq shown' /\ \A e \in shown' : e \in shown \/ \E i \in N : e.id = i
    BY <1>8
  <2>3. ASSUME NEW i \in ShownIds \cup N PROVE i \in ShownIds'
    BY <2>1, <2>2 DEF ShownIds
  <2>4. ASSUME NEW i \in ShownIds' PROVE i \in ShownIds \cup N
    BY <2>2 DEF ShownIds
  <2> QED BY <2>3, <2>4
<1>11. \A e \in shown' : e.id \in Ids /\ e.tells \in {0, e.id}
  BY <1>7, <1>8, <1>9
<1>12. /\ due' \subseteq AlwaysListed(row) /\ due' \subseteq PresentRows /\ due' \subseteq events
       /\ \A d \in due' : d \in S
  <2>1. due' \subseteq AlwaysListed(row) /\ due' \subseteq PresentRows /\ due' \subseteq events
    BY AlwaysAreRows DEF PresentRows
  <2> QED BY <1>2, <2>1 DEF Those
<1>13. filter' \subseteq TKinds /\ tied' \in BOOLEAN /\ broken' \in BOOLEAN
  BY <1>5 DEF TimelineIInv
<1>14. ~tied' => \A i, j \in Earliest(row') : i = j
  BY <1>5 DEF TimelineIInv
<1>15. due' \subseteq AlwaysListed(row') /\ \A d \in due' : row'[d].kind \in filter'
  BY <1>5, <1>12
<1>16. reader' \in {"reading", "finished"} /\ cursor' \in Ids \cup {0}
  BY <1>3, <1>9 DEF GoesOn
<1>17. again \subseteq IF tied THEN {0} ELSE {}
  BY DEF TimelineIInv
<1>18. CASE c # 0 /\ c \notin S
  <2>1. /\ reader' = "finished" /\ broken' /\ N = {}
    BY <1>3, <1>4, <1>5, <1>18 DEF GoesOn
  <2>2. again' = again
    BY <1>8, <2>1
  <2> QED BY <1>5, <1>6, <1>11, <1>13, <1>14, <1>15, <1>16, <1>17, <2>1, <2>2 DEF TimelineIInv
<1>19. CASE c = 0 \/ c \in S
  <2>1. N \subseteq Follow(S, c)
    BY <1>3, <1>4, <1>19 DEF GoesOn
  <2>2. reader = "closed" => shown = {} /\ c = 0
    BY <1>4 DEF TimelineIInv
  <2>3. reader = "reading" => c \in ShownIds /\ c # 0 /\ c \in S /\ c \in PresentRows /\ ReadSoFar(c)
    <3> SUFFICES ASSUME reader = "reading" PROVE c \in ShownIds /\ c # 0 /\ c \in S /\ c \in PresentRows /\ ReadSoFar(c)
      OBVIOUS
    <3>1. c \in ShownIds
      BY <1>4 DEF TimelineIInv
    <3>2. c \in Ids /\ c # 0
      BY <1>7, <3>1, TimelineAssumption DEF ShownIds
    <3>3. c \in S /\ c \in PresentRows
      BY <1>2, <1>19, <3>2
    <3> QED BY <1>4, <3>1, <3>2, <3>3 DEF TimelineIInv, PresentRows
  <2>4. /\ \A i \in Ids : ~ Newer(i, i)
        /\ \A i, j, k \in Ids : Newer(i, j) /\ Newer(j, k) => Newer(i, k)
    BY <1>1, NewerOrders
  <2>5. \A i \in N : i \in PresentRows /\ i \in Ids
    BY <1>2, <1>9
  <2>6. \A i \in N : i \notin ShownIds
    <3> SUFFICES ASSUME NEW i \in N, i \in ShownIds PROVE FALSE
      OBVIOUS
    <3>1. reader = "reading"
      BY <2>2 DEF ShownIds
    <3>2. i = c \/ Newer(i, c)
      BY <2>3, <2>5, <3>1 DEF ReadSoFar
    <3>3. Newer(c, i) /\ c \in Ids /\ i \in Ids
      BY <2>1, <2>3, <2>5, <3>1 DEF Follow, PresentRows
    <3> QED BY <2>4, <3>2, <3>3
  <2>7. ASSUME NEW i \in N, Tells(i) \in {e.tells : e \in shown} PROVE tied /\ Tells(i) = 0
    <3>1. PICK e \in shown : e.tells = Tells(i)
      BY <2>7
    <3>2. e.id \in ShownIds
      BY <3>1 DEF ShownIds
    <3>3. Tells(i) = 0 /\ row[i].kind = "notice"
      BY <1>7, <1>9, <2>6, <3>1, <3>2
    <3>4. reader = "reading" /\ NoticeTold
      BY <2>2, <3>1, <3>3 DEF NoticeTold
    <3>5. i \in NoticeRows
      BY <2>5, <3>3 DEF NoticeRows, Of
    <3>6. Newer(c, i) /\ c \in Ids /\ i \in Ids
      BY <2>1, <2>3, <2>5, <3>4 DEF Follow, PresentRows
    <3>7. ~ (i = c \/ Newer(i, c))
      BY <2>4, <3>6
    <3>8. tied
      BY <2>3, <3>4, <3>5, <3>7 DEF ReadSoFar
    <3> QED BY <3>3, <3>8
  <2>8. again' \subseteq IF tied' THEN {0} ELSE {}
    BY <1>5, <1>8, <1>17, <2>7
  <2>9. ASSUME NEW d \in due', d \notin ShownIds PROVE d \in Follow(S, c)
    <3>1. d \in S
      BY <1>12
    <3>2. CASE reader = "closed"
      BY <2>2, <3>1, <3>2 DEF Follow
    <3>3. CASE reader = "reading"
      BY <2>3, <2>9, <3>1, <3>3 DEF Follow, ReadSoFar
    <3> QED BY <3>2, <3>3
  <2>10. CASE reader' = "finished"
    <3>1. N = Follow(S, c)
      BY <1>3, <1>4, <1>19, <2>10 DEF GoesOn
    <3>2. due' \subseteq ShownIds'
      BY <1>10, <2>9, <3>1
    <3> QED BY <1>5, <1>6, <1>11, <1>13, <1>14, <1>15, <1>16, <2>8, <2>10, <3>2 DEF TimelineIInv
  <2>11. CASE reader' = "reading"
    <3>1. PICK last \in N : /\ last = cursor'
                            /\ \A i \in N : i = last \/ Newer(i, last)
                            /\ \A i \in Follow(S, c) \ N : Newer(last, i)
      BY <1>3, <1>4, <2>11 DEF GoesOn
    <3>2. last \in Ids /\ last \in PresentRows /\ last \in ShownIds'
      BY <1>10, <2>5
    <3>3. reader = "reading" => Newer(c, last) /\ c \in Ids
      BY <2>1, <2>3 DEF Follow, PresentRows
    <3>4. ASSUME NEW i \in Ids, reader = "reading", i = c \/ Newer(i, c) PROVE Newer(i, last)
      BY <2>4, <3>2, <3>3, <3>4
    <3>5. ASSUME NEW i \in PresentRows \cap (ShownIds \cup N) PROVE i = last \/ Newer(i, last)
      <4>1. CASE i \in N
        BY <3>1, <4>1
      <4>2. CASE i \in ShownIds
        <5>1. reader = "reading"
          BY <2>2, <4>2 DEF ShownIds
        <5>2. i \in Ids /\ (i = c \/ Newer(i, c))
          BY <2>3, <3>5, <4>2, <5>1 DEF ReadSoFar, PresentRows
        <5> QED BY <3>4, <5>1, <5>2
      <4> QED BY <3>5, <4>1, <4>2
    <3>6. ASSUME NEW d \in due', d \notin ShownIds \cup N PROVE Newer(last, d)
      BY <2>9, <3>1, <3>6
    <3>7. ASSUME ~tied, NoticeTold
          PROVE  /\ \A i \in NoticeRows : i = last \/ Newer(i, last)
                 /\ row[last].at = clock => NoticeRows # {}
      <4>1. reader = "reading"
        BY <2>2, <3>7 DEF NoticeTold
      <4>2. /\ \A i \in NoticeRows : i = c \/ Newer(i, c)
            /\ row[c].at = clock => NoticeRows # {}
        BY <2>3, <3>7, <4>1 DEF ReadSoFar
      <4>3. NoticeRows \subseteq Ids
        BY DEF NoticeRows, Of
      <4>4. row[last].at = clock => row[c].at = clock
        <5>1. row[c].at >= row[last].at /\ row[c].at <= clock
          <6>1. Newer(c, last) /\ c \in PresentRows
            BY <2>3, <3>3, <4>1
          <6>2. row[c].at \in Nat /\ row[last].at \in Nat
            BY <1>1, <3>2, <3>3, <4>1, TimelineAssumption DEF RowsOK
          <6> QED BY <1>1, <6>1, <6>2 DEF RowsOK, Newer
        <5>2. row[c].at \in Nat /\ clock \in Nat
          BY <1>1, <3>3, <4>1, TimelineAssumption DEF RowsOK
        <5> QED BY <5>1, <5>2
      <4> QED BY <3>4, <4>1, <4>2, <4>3, <4>4
    <3>8. ASSUME ~tied, NEW i \in N, Tells(i) = 0
          PROVE  (\A j \in NoticeRows : j = last \/ Newer(j, last)) /\ NoticeRows # {}
      <4>1. row[i].kind = "notice" /\ i \in events /\ i \in Ids
        BY <1>2, <1>9, <3>8 DEF Those
      <4>2. i \in Earliest(row) /\ i \in NoticeRows
        BY <4>1, ListedNoticeIsEarliest DEF NoticeRows, Of
      <4>3. ASSUME NEW j \in NoticeRows PROVE j = last \/ Newer(j, last)
        <5>1. j \in Ids /\ row[i].at \in Nat /\ row[j].at \in Nat
          BY <1>1, <4>1, TimelineAssumption DEF NoticeRows, Of, RowsOK
        <5>2. row[i].at <= row[j].at
          BY <4>2 DEF Earliest, NoticeRows
        <5>3. CASE row[i].at = row[j].at
          <6>1. j \in Earliest(row)
            BY <4>2, <5>3 DEF Earliest, NoticeRows
          <6>2. j = i
            BY <3>8, <4>2, <6>1 DEF TimelineIInv
          <6> QED BY <3>1, <6>2
        <5>4. CASE row[i].at # row[j].at
          <6>1. Newer(j, i)
            BY <5>1, <5>2, <5>4 DEF Newer
          <6>2. i = last \/ Newer(i, last)
            BY <3>1
          <6> QED BY <2>4, <3>2, <4>1, <5>1, <6>1, <6>2
        <5> QED BY <5>3, <5>4
      <4> QED BY <4>2, <4>3
    <3>9. NoticeTold' => NoticeTold \/ \E i \in N : Tells(i) = 0
      BY <1>8 DEF NoticeTold
    <3>10. NoticeRows' = NoticeRows /\ \A i, j : Newer(i, j)' = Newer(i, j)
      BY <1>5 DEF NoticeRows, Of, Newer
    <3>11. ASSUME NEW l \in Ids, l = last PROVE ReadSoFar(l)'
      <4>1. \A i \in PresentRows' \cap ShownIds' : i = l \/ Newer(i, l)'
        BY <1>6, <1>10, <3>5, <3>10, <3>11
      <4>2. \A i \in due' \ ShownIds' : Newer(l, i)'
        BY <1>10, <3>6, <3>10, <3>11
      <4>3. ~tied' /\ NoticeTold' => /\ \A i \in NoticeRows' : i = l \/ Newer(i, l)'
                                     /\ row'[l].at = clock' => NoticeRows' # {}
        <5> SUFFICES ASSUME ~tied, NoticeTold'
                     PROVE  /\ \A i \in NoticeRows' : i = l \/ Newer(i, l)'
                            /\ row'[l].at = clock' => NoticeRows' # {}
          BY <1>5
        <5>1. (\A i \in NoticeRows : i = l \/ Newer(i, l)) /\ (row[l].at = clock => NoticeRows # {})
          BY <3>7, <3>8, <3>9, <3>11
        <5> QED BY <1>5, <3>10, <5>1
      <4> QED BY <4>1, <4>2, <4>3 DEF ReadSoFar
    <3>12. ReadSoFar(cursor)'
      BY <3>1, <3>2, <3>11 DEF ReadSoFar
    <3> QED BY <1>5, <1>6, <1>11, <1>13, <1>14, <1>15, <1>16, <2>8, <2>11, <3>1, <3>2, <3>12 DEF TimelineIInv
  <2> QED BY <1>16, <2>10, <2>11
<1> QED BY <1>18, <1>19

\* PresentRows go: comments with their evidence, and a notification that is older than the present.
LEMMA DropKeeps ==
  ASSUME TimelineIInv, NEW later, RowsBecome(later),
         later \in [Ids -> [kind : TKinds \cup {"none"}, at : Times, on : Ids \cup {0}]],
         \A j \in Ids : later[j] = row[j] \/ later[j] = NoRow,
         \A j \in Ids : row[j].kind = "notice" /\ later[j] = NoRow => row[j].at < clock
  PROVE  TimelineIInv'
<1>1. /\ row' = later /\ due' = due \cap AlwaysListed(later)
      /\ tied' = (tied \/ \E n \in DedupNotices(later) : n # Earliest(later))
      /\ clock' = clock /\ filter' = filter /\ cursor' = cursor /\ reader' = reader
      /\ shown' = shown /\ again' = again /\ broken' = broken
  BY DEF RowsBecome, readerVars
<1>2. RowsOK
  BY DEF TimelineIInv
<1>3. PresentRows' \subseteq PresentRows /\ \A i \in PresentRows' : row'[i] = row[i]
  BY <1>1 DEF PresentRows
<1>4. RowsOK'
  <2>1. IsFiniteSet(PresentRows')
    BY <1>2, <1>3, FS_Subset DEF RowsOK
  <2>2. \A i \in Ids : row'[i].kind = "none" <=> row'[i] = NoRow
    BY <1>1, <1>2 DEF RowsOK, NoRow
  <2>3. \A i \in Ids : row'[i].kind = "notice" => row'[i].on = 0
    BY <1>1, <1>2 DEF RowsOK, NoRow
  <2> QED BY <1>1, <1>2, <1>3, <2>1, <2>2, <2>3 DEF RowsOK, PresentRows
<1>5. tied' \in BOOLEAN /\ (tied => tied') /\ (~tied' => \A n \in DedupNotices(later) : n = Earliest(later))
  BY <1>1 DEF TimelineIInv
<1>6. ~tied' => \A i, j \in Earliest(row') : i = j
  BY <1>1, <1>5, OneEarliest
<1>7. due' \subseteq due /\ due' \subseteq AlwaysListed(row') /\ due' \subseteq PresentRows'
  <2>1. AlwaysListed(row') \subseteq PresentRows'
    BY <1>1, AlwaysAreRows DEF PresentRows
  <2> QED BY <1>1, <2>1
<1>8. \A d \in due' : row'[d].kind \in filter'
  BY <1>1, <1>3, <1>7 DEF TimelineIInv
<1>9. (\A e \in shown : e.id \in Ids /\ e.tells \in {0, e.id})'
  BY <1>1 DEF TimelineIInv
<1>10. ShownIds' = ShownIds /\ NoticeTold' = NoticeTold
  BY <1>1 DEF ShownIds, NoticeTold
<1>11. NoticeRows' \subseteq NoticeRows /\ NoticeRows \subseteq Ids
  BY <1>1 DEF NoticeRows, Of, NoRow
<1>12. NoticeRows' \subseteq PresentRows'
  BY <1>4 DEF NoticeRows, Of, PresentRows, NoRow
<1>13. \A i, j \in PresentRows' : Newer(i, j)' = Newer(i, j)
  BY <1>3 DEF Newer
<1>14. ASSUME reader = "reading", NEW c \in PresentRows', c \in ShownIds, ReadSoFar(c) PROVE ReadSoFar(c)'
  <2>1. \A i \in PresentRows' \cap ShownIds' : i = c \/ Newer(i, c)'
    BY <1>3, <1>10, <1>13, <1>14 DEF ReadSoFar
  <2>2. \A i \in due' \ ShownIds' : Newer(c, i)'
    BY <1>7, <1>10, <1>13, <1>14 DEF ReadSoFar
  <2>3. ~tied' /\ NoticeTold' => /\ \A i \in NoticeRows' : i = c \/ Newer(i, c)'
                                 /\ row'[c].at = clock' => NoticeRows' # {}
    <3> SUFFICES ASSUME ~tied', NoticeTold'
                 PROVE  /\ \A i \in NoticeRows' : i = c \/ Newer(i, c)'
                        /\ row'[c].at = clock' => NoticeRows' # {}
      OBVIOUS
    <3>1. /\ \A i \in NoticeRows : i = c \/ Newer(i, c)
          /\ row[c].at = clock => NoticeRows # {}
      BY <1>5, <1>10, <1>14 DEF ReadSoFar
    <3>2. \A i \in NoticeRows' : i = c \/ Newer(i, c)'
      BY <1>11, <1>12, <1>13, <3>1
    <3>3. ASSUME row'[c].at = clock' PROVE NoticeRows' # {}
      <4>1. row[c].at = clock /\ c \in Ids
        BY <1>1, <1>3, <3>3 DEF PresentRows
      <4>2. PICK i \in NoticeRows : i = c \/ Newer(i, c)
        BY <3>1, <4>1
      <4>3. row[i].at \in Nat /\ clock \in Nat /\ i \in Ids /\ row[i].kind = "notice"
        BY <1>2, <1>11, TimelineAssumption DEF RowsOK, NoticeRows, Of
      <4>4. ~ (row[i].at < clock)
        BY <4>1, <4>2, <4>3 DEF Newer
      <4>5. row'[i] = row[i]
        BY <1>1, <4>3, <4>4
      <4> QED BY <4>3, <4>5 DEF NoticeRows, Of
    <3> QED BY <3>2, <3>3
  <2> QED BY <2>1, <2>2, <2>3 DEF ReadSoFar
<1>15. reader' = "reading" => cursor' \in ShownIds' /\ (row'[cursor'] # NoRow => ReadSoFar(cursor)')
  <2> SUFFICES ASSUME reader = "reading" PROVE cursor' \in ShownIds' /\ (row'[cursor'] # NoRow => ReadSoFar(cursor)')
    BY <1>1
  <2>1. cursor \in ShownIds /\ cursor \in Ids /\ (row[cursor] # NoRow => ReadSoFar(cursor))
    BY <1>9, <1>1 DEF TimelineIInv, ShownIds
  <2>2. ASSUME row'[cursor'] # NoRow PROVE ReadSoFar(cursor)'
    <3>1. PICK c \in PresentRows' : c = cursor
      BY <1>1, <2>1, <2>2 DEF PresentRows
    <3>2. ReadSoFar(cursor) = ReadSoFar(c) /\ row[cursor] # NoRow
      BY <1>3, <3>1 DEF PresentRows, ReadSoFar
    <3>3. ReadSoFar(c)'
      BY <1>14, <2>1, <3>1, <3>2
    <3>4. ReadSoFar(cursor)' = ReadSoFar(c)'
      BY <1>1, <3>1 DEF ReadSoFar
    <3> QED BY <3>3, <3>4
  <2> QED BY <1>1, <1>10, <2>1, <2>2
<1>16. (reader = "closed" => shown = {} /\ due = {} /\ cursor = 0)'
  BY <1>1 DEF TimelineIInv
<1>17. (again \subseteq IF tied THEN {0} ELSE {})'
  BY <1>1, <1>5 DEF TimelineIInv
<1>18. (reader = "finished" => broken \/ due \subseteq ShownIds)'
  BY <1>1, <1>7, <1>10 DEF TimelineIInv
<1>19. filter' \subseteq TKinds /\ cursor' \in Ids \cup {0} /\ reader' \in {"closed", "reading", "finished"} /\ broken' \in BOOLEAN
  BY <1>1 DEF TimelineIInv
<1> QED BY <1>4, <1>5, <1>6, <1>7, <1>8, <1>9, <1>15, <1>16, <1>17, <1>18, <1>19 DEF TimelineIInv

\* A row comes, at the present time.
LEMMA PutKeeps ==
  ASSUME TimelineIInv, NEW p \in Ids, NEW sort \in TKinds, NEW on \in Ids \cup {0},
         sort = "notice" => on = 0, Put(p, sort, on)
  PROVE  TimelineIInv'
<1>1. PICK later : later = [row EXCEPT ![p] = [kind |-> sort, at |-> clock, on |-> on]]
  OBVIOUS
<1>2. /\ row' = later /\ due' = due \cap AlwaysListed(later)
      /\ tied' = (tied \/ \E n \in DedupNotices(later) : n # Earliest(later))
      /\ clock' = clock /\ filter' = filter /\ cursor' = cursor /\ reader' = reader
      /\ shown' = shown /\ again' = again /\ broken' = broken
      /\ row[p] = NoRow /\ \A e \in shown : e.id # p
  BY <1>1 DEF Put, RowsBecome, readerVars
<1>3. RowsOK
  BY DEF TimelineIInv
<1>4. /\ later \in [Ids -> [kind : TKinds \cup {"none"}, at : Times, on : Ids \cup {0}]]
      /\ later[p].kind = sort /\ later[p].at = clock /\ later[p].on = on
      /\ \A j \in Ids \ {p} : later[j] = row[j]
  BY <1>1, <1>3 DEF RowsOK
<1>5. later[p] # NoRow /\ sort # "none"
  BY <1>4 DEF NoRow, TKinds
<1>6. PresentRows' = PresentRows \cup {p} /\ p \notin PresentRows /\ \A j \in PresentRows : row'[j] = row[j] /\ j \in Ids
  BY <1>2, <1>4, <1>5 DEF PresentRows
<1>7. RowsOK'
  <2>1. IsFiniteSet(PresentRows')
    BY <1>3, <1>6, FS_AddElement DEF RowsOK
  <2>2. \A i \in Ids : row'[i].kind = "none" <=> row'[i] = NoRow
    BY <1>2, <1>3, <1>4, <1>5 DEF RowsOK
  <2>3. \A i \in Ids : row'[i].kind = "notice" => row'[i].on = 0
    BY <1>2, <1>3, <1>4 DEF RowsOK
  <2>4. clock \in Nat
    BY <1>3, TimelineAssumption DEF RowsOK
  <2>5. \A i \in PresentRows' : row'[i].at <= clock'
    BY <1>2, <1>3, <1>4, <1>6, <2>4 DEF RowsOK
  <2> QED BY <1>2, <1>3, <1>4, <2>1, <2>2, <2>3, <2>5 DEF RowsOK
<1>8. tied' \in BOOLEAN /\ (tied => tied') /\ (~tied' => \A n \in DedupNotices(later) : n = Earliest(later))
  BY <1>2 DEF TimelineIInv
<1>9. ~tied' => \A i, j \in Earliest(row') : i = j
  BY <1>2, <1>8, OneEarliest
<1>10. due' \subseteq due /\ due' \subseteq AlwaysListed(row') /\ due \subseteq PresentRows
  <2>1. AlwaysListed(row) \subseteq PresentRows
    BY AlwaysAreRows DEF PresentRows
  <2> QED BY <1>2, <2>1 DEF TimelineIInv
<1>11. \A d \in due' : row'[d].kind \in filter'
  BY <1>2, <1>6, <1>10 DEF TimelineIInv
<1>12. (\A e \in shown : e.id \in Ids /\ e.tells \in {0, e.id})'
  BY <1>2 DEF TimelineIInv
<1>13. ShownIds' = ShownIds /\ NoticeTold' = NoticeTold /\ p \notin ShownIds
  BY <1>2 DEF ShownIds, NoticeTold
<1>14. /\ NoticeRows \subseteq NoticeRows' /\ NoticeRows' \subseteq NoticeRows \cup {p}
       /\ NoticeRows \subseteq PresentRows /\ (p \in NoticeRows' => sort = "notice")
  BY <1>2, <1>4, <1>6 DEF NoticeRows, Of, PresentRows, NoRow
<1>15. \A i, j \in PresentRows : Newer(i, j)' = Newer(i, j)
  BY <1>6 DEF Newer
<1>16. \A i \in PresentRows' : row'[i].at \in Nat /\ clock \in Nat
  BY <1>2, <1>3, <1>4, <1>6, TimelineAssumption DEF RowsOK
<1>17. ASSUME reader = "reading", NEW c \in PresentRows, c \in ShownIds, ReadSoFar(c) PROVE ReadSoFar(c)'
  <2>1. \A i \in PresentRows' \cap ShownIds' : i = c \/ Newer(i, c)'
    BY <1>6, <1>13, <1>15, <1>17 DEF ReadSoFar
  <2>2. \A i \in due' \ ShownIds' : Newer(c, i)'
    BY <1>10, <1>13, <1>15, <1>17 DEF ReadSoFar
  <2>3. ~tied' /\ NoticeTold' => /\ \A i \in NoticeRows' : i = c \/ Newer(i, c)'
                                 /\ row'[c].at = clock' => NoticeRows' # {}
    <3> SUFFICES ASSUME ~tied', NoticeTold'
                 PROVE  /\ \A i \in NoticeRows' : i = c \/ Newer(i, c)'
                        /\ row'[c].at = clock' => NoticeRows' # {}
      OBVIOUS
    <3>1. /\ \A i \in NoticeRows : i = c \/ Newer(i, c)
          /\ row[c].at = clock => NoticeRows # {}
      BY <1>8, <1>13, <1>17 DEF ReadSoFar
    <3>2. row'[c] = row[c] /\ row[c].at <= clock /\ row[c].at \in Nat /\ clock \in Nat /\ c # p
      BY <1>3, <1>6, <1>16 DEF RowsOK
    <3>3. row'[c].at = clock' => NoticeRows' # {}
      BY <1>2, <1>14, <3>1, <3>2
    <3>4. ASSUME p \in NoticeRows' PROVE Newer(p, c)'
      <4>1. CASE row[c].at < clock
        BY <1>2, <1>4, <3>2, <4>1 DEF Newer
      <4>2. CASE row[c].at = clock
        <5>1. PICK j \in NoticeRows : TRUE
          BY <3>1, <4>2
        <5>2. ASSUME NEW n \in NoticeRows PROVE row'[n].at = clock
          <6>1. n = c \/ Newer(n, c)
            BY <3>1
          <6>2. n \in PresentRows /\ row'[n] = row[n] /\ row[n].at <= clock /\ row[n].at \in Nat
            BY <1>3, <1>6, <1>14, <1>16 DEF RowsOK
          <6> QED BY <3>2, <4>2, <6>1, <6>2 DEF Newer
        <5>3. \A n \in NoticeRows' : row'[n].at = clock
          BY <1>2, <1>4, <1>14, <5>2
        <5>4. p \in Earliest(row') /\ j \in Earliest(row')
          BY <1>14, <1>16, <3>2, <3>4, <5>1, <5>3 DEF Earliest, NoticeRows
        <5>5. p # j
          BY <1>6, <1>14, <5>1
        <5> QED BY <1>9, <5>4, <5>5
      <4> QED BY <3>2, <4>1, <4>2
    <3>5. \A i \in NoticeRows : Newer(i, c)' = Newer(i, c)
      BY <1>14, <1>15
    <3>6. \A i \in NoticeRows' : i = c \/ Newer(i, c)'
      BY <1>14, <3>1, <3>4, <3>5
    <3> QED BY <3>3, <3>6
  <2> QED BY <2>1, <2>2, <2>3 DEF ReadSoFar
<1>18. reader' = "reading" => cursor' \in ShownIds' /\ (row'[cursor'] # NoRow => ReadSoFar(cursor)')
  <2> SUFFICES ASSUME reader = "reading" PROVE cursor' \in ShownIds' /\ (row'[cursor'] # NoRow => ReadSoFar(cursor)')
    BY <1>2
  <2>1. cursor \in ShownIds /\ cursor \in Ids /\ (row[cursor] # NoRow => ReadSoFar(cursor))
    BY <1>2 DEF TimelineIInv, ShownIds
  <2>2. ASSUME row'[cursor'] # NoRow PROVE ReadSoFar(cursor)'
    <3>1. PICK c \in PresentRows : c = cursor
      BY <1>2, <1>4, <1>13, <2>1, <2>2 DEF PresentRows
    <3>2. ReadSoFar(cursor) = ReadSoFar(c) /\ row[cursor] # NoRow
      BY <3>1 DEF PresentRows, ReadSoFar
    <3>3. ReadSoFar(c)'
      BY <1>17, <2>1, <3>1, <3>2
    <3>4. ReadSoFar(cursor)' = ReadSoFar(c)'
      BY <1>2, <3>1 DEF ReadSoFar
    <3> QED BY <3>3, <3>4
  <2> QED BY <1>2, <1>13, <2>1, <2>2
<1>19. (reader = "closed" => shown = {} /\ due = {} /\ cursor = 0)'
  BY <1>2 DEF TimelineIInv
<1>20. (again \subseteq IF tied THEN {0} ELSE {})'
  BY <1>2, <1>8 DEF TimelineIInv
<1>21. (reader = "finished" => broken \/ due \subseteq ShownIds)'
  BY <1>2, <1>10, <1>13 DEF TimelineIInv
<1>22. filter' \subseteq TKinds /\ cursor' \in Ids \cup {0} /\ reader' \in {"closed", "reading", "finished"} /\ broken' \in BOOLEAN
  BY <1>2 DEF TimelineIInv
<1> QED BY <1>7, <1>8, <1>9, <1>10, <1>11, <1>12, <1>18, <1>19, <1>20, <1>21, <1>22 DEF TimelineIInv

\* Time goes on.
LEMMA TickKeeps == ASSUME TimelineIInv, Tick PROVE TimelineIInv'
<1>1. /\ clock' \in Times /\ clock' = clock + 1 /\ row' = row /\ due' = due /\ tied' = tied
      /\ filter' = filter /\ cursor' = cursor /\ reader' = reader
      /\ shown' = shown /\ again' = again /\ broken' = broken
  BY DEF Tick, readerVars
<1>2. RowsOK /\ \A i \in Ids : row[i].at \in Nat /\ clock \in Nat
  BY TimelineAssumption DEF TimelineIInv, RowsOK
<1>3. PresentRows' = PresentRows /\ ShownIds' = ShownIds /\ NoticeTold' = NoticeTold /\ NoticeRows' = NoticeRows
  BY <1>1 DEF PresentRows, ShownIds, NoticeTold, NoticeRows, Of
<1>4. \A i, j : Newer(i, j)' = Newer(i, j)
  BY <1>1 DEF Newer
<1>5. \A i \in PresentRows : row[i].at < clock'
  BY <1>1, <1>2 DEF RowsOK, PresentRows
<1>6. RowsOK'
  <2>1. \A i \in PresentRows' : row'[i].at <= clock'
    BY <1>1, <1>2, <1>3 DEF RowsOK, PresentRows
  <2> QED BY <1>1, <1>2, <1>3, <2>1 DEF RowsOK
<1>7. ASSUME NEW c \in PresentRows, ReadSoFar(c) PROVE ReadSoFar(c)'
  <2>1. row'[c].at # clock'
    BY <1>1, <1>2, <1>5 DEF PresentRows
  <2> QED BY <1>1, <1>3, <1>4, <1>7, <2>1 DEF ReadSoFar
<1>8. reader' = "reading" => cursor' \in ShownIds' /\ (row'[cursor'] # NoRow => ReadSoFar(cursor)')
  <2> SUFFICES ASSUME reader = "reading" PROVE cursor' \in ShownIds' /\ (row'[cursor'] # NoRow => ReadSoFar(cursor)')
    BY <1>1
  <2>1. cursor \in ShownIds /\ cursor \in Ids /\ (row[cursor] # NoRow => ReadSoFar(cursor))
    BY DEF TimelineIInv, ShownIds
  <2>2. ASSUME row'[cursor'] # NoRow PROVE ReadSoFar(cursor)'
    <3>1. PICK c \in PresentRows : c = cursor
      BY <1>1, <2>1, <2>2 DEF PresentRows
    <3>2. ReadSoFar(cursor) = ReadSoFar(c) /\ row[cursor] # NoRow
      BY <3>1 DEF PresentRows, ReadSoFar
    <3>3. ReadSoFar(c)'
      BY <1>7, <2>1, <3>1, <3>2
    <3>4. ReadSoFar(cursor)' = ReadSoFar(c)'
      BY <1>1, <3>1 DEF ReadSoFar
    <3> QED BY <3>3, <3>4
  <2> QED BY <1>1, <1>3, <2>1, <2>2
<1> QED BY <1>1, <1>3, <1>6, <1>8 DEF TimelineIInv

\* The first page, of the kinds the reader asks for.
LEMMA FirstPageKeeps == ASSUME TimelineIInv, NEW types, FirstPage(types) PROVE TimelineIInv'
<1>1. PICK kinds \in SUBSET TKinds : kinds = filter'
  BY DEF FirstPage, ParseTypes, TKinds
<1>2. /\ reader = "closed" /\ due' = {i \in AlwaysListed(row) : row[i].kind \in kinds}
      /\ \E events \in ListedEvents(row) : Page(events, filter', 0)
  BY <1>1 DEF FirstPage
<1>3. PICK events \in ListedEvents(row) : Page(events, filter', 0)
  BY <1>2
<1>4. Page(events, kinds, cursor)
  <2>1. cursor = 0
    BY <1>2 DEF TimelineIInv
  <2> QED BY <1>1, <1>3, <2>1
<1> QED BY <1>1, <1>2, <1>4, PageKeeps

\* The page after a cursor.
LEMMA NextPageKeeps == ASSUME TimelineIInv, NextPage PROVE TimelineIInv'
<1>1. PICK events \in ListedEvents(row) : Page(events, filter, cursor)
  BY DEF NextPage
<1>2. reader = "reading" /\ filter' = filter /\ due' = due
  BY DEF NextPage
<1>3. PICK kinds \in SUBSET TKinds : kinds = filter
  BY DEF TimelineIInv
<1>4. \A d \in due' : d \in AlwaysListed(row) /\ row[d].kind \in kinds
  BY <1>2, <1>3 DEF TimelineIInv
<1> QED BY <1>1, <1>2, <1>3, <1>4, PageKeeps

\* Every row that comes or goes.
LEMMA RowStepKeeps ==
  ASSUME TimelineIInv, NEW i \in Ids,
         \/ AddEvidence(i) \/ AddNotice(i) \/ AddRelease(i) \/ AddPayment(i)
         \/ \E on \in Ids : AddComment(i, on)
         \/ DropEvidence(i) \/ DropComment(i) \/ DropNotice(i)
  PROVE  TimelineIInv'
<1>1. CASE \E sort \in TKinds, on \in Ids \cup {0} : (sort = "notice" => on = 0) /\ Put(i, sort, on)
  BY <1>1, PutKeeps
<1>2. CASE AddEvidence(i) \/ AddNotice(i) \/ AddRelease(i) \/ AddPayment(i)
  <2>1. \E sort \in TKinds : Put(i, sort, 0)
    BY <1>2 DEF AddEvidence, AddNotice, AddRelease, AddPayment, TKinds
  <2> QED BY <1>1, <2>1
<1>3. CASE \E on \in Ids : AddComment(i, on)
  <2>1. "comment" \in TKinds /\ \E on \in Ids : Put(i, "comment", on)
    BY <1>3 DEF AddComment, TKinds
  <2> QED BY <1>1, <2>1
<1>4. row \in [Ids -> [kind : TKinds \cup {"none"}, at : Times, on : Ids \cup {0}]] /\ RowsOK
  BY DEF TimelineIInv, RowsOK
<1>5. NoRow \in [kind : TKinds \cup {"none"}, at : Times, on : Ids \cup {0}]
  BY TimelineAssumption DEF NoRow
<1>6. CASE DropEvidence(i)
  <2>1. PICK later : later = [j \in Ids |-> IF j = i \/ row[j].on = i THEN NoRow ELSE row[j]]
    OBVIOUS
  <2>2. row[i].kind = "evidence" /\ RowsBecome(later)
    BY <1>6, <2>1 DEF DropEvidence
  <2>3. later \in [Ids -> [kind : TKinds \cup {"none"}, at : Times, on : Ids \cup {0}]]
    BY <1>4, <1>5, <2>1
  <2>4. \A j \in Ids : later[j] = row[j] \/ (later[j] = NoRow /\ (j = i \/ row[j].on = i))
    BY <2>1
  <2>5. ASSUME NEW j \in Ids, row[j].kind = "notice", later[j] = NoRow PROVE row[j].at < clock
    <3>1. row[j].on = 0 /\ i # 0 /\ j # i /\ row[j] # NoRow
      BY <1>4, <2>2, <2>5, TimelineAssumption DEF RowsOK, NoRow
    <3> QED BY <2>4, <2>5, <3>1
  <2> QED BY <2>2, <2>3, <2>4, <2>5, DropKeeps
<1>7. CASE DropComment(i) \/ DropNotice(i)
  <2>1. PICK later : later = [row EXCEPT ![i] = NoRow]
    OBVIOUS
  <2>2. RowsBecome(later) /\ (row[i].kind = "notice" => row[i].at < clock)
    BY <1>7, <2>1 DEF DropComment, DropNotice
  <2>3. /\ later \in [Ids -> [kind : TKinds \cup {"none"}, at : Times, on : Ids \cup {0}]]
        /\ later[i] = NoRow /\ \A j \in Ids \ {i} : later[j] = row[j]
    BY <1>4, <1>5, <2>1
  <2>4. ASSUME NEW j \in Ids, row[j].kind = "notice", later[j] = NoRow PROVE row[j].at < clock
    <3>1. row[j] # NoRow
      BY <2>4 DEF NoRow
    <3> QED BY <2>2, <2>3, <2>4, <3>1
  <2> QED BY <2>2, <2>3, <2>4, DropKeeps
<1> QED BY <1>2, <1>3, <1>6, <1>7

\* Nothing changes.
LEMMA TimelineStutterKeeps == ASSUME TimelineIInv, UNCHANGED timelineVars PROVE TimelineIInv'
<1>1. /\ clock' = clock /\ row' = row /\ due' = due /\ tied' = tied
      /\ filter' = filter /\ cursor' = cursor /\ reader' = reader
      /\ shown' = shown /\ again' = again /\ broken' = broken
  BY DEF timelineVars
<1>2. PresentRows' = PresentRows /\ ShownIds' = ShownIds /\ NoticeTold' = NoticeTold /\ NoticeRows' = NoticeRows
  BY <1>1 DEF PresentRows, ShownIds, NoticeTold, NoticeRows, Of
<1>3. \A i, j : Newer(i, j)' = Newer(i, j)
  BY <1>1 DEF Newer
<1>4. RowsOK'
  BY <1>1, <1>2 DEF TimelineIInv, RowsOK
<1>5. ReadSoFar(cursor)' = ReadSoFar(cursor)
  BY <1>1, <1>2, <1>3 DEF ReadSoFar
<1> QED BY <1>1, <1>2, <1>4, <1>5 DEF TimelineIInv

\* Every step keeps the invariant.
LEMMA TimelineStepKeeps == TimelineIInv /\ [TimelineNext]_timelineVars => TimelineIInv'
BY RowStepKeeps, TickKeeps, FirstPageKeeps, NextPageKeeps, TimelineStutterKeeps DEF TimelineNext

\* What was shown stands before the cursor's event and what is due behind it, in every
\* behaviour (getProjectTimeline).
THEOREM TimelineHolds == TimelineSpec => []TimelineIInv
BY TimelineInitial, TimelineStepKeeps, PTL DEF TimelineSpec

\* The invariant is more than the types and that pages show everything once.
LEMMA TimelineFollows == TimelineIInv => TimelineTypeOK /\ PagesShowOnce
<1> SUFFICES ASSUME TimelineIInv PROVE TimelineTypeOK /\ PagesShowOnce
  OBVIOUS
<1>1. AlwaysListed(row) \subseteq Ids
  BY DEF AlwaysListed
<1>2. TimelineTypeOK
  BY <1>1 DEF TimelineIInv, TimelineTypeOK, RowsOK
<1>3. PagesShowOnce
  BY DEF TimelineIInv, PagesShowOnce, ShownIds
<1> QED BY <1>2, <1>3

\* Pages that are read one after the other, while rows come and go between them, show
\* nothing again and everything that was there throughout, unless the cursor's own event
\* is gone or notifications of one moment tie (getProjectTimeline of ProjectsService).
THEOREM PagesRepeatNothing == TimelineSpec => []PagesShowOnce
<1>1. TimelineIInv => PagesShowOnce
  BY TimelineFollows
<1> QED BY <1>1, TimelineHolds, PTL

-----------------------------------------------------------------------------
(***************************************************************************)
(* The whole.  A component's invariant holds of every behaviour in which   *)
(* the component does what its module says, whatever the others do.        *)
(***************************************************************************)

\* Every component's state has its type in every state of every behaviour.
THEOREM FieldWorkTypeCorrect == FieldWorkSpec => []TypesOK
<1>1. DeviceSpec => []DeviceInv
  BY DeviceStart, DeviceStep, PTL DEF DeviceSpec
<1>2. DeviceInv => DeviceTypeOK
  BY DEF DeviceInv
<1>3. /\ StaffIInv => StaffingTypeOK
      /\ ToolIInv => ToolTypeOK
      /\ FileIInv => FileTypeOK
      /\ AccessIInv => AccessTypeOK
      /\ TimelineIInv => TimelineTypeOK
      /\ NoticeIInv => NoticeTypeOK
      /\ AccountIInv => AccountTypeOK
      /\ OrgIInv => OrgTypeOK
      /\ TwinIInv => TwinTypeOK
      /\ ReportIInv => ReportTypeOK
      /\ PriceIInv => PriceTypeOK
  BY StaffFollows, ToolsFollow, FilesFollow, AccessFollows, TimelineFollows, NoticesFollow, AccountsFollow,
     OneOrganisationFollows, TwinsFollow, ReportsInvariantSuffices, PricesFollow
<1>4. RatingIInv => RatingTypeOK
  BY DEF RatingIInv
<1>5. /\ StaffingTypeOK /\ ToolTypeOK /\ FileTypeOK /\ ListTypeOK /\ AccessTypeOK
      /\ TimelineTypeOK /\ NoticeTypeOK /\ DeviceTypeOK /\ AccountTypeOK /\ OrgTypeOK
      /\ TwinTypeOK /\ ReportTypeOK /\ RatingTypeOK /\ PriceTypeOK /\ SignatureTypeOK
      => TypesOK
  BY DEF TypesOK
<1> QED
  BY <1>1, <1>2, <1>3, <1>4, <1>5, StaffHolds, ToolsHold, FilesHold, CacheIsCurrent, AccessHold,
     TimelineHolds, NoticesHold, AccountsHold, OrganisationsHold, TwinsHold, ReportsHold,
     RatingsHold, PricesHold, SignaturesHold, PTL DEF FieldWorkSpec

\* However assignments, crews, contracts and phases are written in several statements and
\* meet, a worker has one row, a phase's worker is assigned and the contract's worker
\* leads, unless a request is on its way to make it so or the history excuses it: a lead
\* assigned directly, or a contract that was written without the leads' following it
\* (AssignmentsService, CrewsService, PhasesService, ContractsService).
THEOREM StaffIsAgreedOn == FieldWorkSpec => []StaffingAgrees
<1>1. StaffIInv => StaffingAgrees
  BY StaffFollows DEF StaffingAgrees
<1> QED BY <1>1, StaffHolds, PTL DEF FieldWorkSpec

\* Whatever requests lend, return, replace images and remove, a tool has one open checkout
\* and its row names an image that is stored, unless two met at the check, a request has
\* yet to write the row or one was cut before it could (ToolsService).
THEOREM ToolsAreInOnePlace == FieldWorkSpec => []ToolsAgree
<1>1. ToolIInv => ToolsAgree
  BY ToolsFollow DEF ToolsAgree
<1> QED BY <1>1, ToolsHold, PTL DEF FieldWorkSpec

\* Rows and stored objects agree although they are written one after the other: evidence
\* and documents, whether an app had stored what it registers or not and whoever deletes
\* the rows, reports that Bull runs again and drawn signatures (EvidenceService,
\* DocumentsService, AdminService, ReportProcessor, SignaturesService).
THEOREM RowsNameWhatIsStored == FieldWorkSpec => []StoredFilesAgree
<1>1. FileIInv /\ ReportIInv /\ SignatureTypeOK /\ SignaturesAgree => StoredFilesAgree
  BY FilesFollow, ReportsInvariantSuffices DEF StoredFilesAgree
<1> QED BY <1>1, FilesHold, ReportsHold, SignaturesHold, PTL DEF FieldWorkSpec

\* Whatever is written between the reads of a request, it is granted only on grounds that
\* were there while it was served, and nobody is refused to see a project who had enough of
\* them all the time; of the projects without a contract, which a worker is listed but may
\* not open, nothing is said (ProjectsService, EvidenceService, ProjectEvidenceService).
THEOREM ConditionsAgree == FieldWorkSpec => []AccessAgrees
<1>1. AccessIInv => AccessAgrees
  BY AccessFollows DEF AccessAgrees
<1> QED BY <1>1, AccessHold, PTL DEF FieldWorkSpec

\* However people sign in under any role, are made or deleted by an administrator, are given
\* projects and redeem invitations, accounts, logins, profiles and invitations agree, and an
\* administrator has one organisation, unless requests raced or were cut, or a project was
\* given away with an invitation to it still open (AuthService, AdminService,
\* ProjectsService, InvitesService, CrewsService).
THEOREM PeopleAreTheSameEverywhere == FieldWorkSpec => []PeopleAgree
<1>1. AccountIInv /\ OrgIInv => PeopleAgree
  BY AccountsFollow, OneOrganisationFollows DEF PeopleAgree
<1> QED BY <1>1, AccountsHold, OrganisationsHold, PTL DEF FieldWorkSpec

\* The average of a worker is of the ratings there are, unless two were given at once; the
\* parts of every budget and of every bill add up, for any amounts and either rounding of half
\* a cent; the next number is free and a number that was sent is nobody else's as long as its
\* invoice is there (ProjectsService, InvoiceService).
THEOREM FiguresAddUp == FieldWorkSpec => []FiguresAgree
<1>1. RatingIInv /\ PriceIInv => FiguresAgree
  BY PricesFollow DEF RatingIInv, FiguresAgree
<1> QED BY <1>1, RatingsHold, PricesHold, PTL DEF FieldWorkSpec
=============================================================================
