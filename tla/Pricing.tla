------------------------------ MODULE Pricing ------------------------------
(***************************************************************************)
(* The arithmetic of money and of invoice numbers.  ProjectsService splits *)
(* a template's budget over its phases in cents; InvoiceService computes a *)
(* fee and a total, rounded to cents in doubles, and numbers an invoice with *)
(* one more than the last number of the year, found by the order of the    *)
(* strings.  Amounts are in cents, the fee in hundredths of a per cent.    *)
(***************************************************************************)
EXTENDS Integers, FiniteSets

CONSTANTS NRequests,     \* requests served at once
          Base,          \* digits: 10 in the code
          Width,         \* digits a number is padded to: 3 in the code
          MaxNumber,     \* bound: numbers given
          Totals, Phases, Fees,    \* inputs: budgets and subtotals, phase counts, fees
          NoNumber

ASSUME PricingAssumption ==
  /\ Base \in Nat \ {0, 1} /\ Width \in Nat \ {0} /\ MaxNumber \in Nat
  /\ Totals \subseteq Nat /\ Phases \subseteq Nat \ {0} /\ Fees \subseteq Nat
  /\ NoNumber \notin Nat

VARIABLES
  numbered,    \* invoices by number: "none", "draft" or "sent"
  shownTo,     \* history: per number, the invoices that were sent with it
  withdrawn,   \* history: numbers of sent invoices that were deleted
  budget,      \* the last project made from a template: its total and its phases' amounts
  bill,        \* the last totals computed
  ipc, iloc  \* per request: the await it stands at and the number it holds

priceVars == <<numbered, shownTo, withdrawn, budget, bill, ipc, iloc>>

Numbers == 1..MaxNumber
NoBudget == [total |-> 0, n |-> 1, amounts |-> [i \in 1..1 |-> 0]]
NoBill   == [subtotal |-> 0, percent |-> 0, absorbed |-> FALSE, fee |-> 0, total |-> 0]

PriceInit ==
  /\ numbered = [i \in Numbers |-> "none"]
  /\ shownTo = [i \in Numbers |-> 0]
  /\ withdrawn = {}
  /\ budget = NoBudget /\ bill = NoBill
  /\ ipc = [r \in NRequests |-> "idle"]
  /\ iloc = [r \in NRequests |-> NoNumber]

NGo(r, at, i) == ipc' = [ipc EXCEPT ![r] = at] /\ iloc' = [iloc EXCEPT ![r] = i]
NDone(r) == NGo(r, "idle", NoNumber)

-----------------------------------------------------------------------------
(* The split of a template's budget (ProjectsService.create).              *)

\* Mutation: every phase gets the rounded share.
SplitEvenly(total, n) == [i \in 1..n |-> total \div n]

SplitBudget(total, n) ==
  LET base == total \div n IN
  [i \in 1..n |-> IF i = n THEN base + (total - base * n) ELSE base]

FromTemplate(total, n) ==
  /\ budget' = [total |-> total, n |-> n, amounts |-> SplitBudget(total, n)]
  /\ UNCHANGED <<numbered, shownTo, withdrawn, bill, ipc, iloc>>

-----------------------------------------------------------------------------
(* calculateInvoiceTotals: the client pays the fee or the contractor does. *)

\* Math.round of a double: half a cent goes up, or down when the double is below it (2.5 % of
\* 403.00 gives 10.07), and no other amount comes near enough to a half to be off.
Fee(subtotal, percent) ==
  LET scaled == subtotal * percent
      up     == (scaled + 5000) \div 10000 IN
  {up} \cup {down \in {up - 1} : scaled = 10000 * down + 5000}

Bill(subtotal, percent, absorbed, fee) ==
  [subtotal |-> subtotal, percent |-> percent, absorbed |-> absorbed, fee |-> fee,
   total |-> IF absorbed THEN subtotal ELSE subtotal + fee]

CalculateTotals(subtotal, percent, absorbed) ==
  /\ \E fee \in Fee(subtotal, percent) : bill' = Bill(subtotal, percent, absorbed, fee)
  /\ UNCHANGED <<numbered, shownTo, withdrawn, budget, ipc, iloc>>

-----------------------------------------------------------------------------
(* Numbers.                                                                *)

\* The least number with more digits than the padding.
Padded == Base ^ Width

\* True of all of them, but no prover here knows what a power is.
ASSUME PaddedAssumption == Padded \in Nat

\* a's string sorts after b's: equally long ones by value, a longer one by its
\* first digits (numbers of up to one digit more than the padding).
SortsAfter(a, b) ==
  CASE (a < Padded) = (b < Padded) -> a > b
    [] a >= Padded /\ b < Padded   -> a \div Base >= b
    [] OTHER                       -> a > b \div Base

Used == {i \in Numbers : numbered[i] # "none"}
LastNumber(used) == IF used = {} THEN 0
              ELSE CHOOSE a \in used : \A b \in used \ {a} : SortsAfter(a, b)

generateInvoiceNumber(r) ==
  /\ ipc[r] = "idle"
  /\ LastNumber(Used) < MaxNumber
  /\ NGo(r, "insert", LastNumber(Used) + 1)
  /\ UNCHANGED <<numbered, shownTo, withdrawn, budget, bill>>

\* The column is unique: the second of two invoices with one number fails.
InsertInvoice(r) ==
  /\ ipc[r] = "insert"
  /\ numbered' = IF numbered[iloc[r]] = "none" THEN [numbered EXCEPT ![iloc[r]] = "draft"]
                 ELSE numbered
  /\ NDone(r)
  /\ UNCHANGED <<shownTo, withdrawn, budget, bill>>

\* sendInvoice ends with the row sent and the client told its number.
SendNumber(i) ==
  /\ numbered[i] = "draft"
  /\ numbered' = [numbered EXCEPT ![i] = "sent"]
  /\ shownTo' = [shownTo EXCEPT ![i] = @ + 1]
  /\ UNCHANGED <<withdrawn, budget, bill, ipc, iloc>>

DeleteDraftRead(r, i) ==
  /\ ipc[r] = "idle" /\ numbered[i] = "draft"
  /\ NGo(r, "delete", i)
  /\ UNCHANGED <<numbered, shownTo, withdrawn, budget, bill>>

\* Rows go, with their numbers; a request that was about to delete one of them by its id
\* throws, even when the number has a new row by then.
InvoicesGo(gone, ends) ==
  /\ numbered' = [i \in Numbers |-> IF i \in gone THEN "none" ELSE numbered[i]]
  /\ withdrawn' = withdrawn \cup {i \in gone : numbered[i] = "sent"}
  /\ ipc'  = [q \in NRequests |-> IF q \in ends THEN "idle" ELSE ipc[q]]
  /\ iloc' = [q \in NRequests |-> IF q \in ends THEN NoNumber ELSE iloc[q]]
  /\ UNCHANGED <<shownTo, budget, bill>>

Deleting(gone) == {q \in NRequests : ipc[q] = "delete" /\ iloc[q] \in gone}

\* The delete does not ask again whether the invoice is a draft.
DeleteDraft(r) ==
  /\ ipc[r] = "delete"
  /\ InvoicesGo({iloc[r]}, Deleting({iloc[r]}))

\* ProjectsService.remove: a project that is a draft goes with its invoices, whatever they are.
RemoveWithProject(gone) ==
  /\ gone \subseteq Used /\ gone # {}
  /\ InvoicesGo(gone, Deleting(gone))

PriceFail(r) ==
  /\ ipc[r] # "idle"
  /\ NDone(r)
  /\ UNCHANGED <<numbered, shownTo, withdrawn, budget, bill>>

PriceNext ==
  \/ \E total \in Totals, n \in Phases : FromTemplate(total, n)
  \/ \E subtotal \in Totals, percent \in Fees, absorbed \in BOOLEAN :
       CalculateTotals(subtotal, percent, absorbed)
  \/ \E i \in Numbers : SendNumber(i) \/ \E r \in NRequests : DeleteDraftRead(r, i)
  \/ \E r \in NRequests : \/ generateInvoiceNumber(r) \/ InsertInvoice(r)
                          \/ DeleteDraft(r) \/ PriceFail(r)
  \/ \E gone \in SUBSET Used : RemoveWithProject(gone)

PriceSpec == PriceInit /\ [][PriceNext]_priceVars

-----------------------------------------------------------------------------
PriceTypeOK ==
  /\ numbered \in [Numbers -> {"none", "draft", "sent"}]
  /\ shownTo \in [Numbers -> Nat]
  /\ withdrawn \subseteq Numbers
  /\ ipc \in [NRequests -> {"idle", "insert", "delete"}]
  /\ iloc \in [NRequests -> Numbers \cup {NoNumber}]

\* A client is never sent an invoice with the number of another that still exists: a number
\* comes back only when its invoice was deleted, which a sent one is with its project, or
\* when it was sent after a deletion had found it a draft (deleteDraft, remove).
SentNumberIsUnique == \A i \in Numbers \ withdrawn : shownTo[i] <= 1

\* As long as every number fits the padding the next number is free, and it is
\* one more than the greatest: the order of the strings is the order of the
\* numbers.  Beyond it the number after the greatest padded one is computed for
\* ever (generateInvoiceNumber).
NextIsFree ==
  (\A i \in Used : i < Padded) => \A i \in Used : i <= LastNumber(Used)

\* A project made from a template costs what its client entered: the phases
\* before the last are alike, and the last takes at most a cent per phase more
\* (ProjectsService.create).
PhasesAddUp ==
  LET first == budget.amounts[1]  last == budget.amounts[budget.n] IN
  /\ \A i \in 1..(budget.n - 1) : budget.amounts[i] = first
  /\ (budget.n - 1) * first + last = budget.total
  /\ first <= last /\ last < first + budget.n

\* An invoice asks for its lines and, when the client pays it, the fee; the fee
\* is within half a cent of its percentage, half a cent included (calculateInvoiceTotals).
BillAddsUp ==
  /\ bill.total = IF bill.absorbed THEN bill.subtotal ELSE bill.subtotal + bill.fee
  /\ 10000 * bill.fee - bill.subtotal * bill.percent <= 5000
  /\ bill.subtotal * bill.percent - 10000 * bill.fee <= 5000

PricesAgree == SentNumberIsUnique /\ NextIsFree /\ PhasesAddUp /\ BillAddsUp
=============================================================================
