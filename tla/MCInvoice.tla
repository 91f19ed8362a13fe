------------------------------ MODULE MCInvoice ------------------------------
(***************************************************************************)
(* Invoice for TLC.  What the invoices come to makes no difference but in  *)
(* comparison, so totals only grow: an edit leaves the total or raises it. *)
(***************************************************************************)
EXTENDS Invoice

Smallest == CHOOSE t \in Totals : \A u \in Totals : t <= u

MCSpec == Init /\ total = Smallest /\ [][Next /\ total' >= total]_vars /\ Fairness
=============================================================================
