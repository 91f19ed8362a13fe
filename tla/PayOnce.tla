------------------------------- MODULE PayOnce -------------------------------
(***************************************************************************)
(* What releasing an escrow promises: the worker's share leaves the        *)
(* platform at most once and to one worker, and the escrow is closed only  *)
(* after it has left.                                                      *)
(***************************************************************************)
CONSTANTS Workers, NoWorker

VARIABLES paidTo,  \* who received the share, NoWorker while nobody has
          closed   \* the escrow is no longer held

Init == paidTo = NoWorker /\ closed = FALSE

Pay(w) == paidTo = NoWorker /\ paidTo' = w /\ UNCHANGED closed

Close == paidTo # NoWorker /\ closed' = TRUE /\ UNCHANGED paidTo

Next == Close \/ \E w \in Workers : Pay(w)

Spec == Init /\ [][Next]_<<paidTo, closed>>
=============================================================================
