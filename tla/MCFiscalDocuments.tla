-------------------------- MODULE MCFiscalDocuments --------------------------
EXTENDS FiscalDocuments

\* The client pays at once.  The flows see of a payment only that invoice.paid was
\* emitted: a delayed one leads there by the same last step, or never.
AtOnce == \A o \in OfferIds : offers[o].session \notin {"completed", "silent"}

MCFairFiscalSpec == Init /\ FiscalInit /\ [][ComposedNext /\ AtOnce']_allVars /\ FlowFairness
=============================================================================
